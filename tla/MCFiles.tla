------------------------------ MODULE MCFiles ------------------------------
(***************************************************************************)
(* Files for TLC.                                                          *)
(***************************************************************************)
EXTENDS Files, TLC

CONSTANT MaxOpen    \* bound: the descriptors of all processes and what is lost

\* The file system at /root is distinguished, and the pool has an order.
Symmetry ==
    Permutations(Procs) \cup Permutations(Blocks) \cup Permutations(Pipes)

Descriptors == {h \in Procs \X Fds : held[h[1]][h[2]] # NULL}

OnlyRoot == \A i \in Mounts \ {Root} : refs[i] = 0
Looking(p) == held[p][Local] # NULL \/ \E i \in todo[p] : i.at = Local

\* While there is a pipe, only the root file system is mounted and descriptors
\* are of the pipe and the standard ones; so they are kept apart from what is
\* lost and from what is opened to be looked at.
Small ==
    /\ Cardinality(Descriptors) + Cardinality(leaked) <= MaxOpen
    /\ live # {} =>
        /\ OnlyRoot
        /\ \A h \in Descriptors : held[h[1]][h[2]].type \notin {"file", "dir"}
    /\ leaked # {} => live = {} /\ OnlyRoot
    /\ (\E p \in Procs : Looking(p)) => live = {} /\ \A p \in Procs : pc[p] # "dead"
=============================================================================
