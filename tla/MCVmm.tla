------------------------------- MODULE MCVmm -------------------------------
(***************************************************************************)
(* Vmm for TLC.                                                            *)
(***************************************************************************)
EXTENDS Vmm, TLC

CONSTANT MaxAreas   \* bound: the areas of all processes outside of their programs

\* Shared text and private data; the first process has one page of both.
MCPrograms == {[
    areas |-> {Area(0, 1, "PROG", {"R", "X"}, FALSE), Area(1, 1, "PROG", {"R", "W"}, FALSE)},
    loaded |-> {1}, brk |-> 2]}
MCBoot == [areas |-> {Area(0, 2, "PROG", {"R", "W", "X"}, FALSE)}, loaded |-> {0, 1}, brk |-> 0]
MCProts == {{"R", "W"}}
Symmetry == Permutations(Procs) \cup Permutations(Pages)

\* A process that unmaps a part of its program, or takes one of these pages
\* for something else, is not followed further.
Extra == {h \in Procs \X Va : \E a \in area[h[1]] : a.va = h[2] /\ a.type # "PROG"}
Whole(x) == \E g \in MCPrograms \cup {MCBoot} :
    {a.va : a \in {b \in area[x] : b.type = "PROG"}} = {a.va : a \in g.areas}

Small ==
    /\ Cardinality(Extra) <= MaxAreas
    /\ \A h \in Extra : h[2] > 1
    /\ \A x \in Procs, a \in UNION {area[y] : y \in Procs} : a.file => area[x] \in {{}, area[x] \cup {a}}
    /\ \A x \in Procs : pc[x] # "none" => pc[x] = "user" /\ Whole(x)
=============================================================================
