------------------------------- MODULE MCPipe -------------------------------
(***************************************************************************)
(* Pipe for TLC.  The processes other than the creator are                 *)
(* interchangeable.                                                        *)
(***************************************************************************)
EXTENDS Pipe, TLC

Symmetry == Permutations(Procs \ {Creator})

\* Bounds: sys_kill is called for a process that is in a read, and to no effect
\* but its move only for one that P has turned away; and not any more once a
\* signal, or too many bytes, have left the pipe no longer intact.
FewKills ==
    \A q \in Procs : pc[q] = "user" /\ pc'[q] = "k_test" =>
        /\ intact
        /\ IF killed' # killed \/ killed[target'[q]]
           THEN pc[target'[q]] \in Reading
           ELSE pc[target'[q]] \in {"r_sleep", "asleep"}
=============================================================================
