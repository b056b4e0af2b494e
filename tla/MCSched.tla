------------------------------- MODULE MCSched -------------------------------
(* Model checking of Sched: harts are interchangeable, and so are the       *)
(* semaphores and the processes that sys_clone creates.                     *)
EXTENDS Sched

Symmetry ==
    Permutations(Harts) \cup Permutations(Sems) \cup Permutations(Procs \ {Idle, First})
=============================================================================
