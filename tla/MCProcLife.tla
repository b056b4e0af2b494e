----------------------------- MODULE MCProcLife -----------------------------
(* Model checking of ProcLife: the processes that sys_clone creates are     *)
(* interchangeable.                                                         *)
EXTENDS ProcLife

Symmetry == Permutations(Procs \ {Idle, First})
=============================================================================
