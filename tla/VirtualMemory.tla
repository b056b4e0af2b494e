--------------------------- MODULE VirtualMemory ---------------------------
(***************************************************************************)
(* What the memory calls promise a program, whatever pages stand behind    *)
(* its addresses: each process has a memory of its own.  It reads what it  *)
(* has written there or inherited from its parent at clone; memory that it *)
(* gets from brk, mmap or by using its stack is zero; execve gives it the  *)
(* memory of the program.                                                  *)
(***************************************************************************)
CONSTANTS
    Procs,
    Va,         \* the virtual pages of a process
    Values,     \* what a page can contain
    Zero,       \* the content of new memory
    Nothing,    \* no memory
    Images      \* the memories that programs start with

VARIABLE view   \* view[p][v]: what p reads at v

Empty == [v \in Va |-> Nothing]

Init == \E p \in Procs, image \in Images :
    view = [q \in Procs |-> IF q = p THEN image ELSE Empty]

\* Whatever happens in p, no other process sees it.
Alone(p) == \A q \in Procs \ {p} : view'[q] = view[q]

Store(p, v) ==
    /\ view[p][v] # Nothing /\ view'[p][v] \in Values
    /\ \A w \in Va \ {v} : view'[p][w] = view[p][w]

\* p gets memory where it had none.
Map(p) ==
    \A v \in Va : view[p][v] # view'[p][v] => view[p][v] = Nothing /\ view'[p][v] = Zero

\* p gives memory up.
Unmap(p) ==
    \A v \in Va : view[p][v] # view'[p][v] => view'[p][v] = Nothing

\* p, which has no memory, gets that of its parent.
Fork(p, parent) ==
    /\ view[p] = Empty
    /\ view'[p] = view[parent]

Become(p) == view'[p] \in Images

Next ==
    \E p \in Procs :
        /\ Alone(p)
        /\ \/ Map(p)
           \/ Unmap(p)
           \/ \E v \in Va : Store(p, v)
           \/ \E parent \in Procs : Fork(p, parent)
           \/ Become(p)

Spec == Init /\ [][Next]_view
=============================================================================
