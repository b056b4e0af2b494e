---------------------------- MODULE ProcessTree ----------------------------
(***************************************************************************)
(* What process creation, exit and wait promise to programs: every process *)
(* but the first has one keeper, who alone may remove it, and only when it *)
(* is a zombie.  A process that leaves hands its living children to its    *)
(* own keeper and takes its zombies with it.                               *)
(***************************************************************************)
CONSTANTS Procs, Root, First, NoProc

VARIABLES
    state,      \* "absent", "alive" or "zombie"
    keeper      \* who waits for the process, or NoProc

vars == <<state, keeper>>

Init ==
    /\ state = [p \in Procs |-> IF p \in {Root, First} THEN "alive" ELSE "absent"]
    /\ keeper = [p \in Procs |-> IF p = First THEN Root ELSE NoProc]

Kept(p) == {c \in Procs : keeper[c] = p}

Create(p, c) ==
    /\ state[p] = "alive"
    /\ state[c] = "absent"
    /\ state' = [state EXCEPT ![c] = "alive"]
    /\ keeper' = [keeper EXCEPT ![c] = p]

Die(p) ==
    /\ p # Root
    /\ state[p] = "alive"
    /\ state' = [state EXCEPT ![p] = "zombie"]
    /\ UNCHANGED keeper

(* A zombie gives its family away.                                          *)
Bequeath(p) ==
    /\ state[p] = "zombie"
    /\ keeper' = [c \in Procs |->
          IF keeper[c] # p THEN keeper[c]
          ELSE IF state[c] = "zombie" THEN NoProc ELSE keeper[p]]
    /\ state' = [c \in Procs |->
          IF keeper[c] = p /\ state[c] = "zombie" THEN "absent" ELSE state[c]]

Remove(p, c) ==
    /\ state[p] = "alive"
    /\ keeper[c] = p
    /\ state[c] = "zombie"
    /\ state' = [state EXCEPT ![c] = "absent"]
    /\ keeper' = [keeper EXCEPT ![c] = NoProc]

Next ==
    \/ \E p, c \in Procs : Create(p, c) \/ Remove(p, c)
    \/ \E p \in Procs : Die(p) \/ Bequeath(p)

Spec == Init /\ [][Next]_vars
=============================================================================
