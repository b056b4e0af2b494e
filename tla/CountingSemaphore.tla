-------------------------- MODULE CountingSemaphore --------------------------
(***************************************************************************)
(* What P and V promise: a semaphore is a number of credits.  V adds one;  *)
(* a process gets past P by taking one, either at once or, after it was    *)
(* turned away and waits, when one is granted to it.  A process may be     *)
(* turned away although there is a credit (one that is on its way to       *)
(* another waiter), so a credit is never promised twice.                   *)
(***************************************************************************)
EXTENDS Integers

CONSTANTS Procs, Sems

VARIABLES
    credit,     \* credit[s]: V's so far minus P's that got through
    waiting     \* waiting[s]: the processes that wait for s

vars == <<credit, waiting>>

Init ==
    /\ credit = [s \in Sems |-> 0]
    /\ waiting = [s \in Sems |-> {}]

Post(s) ==
    /\ credit' = [credit EXCEPT ![s] = @ + 1]
    /\ UNCHANGED waiting

Pass(s) ==
    /\ credit[s] > 0
    /\ credit' = [credit EXCEPT ![s] = @ - 1]
    /\ UNCHANGED waiting

TurnAway(p, s) ==
    /\ \A t \in Sems : p \notin waiting[t]
    /\ waiting' = [waiting EXCEPT ![s] = @ \cup {p}]
    /\ UNCHANGED credit

Grant(p, s) ==
    /\ p \in waiting[s]
    /\ credit[s] > 0
    /\ waiting' = [waiting EXCEPT ![s] = @ \ {p}]
    /\ credit' = [credit EXCEPT ![s] = @ - 1]

Next ==
    \E s \in Sems :
        \/ Post(s)
        \/ Pass(s)
        \/ \E p \in Procs : TurnAway(p, s) \/ Grant(p, s)

Spec == Init /\ [][Next]_vars
=============================================================================
