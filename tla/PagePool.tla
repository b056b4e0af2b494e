------------------------------ MODULE PagePool ------------------------------
(***************************************************************************)
(* What alloc_pages and free_pages promise, whatever the list behind them: *)
(* a request is given consecutive pages that were free, or nothing; a page *)
(* comes back only by being freed; a page is never free and in use.  The   *)
(* call free_pages takes two steps: the caller gives the pages up, later   *)
(* they are free.                                                          *)
(***************************************************************************)
EXTENDS Integers

CONSTANTS Pages, MaxRequest

VARIABLES
    free,       \* the pages a request may be given
    held        \* the pages that were given out and not given up

vars == <<free, held>>

Extent(first, n) == first .. first + n - 1

Init ==
    /\ free \subseteq Pages
    /\ held = {}

Allocate(first, n) ==
    /\ Extent(first, n) \subseteq free
    /\ free' = free \ Extent(first, n)
    /\ held' = held \cup Extent(first, n)

GiveUp(first, n) ==
    /\ Extent(first, n) \subseteq held
    /\ held' = held \ Extent(first, n)
    /\ UNCHANGED free

Free(first, n) ==
    /\ Extent(first, n) \subseteq Pages \ (free \cup held)
    /\ free' = free \cup Extent(first, n)
    /\ UNCHANGED held

Next ==
    \E first \in Pages, n \in 1 .. MaxRequest :
        Allocate(first, n) \/ GiveUp(first, n) \/ Free(first, n)

Spec == Init /\ [][Next]_vars
=============================================================================
