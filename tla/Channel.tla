------------------------------- MODULE Channel -------------------------------
(***************************************************************************)
(* What a pipe promises to its readers and writers: bytes come out in the  *)
(* order in which they went in, each once, and the end of the file comes   *)
(* after the last one.  The pipe does not make a writer wait: it keeps its *)
(* promise as long as at most Capacity bytes are unread.                   *)
(***************************************************************************)
EXTENDS Integers, Sequences

CONSTANT Capacity

VARIABLES
    sent,       \* the number of bytes written; byte n is the n-th of them
    received,   \* the bytes read, in order
    closed,     \* nobody can write any more
    ended,      \* a reader was told the end of the file
    intact      \* the promise holds

vars == <<sent, received, closed, ended, intact>>

Init ==
    /\ sent = 0 /\ received = <<>>
    /\ closed = FALSE
    /\ ended = FALSE
    /\ intact = TRUE

Write ==
    /\ ~closed
    /\ sent' = sent + 1
    /\ intact' = (intact /\ sent - Len(received) < Capacity)
    /\ UNCHANGED <<received, closed, ended>>

Read ==
    /\ intact /\ Len(received) < sent
    /\ received' = Append(received, Len(received) + 1)
    /\ UNCHANGED <<sent, closed, ended, intact>>

EndOfFile ==
    /\ intact => closed /\ Len(received) = sent
    /\ ended' = TRUE
    /\ UNCHANGED <<sent, received, closed, intact>>

Close ==
    /\ closed' = TRUE
    /\ UNCHANGED <<sent, received, ended, intact>>

\* The environment breaks the rules.
Disturb ==
    /\ intact' = FALSE
    /\ UNCHANGED <<sent, received, closed, ended>>

Next == Write \/ Read \/ EndOfFile \/ Close \/ Disturb

Spec == Init /\ [][Next]_vars
=============================================================================
