-------------------------------- MODULE Pipe --------------------------------
(***************************************************************************)
(* One pipe and the processes that hold its ends: os/kernel/pipe.c, with   *)
(* P and V as pipe.c uses them (the lists of the scheduler are in Sched),  *)
(* the ends that sys_clone adds and sys_close and sys_exit drop, and         *)
(* sys_kill, which takes a sleeping process out of P without a V.          *)
(*                                                                         *)
(* A step is the code between two acquisitions of pip->mutex or of the     *)
(* lock inside P, V, sleep or wakeup.  Kernel code is not preempted: a     *)
(* process in the middle of a call occupies a hart until it sleeps or      *)
(* returns, and HartNum of them can be there at once.                      *)
(***************************************************************************)
EXTENDS Integers, Sequences, SequencesExt, FiniteSets

CONSTANTS
    Procs,
    Creator,    \* the process that called sys_pipe2
    HartNum,    \* CPU_N
    Size,       \* PIPE_BUFF_SIZE
    Signals,    \* what others send with sys_kill: "kill" stands for SIGKILL and
                \* SIGTERM, "other" for a signal that does not end the process
    MaxBytes,   \* bound: no sys_write begins that would write more bytes in all
    MaxCount    \* bound: the count of a sys_read or sys_write

ASSUME PipeAssumption ==
    /\ IsFiniteSet(Procs)
    /\ Creator \in Procs
    /\ HartNum \in Nat \ {0}
    /\ Size \in Nat \ {0}
    /\ Signals \subseteq {"kill", "other"}
    /\ MaxBytes \in Nat
    /\ MaxCount \in Nat \ {0}

Ends == {"in", "out"}       \* UTYPE_PIPEIN is read from, UTYPE_PIPEOUT written to
Slots == 0 .. Size - 1

VARIABLES
    buf, r_pos, w_pos, r_ref, w_ref,    \* the fields of pipe_t
    value,      \* pip->sem.value
    freed,      \* kfree(pip) was called
    ends,       \* the ends that p has a descriptor for (one each; Files has more)
    pc,         \* where p is in a call; "user" outside, "none" before its clone
    left,       \* the count that is left of p's call
    sleepers,   \* the processes of sleep_list that sleep on pip->sem, in order
    killed,     \* p->receive_kill > 0
    target,     \* in a sys_kill of p: the process it is for (p outside one)
    sent,       \* history: the number of bytes written
    received,   \* history: the bytes read, as the numbers they were written under
    ended,      \* history: a reader was told the end of the file
    lost,       \* history: the calls that P let pass and a kill made leave
    intact      \* history: at most Size - 1 bytes were ever unread, and nobody
                \* left P through a signal that does not end it

posVars == <<buf, r_pos, w_pos>>
refVars == <<r_ref, w_ref, freed, ends>>
semVars == <<value, sleepers>>
sigVars == <<killed, target>>
history == <<sent, received, ended, lost, intact>>
vars == <<posVars, refVars, semVars, sigVars, pc, left, history>>

\* pipe_alloc and sys_pipe2.  A byte is the number under which it is written.
Init ==
    /\ buf = [i \in Slots |-> 0]
    /\ r_pos = 0 /\ w_pos = 0
    /\ r_ref = 1 /\ w_ref = 1
    /\ value = 0
    /\ freed = FALSE
    /\ ends = [p \in Procs |-> IF p = Creator THEN Ends ELSE {}]
    /\ pc = [p \in Procs |-> IF p = Creator THEN "user" ELSE "none"]
    /\ left = [p \in Procs |-> 0]
    /\ sleepers = <<>>
    /\ killed = [p \in Procs |-> FALSE]
    /\ target = [p \in Procs |-> p]
    /\ sent = 0 /\ received = <<>> /\ ended = FALSE /\ lost = 0
    /\ intact = TRUE

\* A process that waits on sleep_list or ready_list has no hart; one in user
\* mode can be interrupted and gives its hart away.
OffHart == {"none", "gone", "user", "asleep", "woken"}
HartFree == Cardinality({p \in Procs : pc[p] \notin OffHart}) < HartNum

\* pip->mutex is held across steps only by a writer that calls V.
MutexFree == \A p \in Procs : pc[p] \notin {"w_post", "w_wake", "w_unlock"}

\* list_lock is held across steps only by a sys_kill that waits for p->lock; and
\* p->lock by a process on its way to sleep_list, and by sys_exit to its end.
ListFree == \A p \in Procs : pc[p] # "k_move"
Locked(p) == pc[p] \in {"r_link", "exit"}

Goto(p, label) == pc' = [pc EXCEPT ![p] = label]

\* One more byte is dealt with.  The call goes on with the next one or returns;
\* then signal_handler ends a process that was killed.
NextTurn(p, goOn, label) ==
    /\ Goto(p, IF goOn THEN label ELSE IF killed[p] THEN "exit" ELSE "user")
    /\ left' = [left EXCEPT ![p] = IF goOn THEN @ - 1 ELSE 0]
Return(p) == NextTurn(p, FALSE, "user")

\* A variant of NextPos: the position wraps one place too late.
NextPosLate(pos) == (pos + 1) % (Size + 1)

NextPos(pos) == (pos + 1) % Size

-----------------------------------------------------------------------------
(* pipe_read *)

ReadCall(p, n) ==
    /\ pc[p] = "user" /\ HartFree
    /\ "in" \in ends[p]
    /\ left' = [left EXCEPT ![p] = n]
    /\ Goto(p, "r_test")
    /\ UNCHANGED <<posVars, refVars, semVars, sigVars, history>>

\* A variant of NothingLeft: the writers need not have closed their ends.
NothingThere == r_pos = w_pos

\* A variant of NothingLeft: the wrong count is tested.
NothingLeftOfIn == r_ref = 0 /\ r_pos = w_pos

\* What the reader takes for the end of the file.
NothingLeft == w_ref = 0 /\ r_pos = w_pos

ReadTest(p) ==
    /\ pc[p] = "r_test" /\ MutexFree
    /\ IF NothingLeft
       THEN /\ Return(p)
            /\ ended' = TRUE
       ELSE /\ Goto(p, "r_wait")
            /\ UNCHANGED <<left, ended>>
    /\ UNCHANGED <<posVars, refVars, semVars, sigVars, sent, received, lost, intact>>

\* P, up to the release of the lock of the semaphore.
ReadP(p) ==
    /\ pc[p] = "r_wait"
    /\ value' = value - 1
    /\ Goto(p, IF value > 0 THEN "r_got" ELSE "r_sleep")
    /\ UNCHANGED <<posVars, refVars, sleepers, left, sigVars, history>>

\* sleep takes p->lock and sets the status.
ReadSleep(p) ==
    /\ pc[p] = "r_sleep"
    /\ Goto(p, "r_link")
    /\ UNCHANGED <<posVars, refVars, semVars, left, sigVars, history>>

\* _move_switch: the reader gets to sleep_list and leaves the hart.
ReadLink(p) ==
    /\ pc[p] = "r_link" /\ ListFree
    /\ sleepers' = Append(sleepers, p)
    /\ Goto(p, "asleep")
    /\ UNCHANGED <<posVars, refVars, value, left, sigVars, history>>

\* The scheduler gives a woken reader a hart; P returns.
ReadResume(p) ==
    /\ pc[p] = "woken" /\ HartFree /\ ListFree
    /\ Goto(p, "r_got")
    /\ UNCHANGED <<posVars, refVars, semVars, left, sigVars, history>>

\* The test of receive_kill after P: the byte that P stands for stays.
ReadBreak(p) ==
    /\ pc[p] = "r_got" /\ killed[p]
    /\ lost' = lost + 1
    /\ Return(p)
    /\ UNCHANGED <<posVars, refVars, semVars, sigVars, sent, received, ended, intact>>

ReadGoOn(p) ==
    /\ pc[p] = "r_got" /\ ~killed[p]
    /\ Goto(p, "r_take")
    /\ UNCHANGED <<posVars, refVars, semVars, left, sigVars, history>>

ReadTake(p) ==
    /\ pc[p] = "r_take" /\ MutexFree
    /\ r_pos' = NextPos(r_pos)
    /\ NextTurn(p, left[p] > 1, "r_test")
    /\ received' = IF intact THEN Append(received, buf[r_pos]) ELSE received
    /\ UNCHANGED <<buf, w_pos, refVars, semVars, sigVars, sent, ended, lost, intact>>

-----------------------------------------------------------------------------
(* pipe_write.  It never waits for room. *)

WriteCall(p, n) ==
    /\ pc[p] = "user" /\ HartFree
    /\ "out" \in ends[p]
    /\ sent + n <= MaxBytes
    /\ left' = [left EXCEPT ![p] = n]
    /\ Goto(p, "w_put")
    /\ UNCHANGED <<posVars, refVars, semVars, sigVars, history>>

\* A variant of WritePut: the test of r_ref comes before the V, which is left out.
WritePutUnread(p) ==
    /\ pc[p] = "w_put" /\ MutexFree
    /\ buf' = [buf EXCEPT ![w_pos] = sent + 1]
    /\ w_pos' = NextPos(w_pos)
    /\ sent' = sent + 1
    /\ intact' = (intact /\ sent - Len(received) < Size - 1)
    /\ Goto(p, IF r_ref > 0 THEN "w_post" ELSE "w_unlock")
    /\ UNCHANGED <<r_pos, refVars, semVars, left, sigVars, received, ended, lost>>

WritePut(p) ==
    /\ pc[p] = "w_put" /\ MutexFree
    /\ buf' = [buf EXCEPT ![w_pos] = sent + 1]
    /\ w_pos' = NextPos(w_pos)
    /\ sent' = sent + 1
    /\ intact' = (intact /\ sent - Len(received) < Size - 1)
    /\ Goto(p, "w_post")
    /\ UNCHANGED <<r_pos, refVars, semVars, left, sigVars, received, ended, lost>>

\* The end of a turn of the loop, up to unlock(&pip->mutex).
TurnDone(p) == NextTurn(p, left[p] > 1 /\ r_ref > 0, "w_put")

\* A variant of WritePost: V with < for <=, the last waiter is not woken.
WritePostStrict(p) ==
    /\ pc[p] = "w_post" /\ value >= -1
    /\ value' = value + 1
    /\ TurnDone(p)
    /\ UNCHANGED <<posVars, refVars, sleepers, sigVars, history>>

\* V that finds nobody to wake.
WritePost(p) ==
    /\ pc[p] = "w_post" /\ value >= 0
    /\ value' = value + 1
    /\ TurnDone(p)
    /\ UNCHANGED <<posVars, refVars, sleepers, sigVars, history>>

\* V that has a waiter to wake, up to the call of wakeup.
WritePostWake(p) ==
    /\ pc[p] = "w_post" /\ value < 0
    /\ value' = value + 1
    /\ Goto(p, "w_wake")
    /\ UNCHANGED <<posVars, refVars, sleepers, left, sigVars, history>>

\* wakeup: the first sleeper goes to ready_list.
WriteWakeup(p) ==
    /\ pc[p] = "w_wake" /\ ListFree /\ sleepers # <<>>
    /\ sleepers' = Tail(sleepers)
    /\ pc' = [pc EXCEPT ![p] = "w_unlock", ![Head(sleepers)] = "woken"]
    /\ UNCHANGED <<posVars, refVars, value, left, sigVars, history>>

\* wakeup that finds nobody: who was turned away has not got to sleep yet, or
\* was taken from sleep_list by a signal.
WriteWakeupMiss(p) ==
    /\ pc[p] = "w_wake" /\ ListFree /\ sleepers = <<>>
    /\ Goto(p, "w_unlock")
    /\ UNCHANGED <<posVars, refVars, semVars, left, sigVars, history>>

WriteTurnDone(p) ==
    /\ pc[p] = "w_unlock"
    /\ TurnDone(p)
    /\ UNCHANGED <<posVars, refVars, semVars, sigVars, history>>

-----------------------------------------------------------------------------
(* pipe_close, and the calls that add an end *)

\* A variant of RefsAfter: closing does not look which end it was given.
RefsAfterBoth(e) ==
    /\ r_ref' = r_ref - 1
    /\ w_ref' = IF w_ref > 0 THEN w_ref - 1 ELSE 0

RefsAfter(e) ==
    /\ r_ref' = IF e = "in" /\ r_ref > 0 THEN r_ref - 1 ELSE r_ref
    /\ w_ref' = IF e = "out" /\ w_ref > 0 THEN w_ref - 1 ELSE w_ref

\* sys_close, or the walk of sys_exit over the descriptors.
Close(p, e) ==
    /\ pc[p] = "exit" \/ (pc[p] = "user" /\ HartFree)
    /\ e \in ends[p]
    /\ MutexFree
    /\ ends' = [ends EXCEPT ![p] = @ \ {e}]
    /\ RefsAfter(e)
    /\ freed' = (freed \/ (r_ref' = 0 /\ w_ref' = 0))
    /\ UNCHANGED <<posVars, semVars, pc, left, sigVars, history>>

Exit(p) ==
    /\ pc[p] = "user" /\ HartFree
    /\ Goto(p, "exit")
    /\ UNCHANGED <<posVars, refVars, semVars, left, sigVars, history>>

ExitDone(p) ==
    /\ pc[p] = "exit" /\ ListFree /\ ends[p] = {}
    /\ Goto(p, "gone")
    /\ UNCHANGED <<posVars, refVars, semVars, left, sigVars, history>>

\* sys_clone: the child gets every end of its parent.
Clone(p, q) ==
    /\ pc[p] = "user" /\ HartFree
    /\ pc[q] = "none"
    /\ MutexFree /\ ListFree
    /\ ends' = [ends EXCEPT ![q] = ends[p]]
    /\ r_ref' = IF "in" \in ends[p] THEN r_ref + 1 ELSE r_ref
    /\ w_ref' = IF "out" \in ends[p] THEN w_ref + 1 ELSE w_ref
    /\ Goto(q, "user")
    /\ UNCHANGED <<posVars, freed, semVars, left, sigVars, history>>

-----------------------------------------------------------------------------
(* sys_kill of q for p, which tests the status of p without a lock, then takes
   list_lock and p->lock and moves p, whatever has become of it. *)

CanSend(q, p) ==
    /\ pc[q] = "user" /\ HartFree
    /\ pc[p] \notin {"none", "gone"} /\ ~Locked(p)
    /\ target' = [target EXCEPT ![q] = p]
    /\ Goto(q, "k_test")

\* send_signal of SIGKILL or SIGTERM, and receive_kill++.
Kill(q, p) ==
    /\ "kill" \in Signals
    /\ CanSend(q, p)
    /\ killed' = [killed EXCEPT ![p] = TRUE]
    /\ UNCHANGED <<posVars, refVars, semVars, left, history>>

\* Any other signal.
Signal(q, p) ==
    /\ "other" \in Signals
    /\ CanSend(q, p)
    /\ UNCHANGED <<posVars, refVars, semVars, left, killed, history>>

\* The process that sleeps, or is about to, is in P; any other is let alone.
KillTest(q) ==
    /\ pc[q] = "k_test"
    /\ IF pc[target[q]] \in {"r_link", "asleep"}
       THEN Goto(q, "k_lock") /\ UNCHANGED <<left, target>>
       ELSE Return(q) /\ target' = [target EXCEPT ![q] = q]
    /\ UNCHANGED <<posVars, refVars, semVars, killed, history>>

KillLock(q) ==
    /\ pc[q] = "k_lock" /\ ListFree
    /\ Goto(q, "k_move")
    /\ UNCHANGED <<posVars, refVars, semVars, left, sigVars, history>>

AfterCall(q) == IF killed[q] THEN "exit" ELSE "user"

\* A variant of Unlink: the sleeper stays linked on sleep_list.
StaysLinked(p) == UNCHANGED sleepers
Unlink(p) == \E i \in DOMAIN sleepers : sleepers[i] = p /\ sleepers' = RemoveAt(sleepers, i)

\* The sleeper gets past P without a V.
WithoutV(q) ==
    LET p == target[q] IN
    /\ pc[q] = "k_move" /\ pc[p] = "asleep"
    /\ Unlink(p)
    /\ pc' = [pc EXCEPT ![p] = "woken", ![q] = AfterCall(q)]
    /\ target' = [target EXCEPT ![q] = q]
    /\ intact' = (intact /\ killed[p])
    /\ UNCHANGED <<posVars, refVars, value, left, killed, sent, received, ended, lost>>

\* It has been woken since the test and is on ready_list: it goes to the head.
KillRelinks(q) ==
    /\ pc[q] = "k_move" /\ pc[target[q]] \in {"woken", "user"}
    /\ Goto(q, AfterCall(q))
    /\ target' = [target EXCEPT ![q] = q]
    /\ UNCHANGED <<posVars, refVars, semVars, left, killed, history>>

\* It runs by now, or is dead: it gets on ready_list all the same, for the other
\* hart to dispatch it a second time.  Nothing is defined after this step.
KillsRunner(q) ==
    /\ pc[q] = "k_move" /\ pc[target[q]] \notin {"asleep", "woken"} /\ ~Locked(target[q])
    /\ Goto(q, "wild")
    /\ UNCHANGED <<posVars, refVars, semVars, left, sigVars, history>>

-----------------------------------------------------------------------------
\* A variant of Readable: select looks at the semaphore, off by one.
ReadableByValue == value >= 0

\* sys_pselect6, on what select calls ready to be read.
Readable == r_pos # w_pos

-----------------------------------------------------------------------------
\* What a process does without a choice of its program.
Kernel(p) ==
    \/ ReadTest(p) \/ ReadP(p) \/ ReadSleep(p) \/ ReadLink(p) \/ ReadBreak(p) \/ ReadGoOn(p) \/ ReadTake(p)
    \/ WritePut(p) \/ WritePost(p) \/ WritePostWake(p) \/ WriteWakeup(p) \/ WriteWakeupMiss(p)
    \/ WriteTurnDone(p)
    \/ KillTest(p) \/ KillLock(p) \/ WithoutV(p) \/ KillRelinks(p) \/ KillsRunner(p)
    \/ ExitDone(p) \/ (pc[p] = "exit" /\ \E e \in Ends : Close(p, e))

Next ==
    /\ \A p \in Procs : pc[p] # "wild"
    /\ \E p \in Procs :
        \/ Kernel(p) \/ ReadResume(p)
        \/ \E n \in 1 .. MaxCount : ReadCall(p, n) \/ WriteCall(p, n)
        \/ \E e \in Ends : Close(p, e)
        \/ \E q \in Procs : Clone(p, q) \/ Kill(p, q) \/ Signal(p, q)
        \/ Exit(p)

Spec == Init /\ [][Next]_vars

\* A hart goes on with a call, and a woken process is dispatched in the end
\* however often others enter the kernel before it (ReadyRuns of Sched).
FairSpec ==
    /\ Spec
    /\ \A p \in Procs : WF_vars(Kernel(p)) /\ SF_vars(ReadResume(p))

-----------------------------------------------------------------------------
(* Properties *)

Reading == {"r_test", "r_wait", "r_sleep", "r_link", "asleep", "woken", "r_got", "r_take"}
Writing == {"w_put", "w_post", "w_wake", "w_unlock"}
Killing == {"k_test", "k_lock", "k_move"}

TypeOK ==
    /\ buf \in [Slots -> Nat]
    /\ r_pos \in Slots /\ w_pos \in Slots
    /\ r_ref \in Nat /\ w_ref \in Nat
    /\ value \in Int
    /\ freed \in BOOLEAN
    /\ ends \in [Procs -> SUBSET Ends]
    /\ pc \in [Procs -> {"none", "user", "exit", "gone", "wild"} \cup Reading \cup Writing
                        \cup Killing]
    /\ left \in [Procs -> Nat]
    /\ sleepers \in Seq(Procs)
    /\ killed \in [Procs -> BOOLEAN] /\ target \in [Procs -> Procs]
    /\ sent \in Nat /\ received \in Seq(Nat) /\ ended \in BOOLEAN /\ lost \in Nat
    /\ intact \in BOOLEAN

\* The readers that P turned away and nobody has woken; those that are past P
\* and have not taken their byte; the writers between their byte and the V for
\* it; those that have a wakeup to do.
Blocked == {p \in Procs : pc[p] \in {"r_sleep", "r_link", "asleep"}}
Passed == {p \in Procs : pc[p] \in {"woken", "r_got", "r_take"}}
Posting == {p \in Procs : pc[p] = "w_post"}
Waking == {p \in Procs : pc[p] = "w_wake"}
Unread == sent - Len(received)

\* sleep_list and the program counters agree: nobody sleeps twice, and no
\* reader is on the list that a wakeup or a signal has already sent on.
SleepersMatch ==
    /\ IsInjective(sleepers)
    /\ \A p \in Procs : p \in Range(sleepers) <=> pc[p] = "asleep"

\* Every unread byte has its credit: in the semaphore, with a reader that took
\* it in P, on its way from a writer, or gone with a reader that was killed
\* between P and the byte (pipe.c:27-32, pipe.c:48-50).
CreditPerByte ==
    intact => Unread = value + Cardinality(Blocked) + Cardinality(Passed)
                        + Cardinality(Posting) + lost

Holders(e) == {p \in Procs : e \in ends[p]}

\* r_ref and w_ref count descriptors, so that the pipe is freed with the last
\* one, and no call is ever in a pipe that has been freed (pipe.c:66-86).
RefsCountEnds ==
    /\ r_ref = Cardinality(Holders("in")) /\ w_ref = Cardinality(Holders("out"))
    /\ freed <=> r_ref = 0 /\ w_ref = 0
    /\ \A p \in Procs :
        /\ pc[p] \in Reading => "in" \in ends[p]
        /\ pc[p] \in Writing => "out" \in ends[p]

\* README.md:45: a reader that select told that there is something to read must
\* not hang in the read, although select looks at the positions, without the
\* mutex (fs.c:1373), and sys_read goes through P.  For the only reader of a pipe.
SelectTellsTruth ==
    \A p \in Procs :
        /\ Readable /\ intact /\ lost = 0
        /\ pc[p] = "user" /\ \A q \in Procs \ {p} : "in" \notin ends[q]
        => value > 0 \/ Posting # {}

\* The bytes come out as they went in, each once, and the end of the file is
\* reported only when all have come out, as long as the writers leave at most
\* Size - 1 bytes unread.
File == INSTANCE Channel WITH Capacity <- Size - 1, closed <- (w_ref = 0)

ImplementsChannel == File!Spec

\* On one hart: a byte that is written while a reader sleeps is read in the
\* end, however many other readers and writers there are.
SleeperServed ==
    Signals = {} /\ HartNum = 1 =>
        \A n \in 1 .. MaxBytes :
            sent >= n /\ Blocked # {} ~> Len(received) >= n \/ ~intact

\* On one hart: a read that begins when the writers are gone, and no other
\* reader has been woken for a byte it has not taken yet, ends.  (A reader that
\* sleeps when the last writer closes is not woken, and one that takes the byte
\* of a woken reader for its own goes to sleep for ever: pipe.c:17-27, 77.)
EndReached ==
    Signals = {} /\ HartNum = 1 =>
        \A p \in Procs :
            pc[p] = "r_test" /\ w_ref = 0 /\ Passed = {} ~> pc[p] \in {"user", "exit"} \/ ~intact
=============================================================================
