----------------------------- MODULE PipeProofs -----------------------------
(***************************************************************************)
(* Proofs about Pipe.  The heart is a count: every process is at one stage *)
(* of its way through P, V and the byte that belongs to them, a step moves *)
(* one process or two from one stage to another, and the numbers at the    *)
(* stages balance the value of the semaphore and the unread bytes          *)
(* (CreditInv).  Together with the place of the bytes in the ring (Ring)   *)
(* it gives the refinement of Channel.                                     *)
(***************************************************************************)
EXTENDS Pipe, ListLemmas, FiniteSetTheorems, TLAPS

USE PipeAssumption

Wrap(x) == IF x >= Size THEN x - Size ELSE x

(* The remainder of a step of one is a comparison.                          *)
LEMMA NextPosWraps ==
    ASSUME NEW pos \in Slots
    PROVE  NextPos(pos) = Wrap(pos + 1) /\ NextPos(pos) \in Slots
BY DEF NextPos, Wrap, Slots

(* Where a process stands between its P and its byte, or its byte and its V. *)
Stage ==
    [p \in Procs |->
        IF pc[p] \in {"r_sleep", "r_link", "asleep"} THEN "blocked"
        ELSE IF pc[p] \in {"woken", "r_got"} /\ killed[p] THEN "doomed"
        ELSE IF pc[p] \in {"woken", "r_got", "r_take"} THEN "granted"
        ELSE IF pc[p] = "w_post" THEN "posting"
        ELSE IF pc[p] = "w_wake" THEN "waking"
        ELSE "other"]

Count(f, x) == Cardinality({p \in Procs : f[p] = x})
N(x) == Count(Stage, x)

(* The mutex excludes.                                                      *)
InMutex == {"w_post", "w_wake", "w_unlock"}
MutexInv == \A p, q \in Procs : pc[p] \in InMutex /\ pc[q] \in InMutex => p = q

(* The unread bytes lie in the ring from r_pos to w_pos.                    *)
Ring ==
    intact =>
        /\ Unread \in 0 .. Size - 1
        /\ \A i \in 1 .. Len(received) : received[i] = i
        /\ w_pos = Wrap(r_pos + Unread)
        /\ \A k \in 0 .. Unread - 1 : buf[Wrap(r_pos + k)] = Len(received) + 1 + k

(* Credits and bytes balance, and there are always at least as many readers *)
(* that were turned away, or have gone without a byte, as wakeups to come:  *)
(* nobody gets past P without a byte of his own.                            *)
Balance ==
    /\ Unread = value + N("blocked") + N("doomed") + N("granted") + N("posting") + lost
    /\ value + N("blocked") + N("doomed") + lost >= N("waking")
    /\ N("blocked") + N("doomed") + lost >= N("waking")
CreditInv == intact => Balance

(* A process that has not been cloned yet holds nothing.                    *)
NoneBefore == \A p \in Procs : pc[p] = "none" => ends[p] = {}

IInv ==
    /\ TypeOK /\ SleepersMatch /\ NoneBefore /\ RefsCountEnds
    /\ MutexInv /\ Ring /\ CreditInv

-----------------------------------------------------------------------------
(* A step is a step of one process, named.                                  *)
Acts(p) ==
    \/ ReadTest(p) \/ ReadP(p) \/ ReadSleep(p) \/ ReadLink(p) \/ ReadResume(p)
    \/ ReadBreak(p) \/ ReadGoOn(p) \/ ReadTake(p)
    \/ WritePut(p) \/ WritePost(p) \/ WritePostWake(p) \/ WriteWakeup(p)
    \/ WriteWakeupMiss(p) \/ WriteTurnDone(p)
    \/ ExitDone(p) \/ Exit(p)
    \/ KillTest(p) \/ KillLock(p) \/ WithoutV(p) \/ KillRelinks(p) \/ KillsRunner(p)

(* The steps of a sys_kill that move nobody; and its beginning.              *)
Idles(p) == KillTest(p) \/ KillLock(p) \/ KillRelinks(p) \/ KillsRunner(p)
Sends(q, p) == Kill(q, p) \/ Signal(q, p)

LEMMA NextActs ==
    ASSUME Next
    PROVE  \/ \E p \in Procs : Acts(p)
           \/ \E p \in Procs, n \in 1 .. MaxCount : ReadCall(p, n) \/ WriteCall(p, n)
           \/ \E p \in Procs, e \in Ends : Close(p, e)
           \/ \E p \in Procs, q \in Procs : Clone(p, q) \/ Sends(p, q)
BY DEF Next, Kernel, Acts, Sends

Labels == {"none", "user", "exit", "gone", "wild"} \cup Reading \cup Writing \cup Killing

LEMMA TypeInit == Init => TypeOK
<1> SUFFICES ASSUME Init PROVE TypeOK
  OBVIOUS
<1>1. buf \in [Slots -> Nat] /\ r_pos \in Slots /\ w_pos \in Slots
  BY DEF Init, Slots
<1>2. ends \in [Procs -> SUBSET Ends] /\ pc \in [Procs -> Labels]
  BY DEF Init, Labels
<1>3. sleepers \in Seq(Procs) /\ received \in Seq(Nat)
  BY DEF Init
<1> QED BY <1>1, <1>2, <1>3 DEF Init, TypeOK, Labels

LEMMA TypeStep == TypeOK /\ [Next]_vars => TypeOK'
<1> SUFFICES ASSUME TypeOK, [Next]_vars PROVE TypeOK'
  OBVIOUS
<1>u. CASE UNCHANGED vars
  BY <1>u DEF vars, posVars, refVars, semVars, sigVars, history, TypeOK
<1>n. CASE Next
  <2> USE DEF posVars, refVars, semVars, sigVars, history, Goto
  <2>1. ASSUME NEW p \in Procs, ReadTest(p) PROVE TypeOK'
    <3>1. pc' \in [Procs -> Labels] /\ left' \in [Procs -> Nat]
      <4>1. CASE NothingLeft
        <5>1. Return(p)
          BY <2>1, <4>1 DEF ReadTest
        <5> QED BY <5>1 DEF Return, NextTurn, TypeOK, Labels
      <4>2. CASE ~NothingLeft
        BY <2>1, <4>2 DEF ReadTest, TypeOK, Labels, Reading
      <4> QED BY <4>1, <4>2
    <3> QED BY <2>1, <3>1 DEF ReadTest, TypeOK, Labels
  <2>2. ASSUME NEW p \in Procs, ReadP(p) PROVE TypeOK'
    BY <2>2 DEF ReadP, TypeOK, Reading
  <2>3. ASSUME NEW p \in Procs, ReadSleep(p) PROVE TypeOK'
    BY <2>3 DEF ReadSleep, TypeOK, Reading
  <2>21. ASSUME NEW p \in Procs, ReadLink(p) PROVE TypeOK'
    BY <2>21, AppendList DEF ReadLink, TypeOK, Reading
  <2>4. ASSUME NEW p \in Procs, ReadResume(p) PROVE TypeOK'
    BY <2>4 DEF ReadResume, TypeOK, Reading
  <2>5. ASSUME NEW p \in Procs, ReadBreak(p) PROVE TypeOK'
    <3>1. pc' \in [Procs -> Labels] /\ left' \in [Procs -> Nat]
      BY <2>5 DEF ReadBreak, Return, NextTurn, TypeOK, Labels
    <3> QED BY <2>5, <3>1 DEF ReadBreak, TypeOK, Labels
  <2>6. ASSUME NEW p \in Procs, ReadGoOn(p) PROVE TypeOK'
    BY <2>6 DEF ReadGoOn, TypeOK, Reading
  <2>7. ASSUME NEW p \in Procs, ReadTake(p) PROVE TypeOK'
    <3>1. pc' \in [Procs -> Labels] /\ left' \in [Procs -> Nat]
      BY <2>7, SMTT(30) DEF ReadTake, NextTurn, TypeOK, Labels, Reading
    <3>2. received' \in Seq(Nat) /\ r_pos' \in Slots
      BY <2>7, NextPosWraps DEF ReadTake, TypeOK
    <3> QED BY <2>7, <3>1, <3>2 DEF ReadTake, TypeOK, Labels
  <2>8. ASSUME NEW p \in Procs, WritePut(p) PROVE TypeOK'
    BY <2>8, NextPosWraps DEF WritePut, TypeOK, Writing
  <2>9. ASSUME NEW p \in Procs, WritePost(p) PROVE TypeOK'
    <3>1. pc' \in [Procs -> Labels] /\ left' \in [Procs -> Nat]
      BY <2>9 DEF WritePost, TurnDone, NextTurn, TypeOK, Labels, Writing
    <3> QED BY <2>9, <3>1 DEF WritePost, TypeOK, Labels
  <2>10. ASSUME NEW p \in Procs, WritePostWake(p) PROVE TypeOK'
    BY <2>10 DEF WritePostWake, TypeOK, Writing
  <2>11. ASSUME NEW p \in Procs, WriteWakeup(p) PROVE TypeOK'
    <3>1. Head(sleepers) \in Procs /\ Tail(sleepers) \in Seq(Procs)
      BY <2>11 DEF WriteWakeup, TypeOK
    <3>2. pc' \in [Procs -> Labels]
      BY <2>11, <3>1 DEF WriteWakeup, TypeOK, Labels, Reading, Writing
    <3> QED BY <2>11, <3>1, <3>2 DEF WriteWakeup, TypeOK, Labels
  <2>12. ASSUME NEW p \in Procs, WriteWakeupMiss(p) PROVE TypeOK'
    BY <2>12 DEF WriteWakeupMiss, TypeOK, Writing
  <2>13. ASSUME NEW p \in Procs, WriteTurnDone(p) PROVE TypeOK'
    <3>1. pc' \in [Procs -> Labels] /\ left' \in [Procs -> Nat]
      BY <2>13 DEF WriteTurnDone, TurnDone, NextTurn, TypeOK, Labels, Writing
    <3> QED BY <2>13, <3>1 DEF WriteTurnDone, TypeOK, Labels
  <2>14. ASSUME NEW p \in Procs, ExitDone(p) \/ Exit(p) PROVE TypeOK'
    BY <2>14 DEF ExitDone, Exit, TypeOK
  <2>15. ASSUME NEW q \in Procs, WithoutV(q) PROVE TypeOK'
    <3>1. PICK p \in Procs : p = target[q]
      BY DEF TypeOK
    <3>2. PICK i \in 1 .. Len(sleepers) : sleepers' = RemoveAt(sleepers, i)
      BY <2>15 DEF WithoutV, Unlink, TypeOK
    <3>3. sleepers' \in Seq(Procs)
      BY <3>2, RemoveAtList DEF TypeOK
    <3>4. pc' \in [Procs -> Labels]
      BY <2>15, <3>1 DEF WithoutV, AfterCall, TypeOK, Labels, Reading
    <3> QED BY <2>15, <3>3, <3>4 DEF WithoutV, TypeOK, Labels
  <2>16. ASSUME NEW p \in Procs, NEW q \in Procs, Sends(q, p) PROVE TypeOK'
    <3>1. /\ pc' = [pc EXCEPT ![q] = "k_test"] /\ target' = [target EXCEPT ![q] = p]
          /\ killed' = killed \/ killed' = [killed EXCEPT ![p] = TRUE]
          /\ UNCHANGED <<posVars, refVars, semVars, left, history>>
      BY <2>16 DEF Sends, Kill, Signal, CanSend
    <3>2. pc' \in [Procs -> Labels] /\ target' \in [Procs -> Procs]
      BY <3>1 DEF TypeOK, Labels, Killing
    <3> QED BY <3>1, <3>2 DEF TypeOK, Labels
  <2>17. ASSUME NEW p \in Procs, Idles(p) PROVE TypeOK'
    <3>1. pc' \in [Procs -> Labels] /\ left' \in [Procs -> Nat] /\ target' \in [Procs -> Procs]
      <4>0. /\ pc \in [Procs -> Labels] /\ left \in [Procs -> Nat]
            /\ target \in [Procs -> Procs]
            /\ {"user", "exit", "wild", "k_lock", "k_move"} \subseteq Labels
        BY DEF TypeOK, Labels, Killing
      <4>1. CASE KillTest(p)
        <5>1. target' = target \/ target' = [target EXCEPT ![p] = p]
          BY <4>1 DEF KillTest
        <5>2. \/ left' = left /\ pc' = [pc EXCEPT ![p] = "k_lock"]
              \/ /\ left' = [left EXCEPT ![p] = 0]
                 /\ pc' = [pc EXCEPT ![p] = IF killed[p] THEN "exit" ELSE "user"]
          BY <4>1 DEF KillTest, Return, NextTurn
        <5> QED BY <4>0, <5>1, <5>2
      <4>2. CASE ~KillTest(p)
        BY <2>17, <4>0, <4>2 DEF Idles, KillLock, KillRelinks, KillsRunner, AfterCall
      <4> QED BY <4>1, <4>2
    <3> QED BY <2>17, <3>1 DEF Idles, KillTest, KillLock, KillRelinks, KillsRunner, TypeOK, Labels
  <2>18. ASSUME NEW p \in Procs, NEW n \in 1 .. MaxCount, ReadCall(p, n) \/ WriteCall(p, n)
         PROVE  TypeOK'
    <3>1. n \in Nat
      OBVIOUS
    <3>2. CASE ReadCall(p, n)
      BY <3>1, <3>2 DEF ReadCall, TypeOK, Reading
    <3>3. CASE WriteCall(p, n)
      BY <3>1, <3>3 DEF WriteCall, TypeOK, Writing
    <3> QED BY <2>18, <3>2, <3>3
  <2>19. ASSUME NEW p \in Procs, NEW e \in Ends, Close(p, e) PROVE TypeOK'
    BY <2>19 DEF Close, RefsAfter, TypeOK
  <2>20. ASSUME NEW p \in Procs, NEW q \in Procs, Clone(p, q) PROVE TypeOK'
    BY <2>20 DEF Clone, TypeOK
  <2> QED
    BY <1>n, NextActs, <2>1, <2>2, <2>3, <2>4, <2>5, <2>6, <2>7, <2>8, <2>9, <2>10,
       <2>11, <2>12, <2>13, <2>14, <2>15, <2>16, <2>17, <2>18, <2>19, <2>20, <2>21
       DEF Acts, Idles
<1> QED BY <1>u, <1>n

(* PipeTypes: positions stay in the buffer, and every program counter,      *)
(* count and list keeps its type, for any number of processes and harts and *)
(* any size of the buffer.                                                  *)
THEOREM PipeTypes == Spec => []TypeOK
BY TypeInit, TypeStep, PTL DEF Spec

-----------------------------------------------------------------------------
(* The mutex                                                                *)

LEMMA MutexStep == TypeOK /\ MutexInv /\ [Next]_vars => MutexInv'
<1> SUFFICES ASSUME TypeOK, MutexInv, [Next]_vars PROVE MutexInv'
  OBVIOUS
<1> USE DEF Goto
<1>u. CASE UNCHANGED vars
  BY <1>u DEF vars, MutexInv
<1>n. CASE Next
  (* Only WritePut gets a process into the section, and none is there then. *)
  <2>1. CASE \E p \in Procs : WritePut(p)
    BY <2>1 DEF WritePut, MutexFree, MutexInv, InMutex, TypeOK
  <2>2. ASSUME \A r \in Procs : pc'[r] \in InMutex => pc[r] \in InMutex PROVE MutexInv'
    BY <2>2 DEF MutexInv
  <2>3. ASSUME NEW p \in Procs, Acts(p), ~WritePut(p), NEW r \in Procs, pc'[r] \in InMutex
        PROVE  pc[r] \in InMutex
    <3>2. CASE ReadTest(p) \/ ReadBreak(p) \/ ReadTake(p) \/ WritePost(p) \/ WriteTurnDone(p)
      <4>1. CASE ReadTest(p)
        BY <2>3, <4>1 DEF ReadTest, Return, NextTurn, TypeOK, InMutex
      <4>2. CASE ReadBreak(p) \/ ReadTake(p)
        BY <2>3, <4>2 DEF ReadBreak, ReadTake, Return, NextTurn, TypeOK, InMutex
      <4>3. CASE WritePost(p) \/ WriteTurnDone(p)
        BY <2>3, <4>3 DEF WritePost, WriteTurnDone, TurnDone, NextTurn, TypeOK, InMutex
      <4> QED BY <3>2, <4>1, <4>2, <4>3
    <3>3. CASE ReadP(p) \/ ReadSleep(p) \/ ReadLink(p) \/ ReadResume(p) \/ ReadGoOn(p)
               \/ ExitDone(p) \/ Exit(p)
      BY <2>3, <3>3 DEF ReadP, ReadSleep, ReadLink, ReadResume, ReadGoOn, ExitDone, Exit,
         TypeOK, InMutex
    <3>4. CASE WritePostWake(p) \/ WriteWakeup(p) \/ WriteWakeupMiss(p)
      BY <2>3, <3>4 DEF WritePostWake, WriteWakeup, WriteWakeupMiss, TypeOK, InMutex
    <3>5. CASE KillTest(p)
      BY <2>3, <3>5 DEF KillTest, Return, NextTurn, TypeOK, InMutex
    <3>6. CASE KillLock(p) \/ KillRelinks(p) \/ KillsRunner(p)
      BY <2>3, <3>6 DEF KillLock, KillRelinks, KillsRunner, AfterCall, TypeOK, InMutex
    <3>7. CASE WithoutV(p)
      BY <2>3, <3>7 DEF WithoutV, AfterCall, TypeOK, InMutex
    <3> QED BY <2>3, <3>2, <3>3, <3>4, <3>5, <3>6, <3>7 DEF Acts
  <2>4. ASSUME NEW p \in Procs, NEW n \in 1 .. MaxCount, ReadCall(p, n) \/ WriteCall(p, n)
        PROVE  MutexInv'
    BY <2>4, <2>2 DEF ReadCall, WriteCall, TypeOK, InMutex
  <2>5. ASSUME NEW p \in Procs, NEW e \in Ends, Close(p, e) PROVE MutexInv'
    BY <2>5, <2>2 DEF Close
  <2>6. ASSUME NEW p \in Procs, NEW q \in Procs, Clone(p, q) PROVE MutexInv'
    BY <2>6, <2>2 DEF Clone, TypeOK, InMutex
  <2>7. ASSUME NEW p \in Procs, NEW q \in Procs, Sends(q, p) PROVE MutexInv'
    BY <2>7, <2>2 DEF Sends, Kill, Signal, CanSend, TypeOK, InMutex
  <2> QED BY <1>n, NextActs, <2>1, <2>2, <2>3, <2>4, <2>5, <2>6, <2>7
<1> QED BY <1>u, <1>n

-----------------------------------------------------------------------------
(* sleep_list and the program counters                                      *)

LEMMA SleepersStep == TypeOK /\ SleepersMatch /\ [Next]_vars => SleepersMatch'
<1> SUFFICES ASSUME TypeOK, SleepersMatch, [Next]_vars PROVE SleepersMatch'
  OBVIOUS
<1> USE DEF Goto, semVars
<1>u. CASE UNCHANGED vars
  BY <1>u DEF vars, SleepersMatch
<1>n. CASE Next
  <2>1. ASSUME sleepers' = sleepers,
               \A r \in Procs : pc'[r] = "asleep" <=> pc[r] = "asleep"
        PROVE  SleepersMatch'
    BY <2>1 DEF SleepersMatch
  <2>2. ASSUME NEW p \in Procs, NEW goOn, NEW label, NextTurn(p, goOn, label),
               pc[p] # "asleep", label # "asleep", sleepers' = sleepers
        PROVE  SleepersMatch'
    BY <2>1, <2>2 DEF NextTurn, TypeOK
  <2>3. ASSUME NEW p \in Procs, ReadLink(p) PROVE SleepersMatch'
    <3>1. sleepers \in Seq(Procs) /\ p \notin Range(sleepers) /\ sleepers' = Append(sleepers, p)
      BY <2>3 DEF ReadLink, SleepersMatch, TypeOK
    <3>2. Range(sleepers') = Range(sleepers) \cup {p} /\ IsInjective(sleepers')
      BY <3>1, AppendList DEF SleepersMatch
    <3>3. \A r \in Procs : pc'[r] = "asleep" <=> pc[r] = "asleep" \/ r = p
      BY <2>3 DEF ReadLink, TypeOK
    <3> QED BY <3>2, <3>3 DEF SleepersMatch
  <2>4. ASSUME NEW i \in 1 .. Len(sleepers), NEW p \in Procs, p = sleepers[i],
               sleepers' = RemoveAt(sleepers, i),
               \A r \in Procs : pc'[r] = "asleep" <=> pc[r] = "asleep" /\ r # p
        PROVE  SleepersMatch'
    <3>1. Range(sleepers') = Range(sleepers) \ {p} /\ IsInjective(sleepers')
      BY <2>4, RemoveAtList DEF TypeOK, SleepersMatch
    <3> QED BY <2>4, <3>1 DEF SleepersMatch
  <2>5. ASSUME NEW p \in Procs, WriteWakeup(p) PROVE SleepersMatch'
    <3>1. sleepers \in Seq(Procs) /\ 1 \in 1 .. Len(sleepers) /\ Head(sleepers) = sleepers[1]
      BY <2>5 DEF WriteWakeup, TypeOK
    <3>2. Tail(sleepers) = RemoveAt(sleepers, 1)
      <4>1. Len(RemoveAt(sleepers, 1)) = Len(Tail(sleepers))
        BY <3>1, RemoveAtElements
      <4>2. \A j \in 1 .. Len(sleepers) - 1 : RemoveAt(sleepers, 1)[j] = Tail(sleepers)[j]
        BY <3>1, RemoveAtElements
      <4>3. RemoveAt(sleepers, 1) \in Seq(Procs) /\ Tail(sleepers) \in Seq(Procs)
            /\ Len(Tail(sleepers)) = Len(sleepers) - 1
        BY <3>1, RemoveAtElements
      <4> QED BY <4>1, <4>2, <4>3
    <3>3. PICK q \in Procs : q = sleepers[1]
      BY <3>1
    <3>4. pc[p] = "w_wake" /\ pc' = [pc EXCEPT ![p] = "w_unlock", ![q] = "woken"]
      BY <2>5, <3>1, <3>3 DEF WriteWakeup
    <3>5. \A r \in Procs : pc'[r] = "asleep" <=> pc[r] = "asleep" /\ r # q
      BY <3>4 DEF TypeOK
    <3>6. sleepers' = RemoveAt(sleepers, 1)
      BY <2>5, <3>2 DEF WriteWakeup
    <3> QED BY <3>1, <3>3, <3>5, <3>6, <2>4
  <2>6. ASSUME NEW q \in Procs, WithoutV(q) PROVE SleepersMatch'
    <3>1. PICK p \in Procs : p = target[q]
      BY DEF TypeOK
    <3>2. PICK i \in 1 .. Len(sleepers) : sleepers[i] = p /\ sleepers' = RemoveAt(sleepers, i)
      BY <2>6, <3>1 DEF WithoutV, Unlink, TypeOK
    <3>3. \A r \in Procs : pc'[r] = "asleep" <=> pc[r] = "asleep" /\ r # p
      BY <2>6, <3>1 DEF WithoutV, AfterCall, TypeOK
    <3> QED BY <3>2, <3>3, <2>4
  <2>7. ASSUME NEW p \in Procs, Acts(p) PROVE SleepersMatch'
    <3>1. CASE ReadTest(p) \/ ReadBreak(p) \/ ReadTake(p) \/ WritePost(p) \/ WriteTurnDone(p)
      BY <2>1, <2>2, <3>1 DEF ReadTest, ReadBreak, ReadTake, WritePost, WriteTurnDone,
         Return, TurnDone, TypeOK
    <3>2. CASE ReadP(p) \/ ReadSleep(p) \/ ReadResume(p) \/ ReadGoOn(p) \/ ExitDone(p) \/ Exit(p)
      BY <2>1, <3>2 DEF ReadP, ReadSleep, ReadResume, ReadGoOn, ExitDone, Exit, TypeOK
    <3>3. CASE WritePut(p) \/ WritePostWake(p) \/ WriteWakeupMiss(p)
      BY <2>1, <3>3 DEF WritePut, WritePostWake, WriteWakeupMiss, TypeOK
    <3>4. CASE KillTest(p)
      BY <2>1, <2>2, <3>4 DEF KillTest, Return, TypeOK
    <3>5. CASE KillLock(p) \/ KillRelinks(p) \/ KillsRunner(p)
      BY <2>1, <3>5 DEF KillLock, KillRelinks, KillsRunner, AfterCall, TypeOK
    <3> QED BY <2>3, <2>5, <2>6, <2>7, <3>1, <3>2, <3>3, <3>4, <3>5 DEF Acts
  <2>8. ASSUME NEW p \in Procs, NEW n \in 1 .. MaxCount, ReadCall(p, n) \/ WriteCall(p, n)
        PROVE  SleepersMatch'
    BY <2>8, <2>1 DEF ReadCall, WriteCall, TypeOK
  <2>9. ASSUME NEW p \in Procs, NEW e \in Ends, Close(p, e) PROVE SleepersMatch'
    BY <2>9, <2>1 DEF Close
  <2>10. ASSUME NEW p \in Procs, NEW q \in Procs, Clone(p, q) PROVE SleepersMatch'
    BY <2>10, <2>1 DEF Clone, TypeOK
  <2>11. ASSUME NEW p \in Procs, NEW q \in Procs, Sends(q, p) PROVE SleepersMatch'
    BY <2>11, <2>1 DEF Sends, Kill, Signal, CanSend, TypeOK
  <2> QED BY <1>n, NextActs, <2>7, <2>8, <2>9, <2>10, <2>11
<1> QED BY <1>u, <1>n

-----------------------------------------------------------------------------
(* The reference counts                                                     *)

LEMMA HoldersFinite ==
    ASSUME NEW e \in Ends
    PROVE  IsFiniteSet(Holders(e)) /\ Cardinality(Holders(e)) \in Nat
<1>1. Holders(e) \subseteq Procs
  BY DEF Holders
<1> QED BY <1>1, FS_Subset, FS_CardinalityType

(* Which calls a process can be in depends on the ends it holds.            *)
CallsHold ==
    \A p \in Procs :
        /\ pc[p] \in Reading => "in" \in ends[p]
        /\ pc[p] \in Writing => "out" \in ends[p]

(* A step that changes no end changes no count.                             *)
LEMMA RefsQuiet ==
    ASSUME TypeOK, RefsCountEnds, NoneBefore,
           ends' = ends, r_ref' = r_ref, w_ref' = w_ref, freed' = freed,
           \A p \in Procs :
              /\ pc'[p] \in Reading => pc[p] \in Reading \/ "in" \in ends[p]
              /\ pc'[p] \in Writing => pc[p] \in Writing \/ "out" \in ends[p]
              /\ pc'[p] = "none" => pc[p] = "none"
    PROVE  RefsCountEnds' /\ NoneBefore'
<1>1. Holders("in")' = Holders("in") /\ Holders("out")' = Holders("out")
  BY DEF Holders
<1>2. CallsHold'
  BY DEF RefsCountEnds, CallsHold
<1>3. NoneBefore'
  BY DEF NoneBefore
<1> QED BY <1>1, <1>2, <1>3 DEF RefsCountEnds, CallsHold

LEMMA RefsClose ==
    ASSUME TypeOK, RefsCountEnds, NoneBefore, NEW p \in Procs, NEW e \in Ends, Close(p, e)
    PROVE  RefsCountEnds' /\ NoneBefore'
<1>1. /\ e \in ends[p] /\ ends' = [ends EXCEPT ![p] = ends[p] \ {e}] /\ RefsAfter(e)
      /\ freed' = (freed \/ (r_ref' = 0 /\ w_ref' = 0)) /\ pc' = pc
      /\ pc[p] \in {"exit", "user"}
  BY DEF Close
<1>2. Holders(e)' = Holders(e) \ {p} /\ p \in Holders(e)
  BY <1>1 DEF Holders, TypeOK
<1>3. \A d \in Ends \ {e} : Holders(d)' = Holders(d)
  BY <1>1 DEF Holders, TypeOK
<1>4. Cardinality(Holders(e)') = Cardinality(Holders(e)) - 1
  BY <1>2, HoldersFinite, FS_RemoveElement
<1>5. Cardinality(Holders(e)') \in Nat
  BY <1>2, HoldersFinite, FS_RemoveElement, FS_CardinalityType
<1>6. r_ref' = Cardinality(Holders("in"))' /\ w_ref' = Cardinality(Holders("out"))'
  <2>1. CASE e = "in"
    BY <1>1, <1>3, <1>4, <1>5, <2>1 DEF RefsAfter, RefsCountEnds, Ends, TypeOK
  <2>2. CASE e = "out"
    BY <1>1, <1>3, <1>4, <1>5, <2>2 DEF RefsAfter, RefsCountEnds, Ends, TypeOK
  <2> QED BY <2>1, <2>2 DEF Ends
<1>7. freed' <=> r_ref' = 0 /\ w_ref' = 0
  <2>1. freed => r_ref' = 0 /\ w_ref' = 0
    BY <1>1 DEF RefsAfter, RefsCountEnds, TypeOK
  <2> QED BY <1>1, <2>1 DEF TypeOK
<1>8. CallsHold'
  BY <1>1 DEF RefsCountEnds, CallsHold, TypeOK, Reading, Writing
<1>9. NoneBefore'
  BY <1>1 DEF NoneBefore, TypeOK
<1> QED BY <1>6, <1>7, <1>8, <1>9 DEF RefsCountEnds, CallsHold

LEMMA RefsClone ==
    ASSUME TypeOK, RefsCountEnds, NoneBefore, NEW p \in Procs, NEW q \in Procs, Clone(p, q)
    PROVE  RefsCountEnds' /\ NoneBefore'
<1>1. /\ pc[p] = "user" /\ pc[q] = "none" /\ ends' = [ends EXCEPT ![q] = ends[p]]
      /\ r_ref' = (IF "in" \in ends[p] THEN r_ref + 1 ELSE r_ref)
      /\ w_ref' = (IF "out" \in ends[p] THEN w_ref + 1 ELSE w_ref)
      /\ freed' = freed /\ pc' = [pc EXCEPT ![q] = "user"]
  BY DEF Clone, Goto
<1>2. ends[q] = {}
  BY <1>1 DEF NoneBefore
<1>3. ASSUME NEW e \in Ends
      PROVE  Cardinality(Holders(e))' = Cardinality(Holders(e)) + (IF e \in ends[p] THEN 1 ELSE 0)
  <2>1. CASE e \in ends[p]
    <3>1. Holders(e)' = Holders(e) \cup {q} /\ q \notin Holders(e)
      BY <1>1, <1>2, <2>1 DEF Holders, TypeOK
    <3> QED BY <3>1, <2>1, HoldersFinite, FS_AddElement
  <2>2. CASE e \notin ends[p]
    <3>1. Holders(e)' = Holders(e)
      BY <1>1, <1>2, <2>2 DEF Holders, TypeOK
    <3> QED BY <3>1, <2>2, HoldersFinite
  <2> QED BY <2>1, <2>2
<1>4. r_ref' = Cardinality(Holders("in"))' /\ w_ref' = Cardinality(Holders("out"))'
  BY <1>1, <1>3 DEF RefsCountEnds, Ends, TypeOK
<1>5. freed' <=> r_ref' = 0 /\ w_ref' = 0
  <2>1. "in" \in ends[p] => r_ref # 0
    <3>1. "in" \in ends[p] => Holders("in") # {}
      BY DEF Holders
    <3> QED BY <3>1, HoldersFinite, FS_EmptySet DEF RefsCountEnds, Ends
  <2>2. "out" \in ends[p] => w_ref # 0
    <3>1. "out" \in ends[p] => Holders("out") # {}
      BY DEF Holders
    <3> QED BY <3>1, HoldersFinite, FS_EmptySet DEF RefsCountEnds, Ends
  <2> QED BY <1>1, <2>1, <2>2 DEF RefsCountEnds, TypeOK
<1>6. CallsHold'
  BY <1>1 DEF RefsCountEnds, CallsHold, TypeOK, Reading, Writing
<1>7. NoneBefore'
  BY <1>1 DEF NoneBefore, TypeOK
<1> QED BY <1>4, <1>5, <1>6, <1>7 DEF RefsCountEnds, CallsHold

LEMMA RefsStep ==
    TypeOK /\ SleepersMatch /\ RefsCountEnds /\ NoneBefore /\ [Next]_vars
        => RefsCountEnds' /\ NoneBefore'
<1> SUFFICES ASSUME TypeOK, SleepersMatch, RefsCountEnds, NoneBefore, [Next]_vars
             PROVE  RefsCountEnds' /\ NoneBefore'
  OBVIOUS
<1> USE DEF Goto, refVars
<1>u. CASE UNCHANGED vars
  BY <1>u, RefsQuiet DEF vars
<1>n. CASE Next
  <2>1. ASSUME NEW p \in Procs, Acts(p) PROVE RefsCountEnds' /\ NoneBefore'
    <3>1. UNCHANGED refVars
      BY <2>1 DEF Acts, ReadTest, ReadP, ReadSleep, ReadLink, ReadResume, ReadBreak, ReadGoOn,
         ReadTake, WritePut, WritePost, WritePostWake, WriteWakeup, WriteWakeupMiss,
         WriteTurnDone, ExitDone, Exit, KillTest, KillLock, WithoutV, KillRelinks, KillsRunner
    <3> DEFINE Keeps(r) ==
                  /\ pc'[r] \in Reading => pc[r] \in Reading \/ "in" \in ends[r]
                  /\ pc'[r] \in Writing => pc[r] \in Writing \/ "out" \in ends[r]
                  /\ pc'[r] = "none" => pc[r] = "none"
    <3>2. CASE ReadTest(p)
      <4>1. \A r \in Procs : Keeps(r)
        BY <3>2 DEF ReadTest, Return, NextTurn, TypeOK, Reading, Writing
      <4> QED BY <3>1, <4>1, RefsQuiet
    <3>3. CASE ReadP(p) \/ ReadSleep(p) \/ ReadLink(p) \/ ReadResume(p) \/ ReadGoOn(p)
      <4>1. \A r \in Procs : Keeps(r)
        BY <3>3 DEF ReadP, ReadSleep, ReadLink, ReadResume, ReadGoOn, TypeOK, Reading, Writing
      <4> QED BY <3>1, <4>1, RefsQuiet
    <3>4. CASE ReadBreak(p) \/ ReadTake(p)
      <4>1. \A r \in Procs : Keeps(r)
        BY <3>4 DEF ReadBreak, ReadTake, Return, NextTurn, TypeOK, Reading, Writing
      <4> QED BY <3>1, <4>1, RefsQuiet
    <3>5. CASE WritePut(p) \/ WritePostWake(p) \/ WriteWakeupMiss(p) \/ ExitDone(p) \/ Exit(p)
      <4>1. \A r \in Procs : Keeps(r)
        BY <3>5 DEF WritePut, WritePostWake, WriteWakeupMiss, ExitDone, Exit, TypeOK, Reading, Writing
      <4> QED BY <3>1, <4>1, RefsQuiet
    <3>6. CASE WritePost(p) \/ WriteTurnDone(p)
      <4>1. \A r \in Procs : Keeps(r)
        BY <3>6 DEF WritePost, WriteTurnDone, TurnDone, NextTurn, TypeOK, Reading, Writing
      <4> QED BY <3>1, <4>1, RefsQuiet
    <3>7. CASE WriteWakeup(p)
      <4>1. Head(sleepers) \in Procs /\ Head(sleepers) \in Range(sleepers)
        BY <3>7 DEF WriteWakeup, TypeOK, Range
      <4>2. pc[Head(sleepers)] = "asleep"
        BY <4>1 DEF SleepersMatch
      <4>3. \A r \in Procs : Keeps(r)
        BY <3>7, <4>1, <4>2 DEF WriteWakeup, TypeOK, Reading, Writing
      <4> QED BY <3>1, <4>3, RefsQuiet
    <3>8. CASE KillTest(p)
      <4>1. \A r \in Procs : Keeps(r)
        BY <3>8 DEF KillTest, Return, NextTurn, TypeOK, Reading, Writing
      <4> QED BY <3>1, <4>1, RefsQuiet
    <3>9. CASE KillLock(p) \/ KillRelinks(p) \/ KillsRunner(p)
      <4>1. \A r \in Procs : Keeps(r)
        BY <3>9 DEF KillLock, KillRelinks, KillsRunner, AfterCall, TypeOK, Reading, Writing
      <4> QED BY <3>1, <4>1, RefsQuiet
    <3>10. CASE WithoutV(p)
      <4>1. \A r \in Procs : Keeps(r)
        BY <3>10 DEF WithoutV, AfterCall, TypeOK, Reading, Writing
      <4> QED BY <3>1, <4>1, RefsQuiet
    <3> QED BY <2>1, <3>2, <3>3, <3>4, <3>5, <3>6, <3>7, <3>8, <3>9, <3>10 DEF Acts
  <2>2. ASSUME NEW p \in Procs, NEW n \in 1 .. MaxCount, ReadCall(p, n) \/ WriteCall(p, n)
        PROVE  RefsCountEnds' /\ NoneBefore'
    <3>1. UNCHANGED refVars
      BY <2>2 DEF ReadCall, WriteCall
    <3>2. ASSUME NEW r \in Procs
          PROVE  /\ pc'[r] \in Reading => pc[r] \in Reading \/ "in" \in ends[r]
                 /\ pc'[r] \in Writing => pc[r] \in Writing \/ "out" \in ends[r]
                 /\ pc'[r] = "none" => pc[r] = "none"
      BY <2>2 DEF ReadCall, WriteCall, TypeOK, Reading, Writing
    <3> QED BY <3>1, <3>2, RefsQuiet
  <2>3. ASSUME NEW p \in Procs, NEW q \in Procs, Sends(q, p) PROVE RefsCountEnds' /\ NoneBefore'
    <3>1. UNCHANGED refVars
      BY <2>3 DEF Sends, Kill, Signal
    <3>2. ASSUME NEW r \in Procs
          PROVE  /\ pc'[r] \in Reading => pc[r] \in Reading \/ "in" \in ends[r]
                 /\ pc'[r] \in Writing => pc[r] \in Writing \/ "out" \in ends[r]
                 /\ pc'[r] = "none" => pc[r] = "none"
      BY <2>3 DEF Sends, Kill, Signal, CanSend, TypeOK, Reading, Writing
    <3> QED BY <3>1, <3>2, RefsQuiet
  <2> QED BY <1>n, NextActs, <2>1, <2>2, <2>3, RefsClose, RefsClone
<1> QED BY <1>u, <1>n

-----------------------------------------------------------------------------
(* Credits: counting the processes at a stage                               *)

Stages == {"blocked", "doomed", "granted", "posting", "waking", "other"}

LEMMA StageType == Stage \in [Procs -> Stages]
BY DEF Stage, Stages

LEMMA CountFinite ==
    ASSUME NEW f, NEW x
    PROVE  IsFiniteSet({p \in Procs : f[p] = x}) /\ Count(f, x) \in Nat
<1>1. {p \in Procs : f[p] = x} \subseteq Procs
  OBVIOUS
<1> QED BY <1>1, FS_Subset, FS_CardinalityType DEF Count

LEMMA CountSame ==
    ASSUME NEW f, NEW g, \A q \in Procs : g[q] = f[q], NEW x
    PROVE  Count(g, x) = Count(f, x)
<1>1. {p \in Procs : g[p] = x} = {p \in Procs : f[p] = x}
  OBVIOUS
<1> QED BY <1>1 DEF Count

One(y, x) == IF y = x THEN 1 ELSE 0

LEMMA CountMove ==
    ASSUME NEW f \in [Procs -> Stages], NEW g \in [Procs -> Stages], NEW p \in Procs,
           \A q \in Procs \ {p} : g[q] = f[q],
           NEW x
    PROVE  Count(g, x) = Count(f, x) - One(f[p], x) + One(g[p], x)
<1> DEFINE S == {q \in Procs : f[q] = x}
           T == {q \in Procs : g[q] = x}
<1>1. IsFiniteSet(S) /\ IsFiniteSet(T) /\ Cardinality(S) \in Nat
  BY CountFinite DEF Count
<1>2. CASE f[p] = x /\ g[p] # x
  <2>1. T = S \ {p} /\ p \in S
    BY <1>2
  <2>2. Cardinality(T) = Cardinality(S) - 1
    BY <2>1, <1>1, FS_RemoveElement, ZenonT(60)
  <2> QED BY <1>1, <1>2, <2>2 DEF Count, One
<1>3. CASE f[p] # x /\ g[p] = x
  <2>1. T = S \cup {p} /\ p \notin S
    BY <1>3
  <2>2. Cardinality(T) = Cardinality(S) + 1
    BY <2>1, <1>1, FS_AddElement
  <2> QED BY <1>1, <1>3, <2>2 DEF Count, One
<1>4. CASE (f[p] = x) <=> (g[p] = x)
  <2>1. Count(g, x) = Count(f, x) /\ Count(f, x) \in Nat
    BY <1>1, <1>4 DEF Count, One
  <2> QED BY <1>4, <2>1 DEF One
<1> QED BY <1>2, <1>3, <1>4

LEMMA NNat == \A x \in Stages : N(x) \in Nat
BY CountFinite DEF N

LEMMA NTypes ==
    /\ N("blocked") \in Nat /\ N("doomed") \in Nat /\ N("granted") \in Nat
    /\ N("posting") \in Nat /\ N("waking") \in Nat
BY NNat DEF Stages

LEMMA StageStays ==
    ASSUME \A q \in Procs : Stage'[q] = Stage[q]
    PROVE  \A x \in Stages : N(x)' = N(x)
<1>0. Stage' \in [Procs -> Stages]
  BY DEF Stage, Stages
<1>1. PICK f, g \in [Procs -> Stages] : f = Stage /\ g = Stage'
  BY <1>0, StageType
<1>2. ASSUME NEW x \in Stages PROVE N(x) = Count(f, x) /\ N(x)' = Count(g, x)
  BY <1>1 DEF N, Count
<1>3. \A q \in Procs : g[q] = f[q]
  BY <1>1
<1> QED BY <1>2, <1>3, CountSame

(* One process moves on.                                                    *)
LEMMA StageMove ==
    ASSUME NEW p \in Procs, \A q \in Procs : q # p => Stage'[q] = Stage[q]
    PROVE  \A x \in Stages : N(x)' = N(x) - One(Stage[p], x) + One(Stage'[p], x)
<1>0. Stage' \in [Procs -> Stages]
  BY DEF Stage, Stages
<1>1. PICK f, g \in [Procs -> Stages] : f = Stage /\ g = Stage'
  BY <1>0, StageType
<1>2. ASSUME NEW x \in Stages PROVE N(x) = Count(f, x) /\ N(x)' = Count(g, x)
  BY <1>1 DEF N, Count
<1>3. ASSUME NEW x \in Stages
      PROVE  Count(g, x) = Count(f, x) - One(f[p], x) + One(g[p], x)
  <2>1. \A q \in Procs \ {p} : g[q] = f[q]
    BY <1>1
  <2> QED BY <2>1, CountMove
<1> QED BY <1>1, <1>2, <1>3

LEMMA StageMoves ==
    ASSUME NEW p \in Procs, NEW a \in Stages, NEW b \in Stages, a # b,
           Stage[p] = a, Stage'[p] = b,
           \A q \in Procs : q # p => Stage'[q] = Stage[q]
    PROVE  /\ N(a)' = N(a) - 1
           /\ N(b)' = N(b) + 1
           /\ \A x \in Stages \ {a, b} : N(x)' = N(x)
<1>1. \A x \in Stages : N(x)' = N(x) - One(a, x) + One(b, x)
  BY StageMove
<1> QED BY <1>1, NNat DEF One

(* The waker and the woken move on in one step.                             *)
LEMMA StageMovesTwo ==
    ASSUME NEW p \in Procs, NEW q \in Procs, p # q,
           NEW b \in {"granted", "doomed"},
           Stage[p] = "waking", Stage'[p] = "other",
           Stage[q] = "blocked", Stage'[q] = b,
           \A r \in Procs \ {p, q} : Stage'[r] = Stage[r]
    PROVE  /\ N("waking")' = N("waking") - 1
           /\ N("blocked")' = N("blocked") - 1
           /\ N(b)' = N(b) + 1
           /\ \A x \in {"doomed", "granted", "posting"} \ {b} : N(x)' = N(x)
<1>0. Stage' \in [Procs -> Stages]
  BY DEF Stage, Stages
<1>1. PICK f, g \in [Procs -> Stages] : f = Stage /\ g = Stage'
  BY <1>0, StageType
<1> DEFINE m == [r \in Procs |-> IF r = p THEN "other" ELSE f[r]]
<1>m. m \in [Procs -> Stages]
  BY DEF Stages
<1>2. ASSUME NEW x \in Stages PROVE N(x) = Count(f, x) /\ N(x)' = Count(g, x)
  BY <1>1 DEF N, Count
<1>3. ASSUME NEW x \in Stages
      PROVE  Count(m, x) = Count(f, x) - (IF "waking" = x THEN 1 ELSE 0) + (IF "other" = x THEN 1 ELSE 0)
  <2>1. \A r \in Procs \ {p} : m[r] = f[r]
    OBVIOUS
  <2>2. f[p] = "waking" /\ m[p] = "other"
    BY <1>1
  <2> HIDE DEF m
  <2>3. Count(m, x) = Count(f, x) - One(f[p], x) + One(m[p], x)
    BY <2>1, <1>m, CountMove
  <2> QED BY <2>2, <2>3 DEF One
<1>4. ASSUME NEW x \in Stages
      PROVE  Count(g, x) = Count(m, x) - (IF "blocked" = x THEN 1 ELSE 0) + (IF b = x THEN 1 ELSE 0)
  <2>1. \A r \in Procs \ {q} : g[r] = m[r]
    BY <1>1
  <2>2. m[q] = "blocked" /\ g[q] = b
    BY <1>1
  <2> HIDE DEF m
  <2>3. Count(g, x) = Count(m, x) - One(m[q], x) + One(g[q], x)
    BY <2>1, <1>m, CountMove
  <2> QED BY <2>2, <2>3 DEF One
<1>5. \A x \in Stages : Count(f, x) \in Nat /\ Count(m, x) \in Nat
  BY CountFinite
<1> HIDE DEF m
<1> QED BY <1>2, <1>3, <1>4, <1>5 DEF Stages

(* A step that keeps every process at its stage.                            *)
LEMMA CreditQuiet ==
    ASSUME Balance, \A q \in Procs : Stage'[q] = Stage[q],
           UNCHANGED <<value, sent, received, lost>>
    PROVE  Balance'
<1>1. \A x \in Stages : N(x)' = N(x)
  BY StageStays
<1> QED BY <1>1 DEF Balance, Unread, Stages

LEMMA CreditStep ==
    TypeOK /\ SleepersMatch /\ CreditInv /\ [Next]_vars => CreditInv'
<1> SUFFICES ASSUME TypeOK, SleepersMatch, CreditInv, [Next]_vars PROVE CreditInv'
  OBVIOUS
<1> USE DEF Goto, semVars, sigVars, history
<1>i. CASE ~intact'
  BY <1>i DEF CreditInv
<1>u. CASE UNCHANGED vars
  <2>1. \A q \in Procs : Stage'[q] = Stage[q]
    BY <1>u DEF vars, Stage
  <2> QED BY <1>u, <2>1, CreditQuiet DEF vars, CreditInv
<1>n. CASE Next /\ intact'
  <2>0. intact /\ Balance
    <3>1. intact
      <4>1. CASE \E p \in Procs : Acts(p)
        BY <1>n, <4>1 DEF Acts, ReadTest, ReadP, ReadSleep, ReadLink, ReadResume, ReadBreak,
           ReadGoOn, ReadTake, WritePut, WritePost, WritePostWake, WriteWakeup, WriteWakeupMiss,
           WriteTurnDone, ExitDone, Exit, KillTest, KillLock, WithoutV, KillRelinks, KillsRunner
      <4> QED BY <1>n, <4>1, NextActs DEF Sends, Kill, Signal, ReadCall, WriteCall, Close, Clone
    <3> QED BY <3>1 DEF CreditInv
  <2> USE NTypes
  <2>1. ASSUME NEW p \in Procs, ReadTest(p) PROVE Balance'
    <3>1. CASE NothingLeft
      <4>1. \A q \in Procs : Stage'[q] = Stage[q]
        BY <2>1, <3>1 DEF ReadTest, Return, NextTurn, Stage, TypeOK
      <4> QED BY <2>1, <4>1, <2>0, CreditQuiet DEF ReadTest
    <3>2. CASE ~NothingLeft
      <4>1. \A q \in Procs : Stage'[q] = Stage[q]
        BY <2>1, <3>2 DEF ReadTest, Stage, TypeOK
      <4> QED BY <2>1, <4>1, <2>0, CreditQuiet DEF ReadTest
    <3> QED BY <3>1, <3>2
  <2>2. ASSUME NEW p \in Procs, ReadP(p) PROVE Balance'
    <3>0. /\ value' = value - 1 /\ UNCHANGED <<sent, received, lost>>
          /\ Stage[p] = "other" /\ \A q \in Procs : q # p => Stage'[q] = Stage[q]
      BY <2>2 DEF ReadP, Stage, TypeOK
    <3>1. CASE value > 0 /\ killed[p]
      <4>1. Stage'[p] = "doomed"
        BY <2>2, <3>1 DEF ReadP, Stage, TypeOK
      <4>2. /\ N("doomed")' = N("doomed") + 1
            /\ N("blocked")' = N("blocked") /\ N("granted")' = N("granted")
            /\ N("posting")' = N("posting") /\ N("waking")' = N("waking")
        BY <3>0, <4>1, StageMoves DEF Stages
      <4>b. /\ Unread \in Int /\ value \in Int /\ lost \in Nat
            /\ Unread' = Unread /\ value' = value - 1 /\ lost' = lost
        BY <3>0, <3>1 DEF Unread, TypeOK
      <4> QED BY <2>0, <4>b, <3>1, <4>2 DEF Balance
    <3>2. CASE value > 0 /\ ~killed[p]
      <4>1. Stage'[p] = "granted"
        BY <2>2, <3>2 DEF ReadP, Stage, TypeOK
      <4>2. /\ N("granted")' = N("granted") + 1
            /\ N("blocked")' = N("blocked") /\ N("doomed")' = N("doomed")
            /\ N("posting")' = N("posting") /\ N("waking")' = N("waking")
        BY <3>0, <4>1, StageMoves DEF Stages
      <4>b. /\ Unread \in Int /\ value \in Int /\ lost \in Nat
            /\ Unread' = Unread /\ value' = value - 1 /\ lost' = lost
        BY <3>0, <3>2 DEF Unread, TypeOK
      <4> QED BY <2>0, <4>b, <3>2, <4>2 DEF Balance
    <3>3. CASE ~(value > 0)
      <4>1. Stage'[p] = "blocked"
        BY <2>2, <3>3 DEF ReadP, Stage, TypeOK
      <4>2. /\ N("blocked")' = N("blocked") + 1
            /\ N("doomed")' = N("doomed") /\ N("granted")' = N("granted")
            /\ N("posting")' = N("posting") /\ N("waking")' = N("waking")
        BY <3>0, <4>1, StageMoves DEF Stages
      <4>b. /\ Unread \in Int /\ value \in Int /\ lost \in Nat
            /\ Unread' = Unread /\ value' = value - 1 /\ lost' = lost
        BY <3>0 DEF Unread, TypeOK
      <4> QED BY <2>0, <4>b, <4>2 DEF Balance
    <3> QED BY <3>1, <3>2, <3>3
  <2>3. ASSUME NEW p \in Procs, ReadSleep(p) \/ ReadLink(p) \/ ReadResume(p) \/ ReadGoOn(p)
        PROVE  Balance'
    <3>1. \A q \in Procs : Stage'[q] = Stage[q]
      BY <2>3 DEF ReadSleep, ReadLink, ReadResume, ReadGoOn, Stage, TypeOK
    <3> QED BY <2>3, <3>1, <2>0, CreditQuiet DEF ReadSleep, ReadLink, ReadResume, ReadGoOn
  <2>4. ASSUME NEW p \in Procs, ReadBreak(p) PROVE Balance'
    <3>1. /\ lost' = lost + 1 /\ UNCHANGED <<value, sent, received>>
          /\ Stage[p] = "doomed" /\ Stage'[p] = "other"
          /\ \A q \in Procs : q # p => Stage'[q] = Stage[q]
      BY <2>4 DEF ReadBreak, Return, NextTurn, Stage, TypeOK
    <3>2. /\ N("doomed")' = N("doomed") - 1
          /\ N("blocked")' = N("blocked") /\ N("granted")' = N("granted")
          /\ N("posting")' = N("posting") /\ N("waking")' = N("waking")
      BY <3>1, StageMoves DEF Stages
    <3>b. /\ Unread \in Int /\ value \in Int /\ lost \in Nat
          /\ Unread' = Unread /\ value' = value /\ lost' = lost + 1
      BY <3>1 DEF Unread, TypeOK
    <3> QED BY <2>0, <3>b, <3>2 DEF Balance
  <2>5. ASSUME NEW p \in Procs, ReadTake(p) PROVE Balance'
    <3>1. /\ Len(received') = Len(received) + 1 /\ UNCHANGED <<value, sent, lost>>
      BY <2>0, <2>5 DEF ReadTake, TypeOK
    <3>2. /\ Stage[p] = "granted" /\ Stage'[p] = "other"
          /\ \A q \in Procs : q # p => Stage'[q] = Stage[q]
      BY <2>5 DEF ReadTake, NextTurn, Stage, TypeOK
    <3>3. /\ N("granted")' = N("granted") - 1
          /\ N("blocked")' = N("blocked") /\ N("doomed")' = N("doomed")
          /\ N("posting")' = N("posting") /\ N("waking")' = N("waking")
      BY <3>2, StageMoves DEF Stages
    <3>b. /\ Unread \in Int /\ value \in Int /\ lost \in Nat
          /\ Unread' = Unread - 1 /\ value' = value /\ lost' = lost
      BY <3>1 DEF Unread, TypeOK
    <3> QED BY <2>0, <3>b, <3>3 DEF Balance
  <2>6. ASSUME NEW p \in Procs, WritePut(p) PROVE Balance'
    <3>1. /\ sent' = sent + 1 /\ UNCHANGED <<value, received, lost>>
          /\ Stage[p] = "other" /\ Stage'[p] = "posting"
          /\ \A q \in Procs : q # p => Stage'[q] = Stage[q]
      BY <2>6 DEF WritePut, Stage, TypeOK
    <3>2. /\ N("posting")' = N("posting") + 1
          /\ N("blocked")' = N("blocked") /\ N("doomed")' = N("doomed")
          /\ N("granted")' = N("granted") /\ N("waking")' = N("waking")
      BY <3>1, StageMoves DEF Stages
    <3>b. /\ Unread \in Int /\ value \in Int /\ lost \in Nat
          /\ Unread' = Unread + 1 /\ value' = value /\ lost' = lost
      BY <3>1 DEF Unread, TypeOK
    <3> QED BY <2>0, <3>b, <3>2 DEF Balance
  <2>7. ASSUME NEW p \in Procs, WritePost(p) PROVE Balance'
    <3>1. /\ value' = value + 1 /\ UNCHANGED <<sent, received, lost>>
          /\ Stage[p] = "posting" /\ Stage'[p] = "other"
          /\ \A q \in Procs : q # p => Stage'[q] = Stage[q]
      BY <2>7 DEF WritePost, TurnDone, NextTurn, Stage, TypeOK
    <3>2. /\ N("posting")' = N("posting") - 1
          /\ N("blocked")' = N("blocked") /\ N("doomed")' = N("doomed")
          /\ N("granted")' = N("granted") /\ N("waking")' = N("waking")
      BY <3>1, StageMoves DEF Stages
    <3>b. /\ Unread \in Int /\ value \in Int /\ lost \in Nat
          /\ Unread' = Unread /\ value' = value + 1 /\ lost' = lost
      BY <3>1 DEF Unread, TypeOK
    <3> QED BY <2>0, <3>b, <3>2 DEF Balance
  <2>8. ASSUME NEW p \in Procs, WritePostWake(p) PROVE Balance'
    <3>1. /\ value < 0 /\ value' = value + 1 /\ UNCHANGED <<sent, received, lost>>
          /\ Stage[p] = "posting" /\ Stage'[p] = "waking"
          /\ \A q \in Procs : q # p => Stage'[q] = Stage[q]
      BY <2>8 DEF WritePostWake, Stage, TypeOK
    <3>2. /\ N("posting")' = N("posting") - 1 /\ N("waking")' = N("waking") + 1
          /\ N("blocked")' = N("blocked") /\ N("doomed")' = N("doomed")
          /\ N("granted")' = N("granted")
      BY <3>1, StageMoves DEF Stages
    <3>b. /\ Unread \in Int /\ value \in Int /\ lost \in Nat
          /\ Unread' = Unread /\ value' = value + 1 /\ lost' = lost
      BY <3>1 DEF Unread, TypeOK
    <3>v. value < 0
      BY <3>1
    <3> QED BY <2>0, <3>b, <3>v, <3>2 DEF Balance
  <2>9. ASSUME NEW p \in Procs, WriteWakeup(p) PROVE Balance'
    <3>1. Head(sleepers) \in Procs /\ Head(sleepers) \in Range(sleepers)
      BY <2>9 DEF WriteWakeup, TypeOK, Range
    <3>2. PICK q \in Procs : q = Head(sleepers)
      BY <3>1
    <3>3. pc[q] = "asleep" /\ pc[p] = "w_wake" /\ p # q
      BY <2>9, <3>1, <3>2 DEF SleepersMatch, WriteWakeup
    <3>4. /\ pc' = [pc EXCEPT ![p] = "w_unlock", ![q] = "woken"]
          /\ UNCHANGED <<value, sent, received, lost, killed>>
      BY <2>9, <3>2 DEF WriteWakeup
    <3>5. /\ Stage[p] = "waking" /\ Stage'[p] = "other" /\ Stage[q] = "blocked"
          /\ \A r \in Procs \ {p, q} : Stage'[r] = Stage[r]
      BY <3>3, <3>4 DEF Stage, TypeOK
    <3>6. CASE killed[q]
      <4>1. Stage'[q] = "doomed"
        BY <3>3, <3>4, <3>6 DEF Stage, TypeOK
      <4>2. /\ N("waking")' = N("waking") - 1 /\ N("blocked")' = N("blocked") - 1
            /\ N("doomed")' = N("doomed") + 1 /\ N("granted")' = N("granted")
            /\ N("posting")' = N("posting")
        BY <3>3, <3>5, <4>1, StageMovesTwo
      <4>b. /\ Unread \in Int /\ value \in Int /\ lost \in Nat
            /\ Unread' = Unread /\ value' = value /\ lost' = lost
        BY <3>4 DEF Unread, TypeOK
      <4> QED BY <2>0, <4>b, <4>2 DEF Balance
    <3>7. CASE ~killed[q]
      <4>1. Stage'[q] = "granted"
        BY <3>3, <3>4, <3>7 DEF Stage, TypeOK
      <4>2. /\ N("waking")' = N("waking") - 1 /\ N("blocked")' = N("blocked") - 1
            /\ N("granted")' = N("granted") + 1 /\ N("doomed")' = N("doomed")
            /\ N("posting")' = N("posting")
        BY <3>3, <3>5, <4>1, StageMovesTwo
      <4>b. /\ Unread \in Int /\ value \in Int /\ lost \in Nat
            /\ Unread' = Unread /\ value' = value /\ lost' = lost
        BY <3>4 DEF Unread, TypeOK
      <4> QED BY <2>0, <4>b, <4>2 DEF Balance
    <3> QED BY <3>6, <3>7
  <2>10. ASSUME NEW p \in Procs, WriteWakeupMiss(p) PROVE Balance'
    <3>1. /\ UNCHANGED <<value, sent, received, lost>>
          /\ Stage[p] = "waking" /\ Stage'[p] = "other"
          /\ \A q \in Procs : q # p => Stage'[q] = Stage[q]
      BY <2>10 DEF WriteWakeupMiss, Stage, TypeOK
    <3>2. /\ N("waking")' = N("waking") - 1
          /\ N("blocked")' = N("blocked") /\ N("doomed")' = N("doomed")
          /\ N("granted")' = N("granted") /\ N("posting")' = N("posting")
      BY <3>1, StageMoves DEF Stages
    <3>b. /\ Unread \in Int /\ value \in Int /\ lost \in Nat
          /\ Unread' = Unread /\ value' = value /\ lost' = lost
      BY <3>1 DEF Unread, TypeOK
    <3> QED BY <2>0, <3>b, <3>2 DEF Balance
  <2>11. ASSUME NEW p \in Procs, WriteTurnDone(p) PROVE Balance'
    <3>1. \A q \in Procs : Stage'[q] = Stage[q]
      BY <2>11 DEF WriteTurnDone, TurnDone, NextTurn, Stage, TypeOK
    <3> QED BY <2>11, <3>1, <2>0, CreditQuiet DEF WriteTurnDone
  <2>12. ASSUME NEW p \in Procs, ExitDone(p) \/ Exit(p) PROVE Balance'
    <3>1. \A q \in Procs : Stage'[q] = Stage[q]
      BY <2>12 DEF ExitDone, Exit, Stage, TypeOK
    <3> QED BY <2>12, <3>1, <2>0, CreditQuiet DEF ExitDone, Exit
  <2>13. ASSUME NEW p \in Procs, NEW q \in Procs, Sends(q, p) PROVE Balance'
    <3>0. /\ UNCHANGED <<value, sent, received, lost>>
          /\ pc' = [pc EXCEPT ![q] = "k_test"] /\ pc[q] = "user"
          /\ killed' = killed \/ killed' = [killed EXCEPT ![p] = TRUE]
      BY <2>13 DEF Sends, Kill, Signal, CanSend
    <3>1. \A r \in Procs : r # p => Stage'[r] = Stage[r]
      BY <3>0 DEF Stage, TypeOK
    <3>2. CASE pc[p] \in {"woken", "r_got"} /\ killed'[p] /\ ~killed[p]
      <4>1. Stage[p] = "granted" /\ Stage'[p] = "doomed"
        BY <3>0, <3>2 DEF Stage, TypeOK
      <4>2. /\ N("granted")' = N("granted") - 1 /\ N("doomed")' = N("doomed") + 1
            /\ N("blocked")' = N("blocked") /\ N("posting")' = N("posting")
            /\ N("waking")' = N("waking")
        BY <3>1, <4>1, StageMoves DEF Stages
      <4>b. /\ Unread \in Int /\ value \in Int /\ lost \in Nat
            /\ Unread' = Unread /\ value' = value /\ lost' = lost
        BY <3>0 DEF Unread, TypeOK
      <4> QED BY <2>0, <4>b, <4>2 DEF Balance
    <3>3. CASE ~(pc[p] \in {"woken", "r_got"} /\ killed'[p] /\ ~killed[p])
      <4>1. Stage'[p] = Stage[p]
        BY <3>0, <3>3 DEF Stage, TypeOK
      <4> QED BY <3>0, <3>1, <4>1, <2>0, CreditQuiet
    <3> QED BY <3>2, <3>3
  <2>14. ASSUME NEW q \in Procs, WithoutV(q) PROVE Balance'
    <3>1. PICK p \in Procs : p = target[q]
      BY DEF TypeOK
    <3>2. /\ UNCHANGED <<value, sent, received, lost, killed>>
          /\ killed[p] /\ pc[p] = "asleep" /\ pc[q] = "k_move"
          /\ pc' = [pc EXCEPT ![p] = "woken", ![q] = AfterCall(q)]
      BY <1>n, <2>14, <3>1 DEF WithoutV
    <3>3. \A r \in Procs : r # p => Stage'[r] = Stage[r]
      BY <3>2 DEF AfterCall, Stage, TypeOK
    <3>4. Stage[p] = "blocked" /\ Stage'[p] = "doomed"
      BY <3>2 DEF Stage, TypeOK
    <3>5. /\ N("blocked")' = N("blocked") - 1 /\ N("doomed")' = N("doomed") + 1
          /\ N("granted")' = N("granted") /\ N("posting")' = N("posting")
          /\ N("waking")' = N("waking")
      BY <3>3, <3>4, StageMoves DEF Stages
    <3>b. /\ Unread \in Int /\ value \in Int /\ lost \in Nat
          /\ Unread' = Unread /\ value' = value /\ lost' = lost
      BY <3>2 DEF Unread, TypeOK
    <3> QED BY <2>0, <3>b, <3>5 DEF Balance
  <2>19. ASSUME NEW p \in Procs, Idles(p) PROVE Balance'
    <3>1. \A q \in Procs : Stage'[q] = Stage[q]
      <4>1. CASE KillTest(p)
        BY <4>1, SMTT(60) DEF KillTest, Return, NextTurn, Stage, TypeOK
      <4>2. CASE ~KillTest(p)
        BY <2>19, <4>2, SMTT(60) DEF Idles, KillLock, KillRelinks, KillsRunner, AfterCall, Stage, TypeOK
      <4> QED BY <4>1, <4>2
    <3>2. UNCHANGED <<value, sent, received, lost>>
      BY <2>19 DEF Idles, KillTest, KillLock, KillRelinks, KillsRunner
    <3> QED BY <3>1, <3>2, <2>0, CreditQuiet
  <2>15. ASSUME NEW p \in Procs, NEW n \in 1 .. MaxCount, ReadCall(p, n) \/ WriteCall(p, n)
         PROVE  Balance'
    <3>1. \A q \in Procs : Stage'[q] = Stage[q]
      BY <2>15, SMTT(60) DEF ReadCall, WriteCall, Stage, TypeOK
    <3> QED BY <2>15, <3>1, <2>0, CreditQuiet DEF ReadCall, WriteCall
  <2>16. ASSUME NEW p \in Procs, NEW e \in Ends, Close(p, e) PROVE Balance'
    <3>1. \A q \in Procs : Stage'[q] = Stage[q]
      BY <2>16 DEF Close, Stage
    <3> QED BY <2>16, <3>1, <2>0, CreditQuiet DEF Close
  <2>17. ASSUME NEW p \in Procs, NEW q \in Procs, Clone(p, q) PROVE Balance'
    <3>1. \A r \in Procs : Stage'[r] = Stage[r]
      BY <2>17 DEF Clone, Stage, TypeOK
    <3> QED BY <2>17, <3>1, <2>0, CreditQuiet DEF Clone
  <2>18. Balance'
    BY <1>n, NextActs, <2>1, <2>2, <2>3, <2>4, <2>5, <2>6, <2>7, <2>8, <2>9, <2>10, <2>11,
       <2>12, <2>13, <2>14, <2>15, <2>16, <2>17, <2>19 DEF Acts, Idles
  <2> QED BY <2>18 DEF CreditInv
<1> QED BY <1>i, <1>u, <1>n

-----------------------------------------------------------------------------
(* The ring                                                                 *)

LEMMA CountPositive ==
    ASSUME NEW p \in Procs, Stage[p] = "granted"
    PROVE  N("granted") >= 1
<1> DEFINE S == {q \in Procs : Stage[q] = "granted"}
<1>1. IsFiniteSet(S) /\ Cardinality(S) \in Nat
  <2>1. S \subseteq Procs
    OBVIOUS
  <2> QED BY <2>1, FS_Subset, FS_CardinalityType
<1>2. S # {}
  OBVIOUS
<1>3. Cardinality(S) # 0
  BY <1>1, <1>2, FS_EmptySet
<1> QED BY <1>1, <1>3 DEF N, Count

(* A reader that is past P and was not killed on the way finds a byte.      *)
LEMMA ByteForReader ==
    ASSUME TypeOK, CreditInv, intact, NEW p \in Procs, pc[p] = "r_take"
    PROVE  Unread \in Int /\ Unread >= 1
<1>1. Stage[p] = "granted"
  BY DEF Stage
<1>2. N("granted") >= 1
  BY <1>1, CountPositive
<1>3. Unread \in Int /\ value \in Int /\ lost \in Nat
  BY DEF TypeOK, Unread
<1>4. Balance
  BY DEF CreditInv
<1> QED BY <1>2, <1>3, <1>4, NTypes DEF Balance

LEMMA RingQuiet ==
    ASSUME Ring, UNCHANGED <<buf, r_pos, w_pos, sent, received>>, intact' => intact
    PROVE  Ring'
BY DEF Ring, Unread, Wrap

LEMMA RingTake ==
    ASSUME TypeOK, Ring, CreditInv, NEW p \in Procs, ReadTake(p)
    PROVE  Ring'
<1> SUFFICES ASSUME intact' PROVE Ring'
  BY DEF Ring
<1>1. /\ intact /\ r_pos' = Wrap(r_pos + 1) /\ received' = Append(received, buf[r_pos])
      /\ UNCHANGED <<buf, w_pos, sent>>
  BY NextPosWraps DEF ReadTake, TypeOK
<1>2. Unread \in 1 .. Size - 1
  BY <1>1, ByteForReader DEF ReadTake, Ring
<1>3. r_pos \in 0 .. Size - 1 /\ Size \in Nat /\ received \in Seq(Nat) /\ sent \in Nat
  BY DEF TypeOK, Slots
<1>4. buf[r_pos] = Len(received) + 1
  <2>1. buf[Wrap(r_pos + 0)] = Len(received) + 1 + 0
    BY <1>1, <1>2 DEF Ring
  <2> QED BY <2>1, <1>3 DEF Wrap
<1>5. Len(received') = Len(received) + 1 /\ Unread' = Unread - 1
  BY <1>1, <1>3 DEF Unread, TypeOK
<1>6. \A i \in 1 .. Len(received') : received'[i] = i
  BY <1>1, <1>3, <1>4, <1>5, SMTT(30) DEF Ring, TypeOK
<1>7. w_pos' = Wrap(r_pos' + Unread')
  <2>1. w_pos = Wrap(r_pos + Unread)
    BY <1>1 DEF Ring
  <2> QED BY <1>1, <1>2, <1>3, <1>5, <2>1 DEF Wrap
<1>8. ASSUME NEW k \in 0 .. Unread' - 1
      PROVE  buf'[Wrap(r_pos' + k)] = Len(received') + 1 + k
  <2>1. k + 1 \in 0 .. Unread - 1
    BY <1>2, <1>5
  <2>2. buf[Wrap(r_pos + (k + 1))] = Len(received) + 1 + (k + 1)
    BY <1>1, <2>1 DEF Ring
  <2>3. Wrap(r_pos' + k) = Wrap(r_pos + (k + 1))
    BY <1>1, <1>2, <1>3, <2>1 DEF Wrap
  <2>4. Len(received) \in Nat
    BY <1>3
  <2> QED BY <1>1, <1>5, <2>2, <2>3, <2>4
<1>9. Unread' \in 0 .. Size - 1
  BY <1>2, <1>3, <1>5
<1> QED BY <1>6, <1>7, <1>8, <1>9 DEF Ring

LEMMA RingPut ==
    ASSUME TypeOK, Ring, NEW p \in Procs, WritePut(p)
    PROVE  Ring'
<1> SUFFICES ASSUME intact' PROVE Ring'
  BY DEF Ring
<1>1. /\ intact /\ Unread < Size - 1
      /\ w_pos' = Wrap(w_pos + 1) /\ buf' = [buf EXCEPT ![w_pos] = sent + 1]
      /\ sent' = sent + 1 /\ UNCHANGED <<r_pos, received>>
  BY NextPosWraps DEF WritePut, TypeOK, Unread
<1>2. Unread \in 0 .. Size - 2 /\ w_pos = Wrap(r_pos + Unread)
  BY <1>1 DEF Ring
<1>3. /\ r_pos \in 0 .. Size - 1 /\ w_pos \in 0 .. Size - 1 /\ Size \in Nat
      /\ sent \in Nat /\ Len(received) \in Nat /\ buf \in [0 .. Size - 1 -> Nat]
  BY DEF TypeOK, Slots
<1>4. Unread' = Unread + 1
  BY <1>1, <1>3 DEF Unread
<1>5. w_pos' = Wrap(r_pos' + Unread')
  BY <1>1, <1>2, <1>3, <1>4 DEF Wrap
<1>6. ASSUME NEW k \in 0 .. Unread' - 1
      PROVE  buf'[Wrap(r_pos' + k)] = Len(received') + 1 + k
  <2>1. CASE k = Unread
    <3>1. Wrap(r_pos' + k) = w_pos
      BY <1>1, <1>2, <2>1
    <3>2. sent + 1 = Len(received) + 1 + k
      BY <1>3, <2>1 DEF Unread
    <3> QED BY <1>1, <1>3, <3>1, <3>2
  <2>2. CASE k # Unread
    <3>1. k \in 0 .. Unread - 1
      BY <1>2, <1>4, <2>2
    <3>2. buf[Wrap(r_pos + k)] = Len(received) + 1 + k
      BY <1>1, <3>1 DEF Ring
    <3>3. Wrap(r_pos + k) # w_pos /\ Wrap(r_pos + k) \in 0 .. Size - 1
      BY <1>2, <1>3, <3>1 DEF Wrap
    <3> QED BY <1>1, <1>3, <3>2, <3>3
  <2> QED BY <2>1, <2>2
<1>7. Unread' \in 0 .. Size - 1
  BY <1>2, <1>3, <1>4
<1>8. \A i \in 1 .. Len(received') : received'[i] = i
  BY <1>1 DEF Ring
<1> QED BY <1>5, <1>6, <1>7, <1>8 DEF Ring

LEMMA RingStep == TypeOK /\ Ring /\ CreditInv /\ [Next]_vars => Ring'
<1> SUFFICES ASSUME TypeOK, Ring, CreditInv, [Next]_vars PROVE Ring'
  OBVIOUS
<1> USE DEF posVars, history
<1>1. CASE UNCHANGED vars
  BY <1>1, RingQuiet DEF vars
<1>2. ASSUME NEW p \in Procs, Acts(p) PROVE Ring'
  <2>1. CASE ReadTake(p)
    BY <2>1, RingTake
  <2>2. CASE WritePut(p)
    BY <2>2, RingPut
  <2>3. CASE ~ReadTake(p) /\ ~WritePut(p)
    <3>1. UNCHANGED <<buf, r_pos, w_pos, sent, received>> /\ (intact' => intact)
      <4>1. CASE WithoutV(p)
        BY <4>1 DEF WithoutV
      <4>2. CASE ~WithoutV(p)
        BY <1>2, <2>3, <4>2 DEF Acts, ReadTest, ReadP, ReadSleep, ReadLink, ReadResume, ReadBreak,
           ReadGoOn, WritePost, WritePostWake, WriteWakeup, WriteWakeupMiss, WriteTurnDone,
           ExitDone, Exit, KillTest, KillLock, KillRelinks, KillsRunner
      <4> QED BY <4>1, <4>2
    <3> QED BY <3>1, RingQuiet
  <2> QED BY <2>1, <2>2, <2>3
<1>3. ASSUME NEW p \in Procs, NEW n \in 1 .. MaxCount, ReadCall(p, n) \/ WriteCall(p, n)
      PROVE  Ring'
  BY <1>3, RingQuiet DEF ReadCall, WriteCall
<1>4. ASSUME NEW p \in Procs, NEW e \in Ends, Close(p, e) PROVE Ring'
  BY <1>4, RingQuiet DEF Close
<1>5. ASSUME NEW p \in Procs, NEW q \in Procs, Clone(p, q) PROVE Ring'
  BY <1>5, RingQuiet DEF Clone
<1>6. ASSUME NEW p \in Procs, NEW q \in Procs, Sends(q, p) PROVE Ring'
  BY <1>6, RingQuiet DEF Sends, Kill, Signal
<1> QED BY <1>1, <1>2, <1>3, <1>4, <1>5, <1>6, NextActs

-----------------------------------------------------------------------------
(* The invariant                                                            *)

LEMMA IInvInit == Init => IInv
<1> SUFFICES ASSUME Init PROVE IInv
  OBVIOUS
<1>1. TypeOK
  BY TypeInit
<1>2. SleepersMatch /\ NoneBefore /\ MutexInv
  BY DEF Init, SleepersMatch, NoneBefore, MutexInv, InMutex, IsInjective, Range
<1>3. RefsCountEnds
  <2>1. Holders("in") = {Creator} /\ Holders("out") = {Creator}
    BY DEF Init, Holders, Ends
  <2>2. \A p \in Procs : pc[p] \notin Reading /\ pc[p] \notin Writing
    BY DEF Init, Reading, Writing
  <2>3. Cardinality({Creator}) = 1
    BY FS_Singleton
  <2>4. r_ref = 1 /\ w_ref = 1 /\ ~freed
    BY DEF Init
  <2> QED BY <2>1, <2>2, <2>3, <2>4 DEF RefsCountEnds
<1>4. Ring
  <2>1. Unread = 0 /\ Len(received) = 0 /\ r_pos = 0 /\ w_pos = 0
    <3>1. sent = 0 /\ received = <<>> /\ r_pos = 0 /\ w_pos = 0
      BY DEF Init
    <3>2. Len(received) = 0
      BY <3>1
    <3>3. Unread = 0 - 0
      BY <3>1, <3>2 DEF Unread
    <3> QED BY <3>1, <3>2, <3>3
  <2>2. Wrap(r_pos + Unread) = w_pos
    BY <2>1 DEF Wrap
  <2> QED BY <2>1, <2>2 DEF Ring
<1>5. CreditInv
  <2>1. ASSUME NEW x \in {"blocked", "doomed", "granted", "posting", "waking"}
        PROVE  N(x) = 0
    <3>1. {p \in Procs : Stage[p] = x} = {}
      BY DEF Stage, Init
    <3> QED BY <3>1, FS_EmptySet DEF N, Count
  <2>2. value = 0 /\ lost = 0 /\ Unread = 0
    <3>1. value = 0 /\ lost = 0 /\ sent = 0 /\ received = <<>>
      BY DEF Init
    <3>2. Len(received) = 0
      BY <3>1
    <3>3. Unread = 0 - 0
      BY <3>1, <3>2 DEF Unread
    <3> QED BY <3>1, <3>2, <3>3
  <2> QED BY <2>1, <2>2 DEF CreditInv, Balance
<1> QED BY <1>1, <1>2, <1>3, <1>4, <1>5 DEF IInv

LEMMA IInvStep == IInv /\ [Next]_vars => IInv'
BY TypeStep, MutexStep, SleepersStep, RefsStep, RingStep, CreditStep DEF IInv

LEMMA Invariant == Spec => []IInv
BY IInvInit, IInvStep, PTL DEF Spec

(* PipeSleepers: a process is linked on sleep_list once, and just as long   *)
(* as it sleeps.                                                            *)
THEOREM PipeSleepers == Spec => []SleepersMatch
<1>1. IInv => SleepersMatch
  BY DEF IInv
<1> QED BY <1>1, Invariant, PTL

(* PipeRefs: the reference counts count descriptors, the pipe is freed with *)
(* the last of them, and no call is in a freed pipe.                        *)
THEOREM PipeRefs == Spec => []RefsCountEnds
<1>1. IInv => RefsCountEnds
  BY DEF IInv
<1> QED BY <1>1, Invariant, PTL

LEMMA CountsOfSets ==
    /\ Cardinality(Blocked) = N("blocked")
    /\ Cardinality(Passed) = N("doomed") + N("granted")
    /\ Cardinality(Posting) = N("posting")
<1> DEFINE At(x) == {p \in Procs : Stage[p] = x}
<1>1. Blocked = At("blocked") /\ Posting = At("posting")
  BY DEF Blocked, Posting, Stage
<1>2. Passed = At("doomed") \cup At("granted") /\ At("doomed") \cap At("granted") = {}
  BY DEF Passed, Stage
<1>3. \A x \in Stages : IsFiniteSet(At(x)) /\ Cardinality(At(x)) = N(x) /\ N(x) \in Nat
  <2>1. ASSUME NEW x \in Stages
        PROVE  IsFiniteSet(At(x)) /\ Cardinality(At(x)) = N(x) /\ N(x) \in Nat
    <3>1. At(x) \subseteq Procs
      OBVIOUS
    <3> QED BY <3>1, FS_Subset, FS_CardinalityType DEF N, Count
  <2> QED BY <2>1
<1>4. Cardinality(At("doomed") \cup At("granted")) = N("doomed") + N("granted")
  <2>1. {"doomed", "granted"} \subseteq Stages
    BY DEF Stages
  <2> HIDE DEF At
  <2>2. IsFiniteSet(At("doomed")) /\ IsFiniteSet(At("granted"))
    BY <1>3, <2>1
  <2>3. Cardinality(At("doomed") \cup At("granted"))
          = Cardinality(At("doomed")) + Cardinality(At("granted")) - Cardinality({})
    BY <2>2, <1>2, FS_Union
  <2> QED BY <2>1, <2>3, <1>3, FS_EmptySet
<1> QED BY <1>1, <1>2, <1>3, <1>4 DEF Stages

(* PipeCredits: every unread byte has its credit.                           *)
THEOREM PipeCredits == Spec => []CreditPerByte
<1>1. IInv => CreditPerByte
  <2> SUFFICES ASSUME IInv, intact PROVE CreditPerByte
    BY DEF CreditPerByte
  <2>1. Balance
    BY DEF IInv, CreditInv
  <2>2. Unread = value + N("blocked") + (N("doomed") + N("granted")) + N("posting") + lost
    <3>1. value \in Int /\ lost \in Nat
      BY DEF IInv, TypeOK
    <3> QED BY <2>1, <3>1, NTypes DEF Balance
  <2> QED BY <2>2, CountsOfSets DEF CreditPerByte
<1> QED BY <1>1, Invariant, PTL

LEMMA TruthFromIInv == IInv => SelectTellsTruth
<1> SUFFICES ASSUME IInv, NEW p \in Procs, Readable, intact, lost = 0, pc[p] = "user",
                    \A q \in Procs \ {p} : "in" \notin ends[q]
             PROVE  value > 0 \/ Posting # {}
  BY DEF SelectTellsTruth
<1>1. \A q \in Procs : pc[q] \notin Reading
  BY DEF IInv, RefsCountEnds, Reading
<1>2. Blocked = {} /\ Passed = {}
  BY <1>1 DEF Blocked, Passed, Reading
<1>3. N("blocked") = 0 /\ N("doomed") + N("granted") = 0
  BY <1>2, CountsOfSets, FS_EmptySet
<1>4. Balance
  BY DEF IInv, CreditInv
<1>5. Unread = value + N("posting") /\ value \in Int
  <2>1. value \in Int
    BY DEF IInv, TypeOK
  <2> QED BY <1>3, <1>4, <2>1, NTypes DEF Balance
<1>6. Unread # 0
  <2>1. Unread = 0 => w_pos = r_pos
    BY DEF IInv, Ring, Wrap, TypeOK, Slots
  <2> QED BY <2>1 DEF Readable
<1>7. Unread \in 0 .. Size - 1
  BY DEF IInv, Ring
<1>8. Posting = {} => N("posting") = 0
  BY CountsOfSets, FS_EmptySet
<1> QED BY <1>5, <1>6, <1>7, <1>8, NTypes

(* PipeSelect: what select calls ready to be read can be read without       *)
(* waiting, by the only reader of a pipe that no signal has disturbed.      *)
THEOREM PipeSelect == Spec => []SelectTellsTruth
BY TruthFromIInv, Invariant, PTL

-----------------------------------------------------------------------------
(* The pipe implements the channel                                          *)

LEMMA ChannelInit == Init => File!Init
BY DEF Init, File!Init

LEMMA ChannelStep == IInv /\ [Next]_vars => [File!Next]_(File!vars)
<1> SUFFICES ASSUME IInv, [Next]_vars PROVE File!Next \/ UNCHANGED File!vars
  OBVIOUS
<1> USE DEF history, refVars
<1>t. TypeOK
  BY DEF IInv
<1>s. ASSUME UNCHANGED <<sent, received, w_ref, ended, intact>> PROVE UNCHANGED File!vars
  BY <1>s DEF File!vars
<1>u. CASE UNCHANGED vars
  BY <1>u, <1>s DEF vars
<1>1. ASSUME NEW p \in Procs, ReadTest(p) PROVE File!Next \/ UNCHANGED File!vars
  <2>1. CASE NothingLeft
    <3>1. intact => Len(received) = sent
      <4>1. w_pos = r_pos
        BY <2>1 DEF NothingLeft
      <4>2. SUFFICES ASSUME intact PROVE Len(received) = sent
        OBVIOUS
      <4>3. Unread \in 0 .. Size - 1 /\ w_pos = Wrap(r_pos + Unread)
        BY <4>2 DEF IInv, Ring
      <4>4. Unread = 0
        BY <4>1, <4>3, <1>t DEF TypeOK, Slots, Wrap
      <4>5. sent \in Nat /\ Len(received) \in Nat
        BY <1>t DEF TypeOK
      <4> QED BY <4>4, <4>5 DEF Unread
    <3>2. w_ref = 0 /\ ended' = TRUE /\ UNCHANGED <<sent, received, w_ref, intact>>
      BY <1>1, <2>1 DEF ReadTest, NothingLeft
    <3>3. File!EndOfFile
      BY <3>1, <3>2 DEF File!EndOfFile
    <3> QED BY <3>3 DEF File!Next
  <2>2. CASE ~NothingLeft
    BY <1>1, <1>s, <2>2 DEF ReadTest
  <2> QED BY <2>1, <2>2
<1>2. ASSUME NEW p \in Procs, ReadTake(p) PROVE File!Next \/ UNCHANGED File!vars
  <2>1. CASE intact
    <3>1. Unread \in Int /\ Unread >= 1
      BY <1>2, <1>t, <2>1, ByteForReader DEF ReadTake, IInv
    <3>2. buf[r_pos] = Len(received) + 1
      <4>1. 0 \in 0 .. Unread - 1
        BY <3>1
      <4>2. buf[Wrap(r_pos + 0)] = Len(received) + 1 + 0
        BY <2>1, <4>1 DEF IInv, Ring
      <4>3. Wrap(r_pos + 0) = r_pos /\ Len(received) \in Nat
        BY <1>t DEF TypeOK, Slots, Wrap
      <4> QED BY <4>2, <4>3
    <3>3. Len(received) < sent
      BY <1>t, <3>1 DEF TypeOK, Unread
    <3>4. received' = Append(received, Len(received) + 1)
          /\ UNCHANGED <<sent, w_ref, ended, intact>>
      BY <1>2, <2>1, <3>2 DEF ReadTake
    <3>5. File!Read
      BY <2>1, <3>3, <3>4 DEF File!Read
    <3> QED BY <3>5 DEF File!Next
  <2>2. CASE ~intact
    BY <1>2, <1>s, <2>2 DEF ReadTake
  <2> QED BY <2>1, <2>2
<1>3. ASSUME NEW p \in Procs, WritePut(p) PROVE File!Next \/ UNCHANGED File!vars
  <2>1. w_ref # 0
    <3>1. p \in Holders("out")
      BY <1>3 DEF WritePut, IInv, RefsCountEnds, Writing, Holders
    <3>2. w_ref = Cardinality(Holders("out"))
      BY DEF IInv, RefsCountEnds
    <3>3. "out" \in Ends
      BY DEF Ends
    <3> QED BY <3>1, <3>2, <3>3, HoldersFinite, FS_EmptySet
  <2>2. /\ sent' = sent + 1 /\ intact' = (intact /\ sent - Len(received) < Size - 1)
        /\ UNCHANGED <<received, w_ref, ended>>
    BY <1>3 DEF WritePut
  <2>3. File!Write
    BY <2>1, <2>2 DEF File!Write
  <2> QED BY <2>3 DEF File!Next
<1>4. ASSUME NEW q \in Procs, WithoutV(q) PROVE File!Next \/ UNCHANGED File!vars
  <2>1. UNCHANGED <<sent, received, w_ref, ended>> /\ intact' = (intact /\ killed[target[q]])
    BY <1>4 DEF WithoutV
  <2>2. CASE killed[target[q]]
    BY <2>1, <2>2, <1>s, <1>t DEF TypeOK
  <2>3. CASE ~killed[target[q]]
    BY <2>1, <2>3 DEF File!Next, File!Disturb
  <2> QED BY <2>2, <2>3
<1>5. ASSUME NEW p \in Procs, Acts(p), ~ReadTest(p), ~ReadTake(p), ~WritePut(p), ~WithoutV(p)
      PROVE  UNCHANGED File!vars
  BY <1>5, <1>s DEF Acts, ReadP, ReadSleep, ReadLink, ReadResume, ReadBreak, ReadGoOn, WritePost,
     WritePostWake, WriteWakeup, WriteWakeupMiss, WriteTurnDone, ExitDone, Exit, KillTest,
     KillLock, KillRelinks, KillsRunner
<1>9. ASSUME NEW p \in Procs, NEW q \in Procs, Sends(q, p) PROVE UNCHANGED File!vars
  BY <1>9, <1>s DEF Sends, Kill, Signal
<1>6. ASSUME NEW p \in Procs, NEW n \in 1 .. MaxCount, ReadCall(p, n) \/ WriteCall(p, n)
      PROVE  UNCHANGED File!vars
  BY <1>6, <1>s DEF ReadCall, WriteCall
<1>7. ASSUME NEW p \in Procs, NEW e \in Ends, Close(p, e)
      PROVE  File!Next \/ UNCHANGED File!vars
  <2>1. UNCHANGED <<sent, received, ended, intact>>
    BY <1>7 DEF Close
  <2>2. CASE w_ref' = 0
    <3>1. File!Close
      BY <2>1, <2>2 DEF File!Close
    <3> QED BY <3>1 DEF File!Next
  <2>3. CASE w_ref' # 0
    <3>1. w_ref # 0
      BY <1>7, <1>t, <2>3 DEF Close, RefsAfter, TypeOK
    <3>2. (w_ref = 0)' = (w_ref = 0)
      BY <2>3, <3>1
    <3> QED BY <2>1, <3>2 DEF File!vars
  <2> QED BY <2>2, <2>3
<1>8. ASSUME NEW p \in Procs, NEW q \in Procs, Clone(p, q) PROVE UNCHANGED File!vars
  <2>1. UNCHANGED <<sent, received, ended, intact>>
    BY <1>8 DEF Clone
  <2>2. w_ref \in Nat /\ (w_ref' = w_ref \/ ("out" \in ends[p] /\ w_ref' = w_ref + 1))
    <3>1. w_ref' = IF "out" \in ends[p] THEN w_ref + 1 ELSE w_ref
      BY <1>8 DEF Clone
    <3>2. w_ref \in Nat
      BY <1>t DEF TypeOK
    <3> QED BY <3>1, <3>2
  <2>3. "out" \in ends[p] => w_ref # 0
    <3>1. "out" \in Ends
      BY DEF Ends
    <3>2. "out" \in ends[p] => p \in Holders("out")
      BY DEF Holders
    <3> QED BY <3>1, <3>2, HoldersFinite, FS_EmptySet DEF IInv, RefsCountEnds
  <2>4. (w_ref = 0)' = (w_ref = 0)
    BY <2>2, <2>3
  <2> QED BY <2>1, <2>4 DEF File!vars
<1> QED BY <1>u, <1>1, <1>2, <1>3, <1>4, <1>5, <1>6, <1>7, <1>8, <1>9, NextActs

(* PipeIsChannel: whatever the readers and writers do, the bytes come out   *)
(* in order, each once, and the end of the file comes last, as long as at   *)
(* most Size - 1 bytes are unread and no signal takes a sleeper out of P.   *)
THEOREM PipeIsChannel == Spec => ImplementsChannel
<1>1. Init => File!Init
  BY ChannelInit
<1>2. IInv /\ [Next]_vars => [File!Next]_(File!vars)
  BY ChannelStep
<1> QED BY <1>1, <1>2, Invariant, PTL DEF Spec, ImplementsChannel, File!Spec

(* The end of the file is final: once a reader has been told of it, every    *)
(* byte has been read, and no writer can come back.                          *)
EndIsFinal == ended /\ intact => w_ref = 0 /\ Unread = 0

LEMMA EndStep == IInv /\ EndIsFinal /\ [Next]_vars => EndIsFinal'
<1> SUFFICES ASSUME IInv, EndIsFinal, [Next]_vars, ended', intact'
             PROVE  w_ref' = 0 /\ Unread' = 0
  BY DEF EndIsFinal
<1> USE DEF Goto, refVars, semVars, sigVars, history
<1>0. /\ TypeOK /\ CreditInv /\ RefsCountEnds
      /\ ended /\ intact => w_ref = 0 /\ Unread = 0
  BY DEF IInv, EndIsFinal
<1>1. w_ref = 0 => \A p \in Procs : "out" \notin ends[p]
  <2>1. Holders("out") \subseteq Procs
    BY DEF Holders
  <2>2. IsFiniteSet(Holders("out"))
    BY <2>1, FS_Subset
  <2>3. w_ref = 0 => Holders("out") = {}
    BY <1>0, <2>2, FS_EmptySet DEF RefsCountEnds
  <2> QED BY <2>3 DEF Holders
<1>2. ASSUME UNCHANGED <<w_ref, sent, received, ended, intact>>
      PROVE  w_ref' = 0 /\ Unread' = 0
  BY <1>0, <1>2 DEF Unread
<1>3. ASSUME NEW p \in Procs, ReadTest(p) PROVE w_ref' = 0 /\ Unread' = 0
  <2>1. CASE NothingLeft
    <3>1. intact /\ w_ref = 0 /\ r_pos = w_pos /\ UNCHANGED <<w_ref, sent, received>>
      BY <1>3, <2>1 DEF ReadTest, NothingLeft
    <3>2. Unread \in 0 .. Size - 1 /\ w_pos = Wrap(r_pos + Unread) /\ r_pos \in Slots
      BY <3>1 DEF IInv, Ring, TypeOK
    <3>3. Unread = 0
      BY <3>1, <3>2 DEF Wrap, Slots
    <3> QED BY <3>1, <3>3 DEF Unread
  <2>2. CASE ~NothingLeft
    BY <1>2, <1>3, <2>2 DEF ReadTest
  <2> QED BY <2>1, <2>2
<1>4. ASSUME NEW p \in Procs, ReadTake(p) PROVE w_ref' = 0 /\ Unread' = 0
  <2>1. intact /\ ended /\ pc[p] = "r_take"
    BY <1>4 DEF ReadTake
  <2> QED BY <1>0, <2>1, ByteForReader
<1>5. ASSUME NEW p \in Procs, WritePut(p) PROVE w_ref' = 0 /\ Unread' = 0
  <2>1. intact /\ ended /\ pc[p] = "w_put"
    BY <1>5 DEF WritePut
  <2>2. "out" \in ends[p]
    BY <1>0, <2>1 DEF RefsCountEnds, Writing
  <2> QED BY <1>0, <1>1, <2>1, <2>2
<1>6. ASSUME NEW p \in Procs,
             \/ ReadP(p) \/ ReadSleep(p) \/ ReadLink(p) \/ ReadResume(p) \/ ReadBreak(p)
             \/ ReadGoOn(p) \/ WritePost(p) \/ WritePostWake(p) \/ WriteWakeup(p)
             \/ WriteWakeupMiss(p) \/ WriteTurnDone(p) \/ ExitDone(p) \/ Exit(p) \/ Idles(p)
      PROVE  w_ref' = 0 /\ Unread' = 0
  BY <1>2, <1>6 DEF ReadP, ReadSleep, ReadLink, ReadResume, ReadBreak, ReadGoOn, WritePost,
     WritePostWake, WriteWakeup, WriteWakeupMiss, WriteTurnDone, ExitDone, Exit, Idles, KillTest,
     KillLock, KillRelinks, KillsRunner
<1>7. ASSUME NEW p \in Procs, WithoutV(p) PROVE w_ref' = 0 /\ Unread' = 0
  <2>1. intact /\ UNCHANGED <<w_ref, sent, received, ended>>
    BY <1>7 DEF WithoutV
  <2> QED BY <1>0, <2>1 DEF Unread
<1>12. ASSUME NEW p \in Procs, NEW q \in Procs, Sends(q, p) PROVE w_ref' = 0 /\ Unread' = 0
  BY <1>2, <1>12 DEF Sends, Kill, Signal
<1>8. ASSUME NEW p \in Procs, NEW n \in 1 .. MaxCount, ReadCall(p, n) \/ WriteCall(p, n)
      PROVE  w_ref' = 0 /\ Unread' = 0
  BY <1>2, <1>8 DEF ReadCall, WriteCall
<1>9. ASSUME NEW p \in Procs, NEW e \in Ends, Close(p, e) PROVE w_ref' = 0 /\ Unread' = 0
  <2>1. UNCHANGED <<sent, received, ended, intact>>
    BY <1>9 DEF Close
  <2>2. w_ref = 0 /\ Unread = 0
    BY <1>0, <2>1
  <2>3. w_ref' = 0
    BY <1>9, <2>2 DEF Close, RefsAfter
  <2> QED BY <2>1, <2>2, <2>3 DEF Unread
<1>10. ASSUME NEW p \in Procs, NEW q \in Procs, Clone(p, q) PROVE w_ref' = 0 /\ Unread' = 0
  <2>1. UNCHANGED <<sent, received, ended, intact>>
    BY <1>10 DEF Clone
  <2>2. w_ref = 0 /\ Unread = 0
    BY <1>0, <2>1
  <2>3. w_ref' = 0
    BY <1>1, <1>10, <2>2 DEF Clone
  <2> QED BY <2>1, <2>2, <2>3 DEF Unread
<1>11. CASE UNCHANGED vars
  BY <1>2, <1>11 DEF vars
<1> QED
  BY <1>3, <1>4, <1>5, <1>6, <1>7, <1>8, <1>9, <1>10, <1>11, <1>12, NextActs
     DEF Acts, Idles

(* PipeEndIsFinal: a reader that is told the end of the file is not told it  *)
(* too early, for any number of readers, writers and clones.                 *)
THEOREM PipeEndIsFinal == Spec => []EndIsFinal
<1>1. Init => EndIsFinal
  BY DEF Init, EndIsFinal
<1> QED BY <1>1, EndStep, Invariant, PTL DEF Spec

-----------------------------------------------------------------------------
(* One hart                                                                 *)

OnHart == {p \in Procs : pc[p] \notin OffHart}
Alone == \A p, q \in OnHart : p = q

(* Who enters the kernel finds the hart free, and then nobody else is there. *)
LEMMA FreeHart ==
    ASSUME HartNum = 1, HartFree PROVE OnHart = {}
<1>1. IsFiniteSet(OnHart) /\ Cardinality(OnHart) \in Nat
  <2>1. OnHart \subseteq Procs
    BY DEF OnHart
  <2> QED BY <2>1, FS_Subset, FS_CardinalityType
<1>2. Cardinality(OnHart) = 0
  BY <1>1 DEF HartFree, OnHart
<1> QED BY <1>1, <1>2, FS_EmptySet

(* A step takes nobody to the hart, or takes one process to a free hart.     *)
LEMMA HartSteps ==
    ASSUME TypeOK, SleepersMatch, [Next]_vars
    PROVE  \/ OnHart' \subseteq OnHart
           \/ HartFree /\ \E p \in Procs : OnHart' \subseteq OnHart \cup {p}
<1> USE DEF Goto, OnHart, OffHart
<1>1. ASSUME NEW p \in Procs,
             \/ ReadTest(p) \/ ReadP(p) \/ ReadSleep(p) \/ ReadLink(p) \/ ReadBreak(p)
             \/ ReadGoOn(p) \/ ReadTake(p) \/ WritePut(p) \/ WritePost(p)
             \/ WritePostWake(p) \/ WriteWakeupMiss(p) \/ WriteTurnDone(p) \/ ExitDone(p)
             \/ Idles(p)
      PROVE  OnHart' \subseteq OnHart
  <2>1. p \in OnHart /\ \A q \in Procs \ {p} : pc'[q] = pc[q]
    <3>1. CASE Idles(p)
      BY <3>1 DEF Idles, KillTest, KillLock, KillRelinks, KillsRunner, Return, NextTurn, TypeOK
    <3>2. CASE ~Idles(p)
      BY <1>1, <3>2 DEF ReadTest, ReadP, ReadSleep, ReadLink, ReadBreak, ReadGoOn, ReadTake,
         WritePut, WritePost, WritePostWake, WriteWakeupMiss, WriteTurnDone, ExitDone, TurnDone,
         Return, NextTurn, TypeOK
    <3> QED BY <3>1, <3>2
  <2> QED BY <2>1
<1>2. ASSUME NEW p \in Procs, WriteWakeup(p) PROVE OnHart' \subseteq OnHart
  <2>1. Head(sleepers) \in Procs
    BY <1>2 DEF WriteWakeup, TypeOK
  <2>2. /\ pc[p] = "w_wake" /\ pc \in [Procs -> Labels]
        /\ pc' = [pc EXCEPT ![p] = "w_unlock", ![Head(sleepers)] = "woken"]
    BY <1>2 DEF WriteWakeup, TypeOK, Labels
  <2> QED BY <2>1, <2>2
<1>3. ASSUME NEW p \in Procs, NEW n \in 1 .. MaxCount,
             ReadCall(p, n) \/ WriteCall(p, n)
      PROVE  HartFree /\ OnHart' \subseteq OnHart \cup {p}
  BY <1>3 DEF ReadCall, WriteCall, TypeOK
<1>4. ASSUME NEW p \in Procs, Exit(p) \/ ReadResume(p)
      PROVE  HartFree /\ OnHart' \subseteq OnHart \cup {p}
  BY <1>4 DEF Exit, ReadResume, TypeOK
<1>5. ASSUME NEW q \in Procs, WithoutV(q) PROVE OnHart' \subseteq OnHart
  <2>1. PICK p \in Procs : p = target[q]
    BY DEF TypeOK
  <2>2. /\ pc[q] = "k_move" /\ pc \in [Procs -> Labels]
        /\ pc' = [pc EXCEPT ![p] = "woken", ![q] = AfterCall(q)]
    BY <1>5, <2>1 DEF WithoutV, TypeOK, Labels
  <2> QED BY <2>2
<1>9. ASSUME NEW p \in Procs, NEW q \in Procs, Sends(q, p)
      PROVE  HartFree /\ OnHart' \subseteq OnHart \cup {q}
  BY <1>9 DEF Sends, Kill, Signal, CanSend, TypeOK
<1>6. ASSUME NEW p \in Procs, NEW e \in Ends, Close(p, e) PROVE OnHart' \subseteq OnHart
  BY <1>6 DEF Close
<1>7. ASSUME NEW p \in Procs, NEW q \in Procs, Clone(p, q) PROVE OnHart' \subseteq OnHart
  BY <1>7 DEF Clone, TypeOK
<1>8. CASE UNCHANGED vars
  BY <1>8 DEF vars
<1> QED
  BY <1>1, <1>2, <1>3, <1>4, <1>5, <1>6, <1>7, <1>8, <1>9, NextActs DEF Acts, Idles

LEMMA AloneStep ==
    ASSUME HartNum = 1, TypeOK, SleepersMatch, Alone, [Next]_vars PROVE Alone'
<1>1. CASE OnHart' \subseteq OnHart
  BY <1>1 DEF Alone
<1>2. CASE HartFree /\ \E p \in Procs : OnHart' \subseteq OnHart \cup {p}
  BY <1>2, FreeHart DEF Alone
<1> QED BY <1>1, <1>2, HartSteps

(* Nobody gets into sys_kill but by calling it.                              *)
LEMMA KillingStep ==
    ASSUME TypeOK, [Next]_vars, NEW r \in Procs, pc'[r] \in Killing \cup {"wild"}
    PROVE  \/ pc'[r] = pc[r] \/ KillTest(r) \/ KillLock(r) \/ KillsRunner(r)
           \/ \E p \in Procs : Sends(r, p)
<1> USE DEF Goto
<1>1. CASE UNCHANGED vars
  BY <1>1 DEF vars
<1>2. ASSUME NEW p \in Procs, Acts(p) 
      PROVE  pc'[r] = pc[r] \/ KillTest(r) \/ KillLock(r) \/ KillsRunner(r)
  <2>1. CASE \/ ReadTest(p) \/ ReadBreak(p) \/ ReadTake(p) \/ WritePost(p) \/ WriteTurnDone(p)
             \/ KillTest(p)
    BY <2>1 DEF ReadTest, ReadBreak, ReadTake, WritePost, WriteTurnDone, KillTest, TurnDone,
       Return, NextTurn, TypeOK, Killing
  <2>2. CASE \/ ReadP(p) \/ ReadSleep(p) \/ ReadLink(p) \/ ReadResume(p) \/ ReadGoOn(p)
             \/ ExitDone(p) \/ Exit(p)
    BY <2>2 DEF ReadP, ReadSleep, ReadLink, ReadResume, ReadGoOn, ExitDone, Exit, TypeOK, Killing
  <2>3. CASE WritePut(p) \/ WritePostWake(p) \/ WriteWakeup(p) \/ WriteWakeupMiss(p)
    BY <2>3 DEF WritePut, WritePostWake, WriteWakeup, WriteWakeupMiss, TypeOK, Killing
  <2>4. CASE KillLock(p) \/ WithoutV(p) \/ KillRelinks(p) \/ KillsRunner(p)
    BY <2>4 DEF KillLock, WithoutV, KillRelinks, KillsRunner, AfterCall, TypeOK, Killing
  <2> QED BY <1>2, <2>1, <2>2, <2>3, <2>4 DEF Acts
<1>3. ASSUME NEW p \in Procs, NEW n \in 1 .. MaxCount, ReadCall(p, n) \/ WriteCall(p, n)
      PROVE  pc'[r] = pc[r]
  BY <1>3 DEF ReadCall, WriteCall, TypeOK, Killing
<1>4. ASSUME NEW p \in Procs, NEW e \in Ends, Close(p, e) PROVE pc'[r] = pc[r]
  BY <1>4 DEF Close
<1>5. ASSUME NEW p \in Procs, NEW q \in Procs, Clone(p, q) PROVE pc'[r] = pc[r]
  BY <1>5 DEF Clone, TypeOK, Killing
<1>6. ASSUME NEW p \in Procs, NEW q \in Procs, Sends(q, p)
      PROVE  pc'[r] = pc[r] \/ Sends(r, p)
  BY <1>6 DEF Sends, Kill, Signal, CanSend, TypeOK
<1> QED BY <1>1, <1>2, <1>3, <1>4, <1>5, <1>6, NextActs

(* Who takes a step is on a hart or finds one free.                          *)
LEMMA StepOnHart ==
    ASSUME [Next]_vars, ~HartFree
    PROVE  UNCHANGED <<pc, target>> \/ \E p \in OnHart : Acts(p)
<1> USE DEF OnHart, OffHart, sigVars
<1>1. ASSUME NEW p \in Procs, Acts(p) PROVE p \in OnHart
  BY <1>1 DEF Acts, ReadTest, ReadP, ReadSleep, ReadLink, ReadResume, ReadBreak,
     ReadGoOn, ReadTake, WritePut, WritePost, WritePostWake, WriteWakeup, WriteWakeupMiss,
     WriteTurnDone, ExitDone, Exit, KillTest, KillLock, WithoutV, KillRelinks, KillsRunner
<1>2. ASSUME NEW p \in Procs, NEW e \in Ends, Close(p, e) PROVE UNCHANGED <<pc, target>>
  BY <1>2 DEF Close
<1>3. CASE UNCHANGED vars
  BY <1>3 DEF vars
<1> QED BY <1>1, <1>2, <1>3, NextActs DEF ReadCall, WriteCall, Clone, Sends, Kill, Signal, CanSend

(* The process that a sys_kill is about to move still sleeps, so that nothing *)
(* undefined happens.                                                        *)
KillsSleeper ==
    \A q \in Procs :
        /\ pc[q] # "wild"
        /\ pc[q] \in {"k_lock", "k_move"} => pc[target[q]] = "asleep"

LEMMA KillsSleeperStep ==
    ASSUME HartNum = 1, TypeOK, Alone, KillsSleeper, [Next]_vars PROVE KillsSleeper'
<1> SUFFICES ASSUME NEW q \in Procs, pc'[q] \in {"k_lock", "k_move", "wild"}
             PROVE  pc'[q] # "wild" /\ pc'[target'[q]] = "asleep"
  BY DEF KillsSleeper
<1> USE DEF Goto
<1>0. pc \in [Procs -> Labels] /\ target \in [Procs -> Procs]
  BY DEF TypeOK, Labels
<1>1. PICK p \in Procs : p = target[q]
  BY <1>0
<1>2. CASE KillTest(q)
  <2>1. pc[q] = "k_test" /\ pc[p] \in {"r_link", "asleep"} /\ pc' = [pc EXCEPT ![q] = "k_lock"]
        /\ target' = target
    BY <1>0, <1>1, <1>2 DEF KillTest, Return, NextTurn
  <2>2. pc[p] # "r_link"
    BY <2>1 DEF Alone, OnHart, OffHart
  <2> QED BY <1>0, <1>1, <2>1, <2>2
<1>3. CASE KillLock(q)
  <2>1. pc[q] = "k_lock" /\ pc[p] = "asleep" /\ pc' = [pc EXCEPT ![q] = "k_move"]
        /\ target' = target
    BY <1>1, <1>3 DEF KillLock, sigVars, KillsSleeper
  <2> QED BY <1>0, <1>1, <2>1
<1>4. CASE pc'[q] = pc[q] /\ ~KillTest(q) /\ ~KillLock(q)
  <2>1. q \in OnHart /\ pc[p] = "asleep"
    BY <1>1, <1>4 DEF OnHart, OffHart, KillsSleeper
  <2>2. ~HartFree
    BY <2>1, FreeHart
  <2>3. ~Acts(q)
    <3>1. CASE WithoutV(q)
      BY <1>0, <1>1, <1>4, <3>1 DEF WithoutV, AfterCall
    <3>2. ~KillRelinks(q) /\ ~KillsRunner(q)
      BY <1>1, <2>1 DEF KillRelinks, KillsRunner
    <3>3. CASE Acts(q) /\ ~WithoutV(q)
      BY <1>4, <3>2, <3>3 DEF Acts, ReadTest, ReadP, ReadSleep, ReadLink, ReadResume, ReadBreak,
         ReadGoOn, ReadTake, WritePut, WritePost, WritePostWake, WriteWakeup, WriteWakeupMiss,
         WriteTurnDone, ExitDone, Exit
    <3> QED BY <3>1, <3>3
  <2>4. UNCHANGED <<pc, target>>
    BY <2>1, <2>2, <2>3, StepOnHart DEF Alone
  <2>5. pc'[q] # "wild" /\ p # q
    BY <1>4, <2>1 DEF KillsSleeper, OnHart, OffHart
  <2> QED BY <1>0, <1>1, <2>1, <2>4, <2>5
<1>5. ASSUME NEW r \in Procs, Sends(q, r) PROVE FALSE
  BY <1>0, <1>5 DEF Sends, Kill, Signal, CanSend
<1>6. ~KillsRunner(q)
  BY DEF KillsRunner, KillsSleeper
<1> QED BY <1>2, <1>3, <1>4, <1>5, <1>6, KillingStep DEF Killing

(* PipeKillsSleepers: on one hart sys_kill moves a process only from where it *)
(* found it asleep, whatever is sent to whom, although it tests the status    *)
(* without a lock (procsyscall.c:748).  On two harts this does not hold.      *)
THEOREM PipeKillsSleepers == HartNum = 1 => (Spec => []KillsSleeper)
<1> SUFFICES ASSUME HartNum = 1 PROVE Spec => []KillsSleeper
  OBVIOUS
<1>1. Init => Alone /\ KillsSleeper
  BY DEF Init, Alone, OnHart, OffHart, KillsSleeper
<1>2. IInv /\ Alone /\ KillsSleeper /\ [Next]_vars => Alone' /\ KillsSleeper'
  BY AloneStep, KillsSleeperStep DEF IInv
<1> QED BY <1>1, <1>2, Invariant, PTL DEF Spec

-----------------------------------------------------------------------------
(* One hart and no signals: no wakeup is lost                               *)

(* As long as a reader sleeps, every unread byte is on its way to a reader.  *)
SpokenFor ==
    intact /\ Blocked # {} =>
        Unread = Cardinality(Passed) + Cardinality(Posting) + Cardinality(Waking)

(* A read that begins after the last writer has gone, when no reader is on   *)
(* its way to a byte, sees the end or finds its byte in the semaphore.       *)
EndAtOnce ==
    \A p \in Procs :
        intact /\ pc[p] = "r_test" /\ w_ref = 0 /\ Passed = {} => NothingLeft \/ value > 0

NoneKilled == lost = 0 /\ \A p \in Procs : ~killed[p]
NoKilling == \A p \in Procs : pc[p] \notin Killing

(* The readers that were turned away are those that the value counts and    *)
(* those that a wakeup is on its way to.                                     *)
Counted == N("blocked") - N("waking") = IF value < 0 THEN -value ELSE 0
WakeAtZero == \A p \in Procs : pc[p] = "w_wake" => value <= 0

OneHart == Alone /\ NoneKilled /\ NoKilling /\ Counted /\ WakeAtZero

(* What a step does to the value and to those it turns away and wakes, when  *)
(* nobody is ever killed.                                                    *)
Shifts(v, b, w) ==
    value' = value + v /\ N("blocked")' = N("blocked") + b /\ N("waking")' = N("waking") + w

LEMMA Shifting ==
    ASSUME TypeOK, SleepersMatch, NoneKilled, NoKilling, Signals = {}, [Next]_vars
    PROVE  /\ \/ Shifts(0, 0, 0)
              \/ value > 0 /\ Shifts(-1, 0, 0)
              \/ value <= 0 /\ Shifts(-1, 1, 0)
              \/ value >= 0 /\ Shifts(1, 0, 0)
              \/ value < 0 /\ Shifts(1, 0, 1)
              \/ Shifts(0, -1, -1)
              \/ (\E p \in Procs : WriteWakeupMiss(p)) /\ Shifts(0, 0, -1)
           /\ NoneKilled'
<1> USE DEF Goto, semVars, sigVars, history
<1>0. /\ value \in Int /\ N("blocked") \in Nat /\ N("waking") \in Nat
      /\ pc \in [Procs -> Labels] /\ \A q \in Procs : ~killed[q]
  BY NTypes DEF TypeOK, Labels, NoneKilled
<1>1. ASSUME UNCHANGED <<value, lost, killed>>, \A q \in Procs : Stage'[q] = Stage[q]
      PROVE  Shifts(0, 0, 0) /\ NoneKilled'
  <2>1. N("blocked")' = N("blocked") /\ N("waking")' = N("waking")
    BY <1>1, StageStays DEF Stages
  <2> QED BY <1>0, <1>1, <2>1 DEF Shifts, NoneKilled
<1>2. CASE UNCHANGED vars
  <2>1. \A q \in Procs : Stage'[q] = Stage[q]
    BY <1>2 DEF vars, Stage
  <2> QED BY <1>1, <1>2, <2>1 DEF vars
<1>3. ASSUME NEW p \in Procs,
             ReadSleep(p) \/ ReadLink(p) \/ ReadResume(p) \/ ReadGoOn(p) \/ ExitDone(p)
             \/ Exit(p)
      PROVE  Shifts(0, 0, 0) /\ NoneKilled'
  <2>1. /\ \A q \in Procs : Stage'[q] = Stage[q]
        /\ UNCHANGED <<value, lost, killed>>
    BY <1>0, <1>3 DEF ReadSleep, ReadLink, ReadResume, ReadGoOn, ExitDone, Exit, Stage
  <2> QED BY <1>1, <2>1
<1>4. ASSUME NEW p \in Procs, ReadTest(p) \/ WriteTurnDone(p)
      PROVE  Shifts(0, 0, 0) /\ NoneKilled'
  <2>1. /\ \A q \in Procs : Stage'[q] = Stage[q]
        /\ UNCHANGED <<value, lost, killed>>
    BY <1>0, <1>4 DEF ReadTest, WriteTurnDone, TurnDone, Return, NextTurn, Stage
  <2> QED BY <1>1, <2>1
<1>5. ASSUME NEW p \in Procs, ReadTake(p) \/ WritePut(p)
      PROVE  Shifts(0, 0, 0) /\ NoneKilled'
  <2>1. PICK a, b \in {"granted", "other", "posting"} :
            /\ a # b /\ Stage[p] = a /\ Stage'[p] = b
            /\ \A q \in Procs : q # p => Stage'[q] = Stage[q]
            /\ UNCHANGED <<value, lost, killed>>
    BY <1>0, <1>5 DEF ReadTake, WritePut, NextTurn, Stage
  <2>2. N("blocked")' = N("blocked") /\ N("waking")' = N("waking")
    BY <2>1, StageMoves DEF Stages
  <2> QED BY <1>0, <2>1, <2>2 DEF Shifts, NoneKilled
<1>6. ASSUME NEW p \in Procs, ReadP(p)
      PROVE  /\ (value > 0 /\ Shifts(-1, 0, 0)) \/ (value <= 0 /\ Shifts(-1, 1, 0))
             /\ NoneKilled'
  <2>1. /\ value' = value - 1 /\ UNCHANGED <<lost, killed>> /\ Stage[p] = "other"
        /\ Stage'[p] = IF value > 0 THEN "granted" ELSE "blocked"
        /\ \A q \in Procs : q # p => Stage'[q] = Stage[q]
    BY <1>0, <1>6 DEF ReadP, Stage
  <2>2. CASE value > 0
    <3>1. N("blocked")' = N("blocked") /\ N("waking")' = N("waking")
      BY <2>1, <2>2, StageMoves DEF Stages
    <3> QED BY <1>0, <2>1, <2>2, <3>1 DEF Shifts, NoneKilled
  <2>3. CASE ~(value > 0)
    <3>1. N("blocked")' = N("blocked") + 1 /\ N("waking")' = N("waking")
      BY <2>1, <2>3, StageMoves DEF Stages
    <3> QED BY <1>0, <2>1, <2>3, <3>1 DEF Shifts, NoneKilled
  <2> QED BY <2>2, <2>3
<1>7. ASSUME NEW p \in Procs, WritePost(p)
      PROVE  value >= 0 /\ Shifts(1, 0, 0) /\ NoneKilled'
  <2>1. /\ value >= 0 /\ value' = value + 1 /\ UNCHANGED <<lost, killed>>
        /\ Stage[p] = "posting" /\ Stage'[p] = "other"
        /\ \A q \in Procs : q # p => Stage'[q] = Stage[q]
    BY <1>0, <1>7 DEF WritePost, TurnDone, NextTurn, Stage
  <2>2. N("blocked")' = N("blocked") /\ N("waking")' = N("waking")
    BY <2>1, StageMoves DEF Stages
  <2> QED BY <1>0, <2>1, <2>2 DEF Shifts, NoneKilled
<1>8. ASSUME NEW p \in Procs, WritePostWake(p)
      PROVE  value < 0 /\ Shifts(1, 0, 1) /\ NoneKilled'
  <2>1. /\ value < 0 /\ value' = value + 1 /\ UNCHANGED <<lost, killed>>
        /\ Stage[p] = "posting" /\ Stage'[p] = "waking"
        /\ \A q \in Procs : q # p => Stage'[q] = Stage[q]
    BY <1>0, <1>8 DEF WritePostWake, Stage
  <2>2. N("blocked")' = N("blocked") /\ N("waking")' = N("waking") + 1
    BY <2>1, StageMoves DEF Stages
  <2> QED BY <1>0, <2>1, <2>2 DEF Shifts, NoneKilled
<1>9. ASSUME NEW p \in Procs, WriteWakeup(p)
      PROVE  Shifts(0, -1, -1) /\ NoneKilled'
  <2>1. Head(sleepers) \in Procs /\ Head(sleepers) \in Range(sleepers)
    BY <1>9 DEF WriteWakeup, TypeOK, Range
  <2>2. PICK q \in Procs : q = Head(sleepers)
    BY <2>1
  <2>3. pc[q] = "asleep" /\ pc[p] = "w_wake" /\ p # q
    BY <1>9, <2>1, <2>2 DEF SleepersMatch, WriteWakeup
  <2>4. /\ pc' = [pc EXCEPT ![p] = "w_unlock", ![q] = "woken"]
        /\ UNCHANGED <<value, lost, killed>>
    BY <1>9, <2>2 DEF WriteWakeup
  <2>5. /\ Stage[p] = "waking" /\ Stage'[p] = "other"
        /\ Stage[q] = "blocked" /\ Stage'[q] = "granted"
        /\ \A r \in Procs \ {p, q} : Stage'[r] = Stage[r]
    BY <1>0, <2>3, <2>4 DEF Stage
  <2>6. N("waking")' = N("waking") - 1 /\ N("blocked")' = N("blocked") - 1
    BY <2>3, <2>5, StageMovesTwo
  <2> QED BY <1>0, <2>4, <2>6 DEF Shifts, NoneKilled
<1>10. ASSUME NEW p \in Procs, WriteWakeupMiss(p)
       PROVE  Shifts(0, 0, -1) /\ NoneKilled'
  <2>1. /\ UNCHANGED <<value, lost, killed>>
        /\ Stage[p] = "waking" /\ Stage'[p] = "other"
        /\ \A q \in Procs : q # p => Stage'[q] = Stage[q]
    BY <1>0, <1>10 DEF WriteWakeupMiss, Stage
  <2>2. N("blocked")' = N("blocked") /\ N("waking")' = N("waking") - 1
    BY <2>1, StageMoves DEF Stages
  <2> QED BY <1>0, <2>1, <2>2 DEF Shifts, NoneKilled
<1>11. ASSUME NEW p \in Procs, ReadBreak(p) \/ WithoutV(p) \/ Idles(p) PROVE FALSE
  BY <1>0, <1>11 DEF ReadBreak, WithoutV, Idles, KillTest, KillLock, KillRelinks, KillsRunner,
     NoKilling, Killing
<1>15. ASSUME NEW p \in Procs, NEW q \in Procs, Sends(q, p) PROVE FALSE
  BY <1>15 DEF Sends, Kill, Signal
<1>12. ASSUME NEW p \in Procs, NEW n \in 1 .. MaxCount, ReadCall(p, n) \/ WriteCall(p, n)
       PROVE  Shifts(0, 0, 0) /\ NoneKilled'
  <2>1. /\ \A q \in Procs : Stage'[q] = Stage[q]
        /\ UNCHANGED <<value, lost, killed>>
    BY <1>0, <1>12 DEF ReadCall, WriteCall, Stage
  <2> QED BY <1>1, <2>1
<1>13. ASSUME NEW p \in Procs, NEW e \in Ends, Close(p, e)
       PROVE  Shifts(0, 0, 0) /\ NoneKilled'
  <2>1. /\ \A q \in Procs : Stage'[q] = Stage[q]
        /\ UNCHANGED <<value, lost, killed>>
    BY <1>13 DEF Close, Stage
  <2> QED BY <1>1, <2>1
<1>14. ASSUME NEW p \in Procs, NEW q \in Procs, Clone(p, q)
       PROVE  Shifts(0, 0, 0) /\ NoneKilled'
  <2>1. /\ \A r \in Procs : Stage'[r] = Stage[r]
        /\ UNCHANGED <<value, lost, killed>>
    BY <1>0, <1>14 DEF Clone, Stage
  <2> QED BY <1>1, <2>1
<1> QED
  BY <1>2, <1>3, <1>4, <1>5, <1>6, <1>7, <1>8, <1>9, <1>10, <1>11, <1>12, <1>13,
     <1>14, <1>15, NextActs DEF Acts, Idles

(* The wakeup of the one process on the hart finds a sleeper.                *)
LEMMA WakeupFinds ==
    ASSUME SleepersMatch, Alone, Counted, value \in Int,
           NEW p \in Procs, pc[p] = "w_wake"
    PROVE  sleepers # <<>>
<1>1. Stage[p] = "waking"
  BY DEF Stage
<1>2. N("waking") # 0
  <2> DEFINE S == {q \in Procs : Stage[q] = "waking"}
  <2>1. p \in S
    BY <1>1
  <2>2. IsFiniteSet(S)
    BY CountFinite, ZenonT(60)
  <2>3. Cardinality(S) # 0
    BY <2>1, <2>2, FS_EmptySet
  <2> QED BY <2>3 DEF N, Count
<1>3. N("blocked") # 0
  BY <1>2, NTypes DEF Counted
<1>4. PICK q \in Procs : Stage[q] = "blocked"
  <2>1. {q \in Procs : Stage[q] = "blocked"} # {}
    BY <1>3, FS_EmptySet DEF N, Count
  <2> QED BY <2>1
<1>5. pc[q] \in {"r_sleep", "r_link", "asleep"}
  BY <1>4 DEF Stage
<1>6. pc[q] \notin {"r_sleep", "r_link"}
  BY <1>5 DEF Alone, OnHart, OffHart
<1>7. q \in Range(sleepers)
  BY <1>5, <1>6 DEF SleepersMatch
<1> QED BY <1>7 DEF Range

LEMMA WakeAtZeroStep ==
    ASSUME TypeOK, SleepersMatch, Alone, WakeAtZero, [Next]_vars PROVE WakeAtZero'
<1> USE DEF Goto, semVars, sigVars, history
<1>0. value \in Int /\ pc \in [Procs -> Labels]
  BY DEF TypeOK, Labels
<1>1. ASSUME UNCHANGED value, \A q \in Procs : pc'[q] = "w_wake" => pc[q] = "w_wake"
      PROVE  WakeAtZero'
  BY <1>1 DEF WakeAtZero
<1>2. ASSUME NEW p \in Procs,
             ReadSleep(p) \/ ReadLink(p) \/ ReadResume(p) \/ ReadGoOn(p) \/ ExitDone(p)
             \/ Exit(p) \/ WritePut(p) \/ WriteWakeupMiss(p)
      PROVE  WakeAtZero'
  <2>1. UNCHANGED value /\ \A q \in Procs : pc'[q] = "w_wake" => pc[q] = "w_wake"
    BY <1>0, <1>2 DEF ReadSleep, ReadLink, ReadResume, ReadGoOn, ExitDone, Exit, WritePut,
       WriteWakeupMiss
  <2> QED BY <1>1, <2>1
<1>3. ASSUME NEW p \in Procs, ReadTest(p) \/ ReadBreak(p) \/ ReadTake(p) \/ WriteTurnDone(p)
      PROVE  WakeAtZero'
  <2>1. UNCHANGED value /\ \A q \in Procs : pc'[q] = "w_wake" => pc[q] = "w_wake"
    BY <1>0, <1>3 DEF ReadTest, ReadBreak, ReadTake, WriteTurnDone, TurnDone, Return, NextTurn
  <2> QED BY <1>1, <2>1
<1>4. ASSUME NEW p \in Procs, ReadP(p) PROVE WakeAtZero'
  <2>1. value' = value - 1 /\ \A q \in Procs : pc'[q] = "w_wake" => pc[q] = "w_wake"
    BY <1>0, <1>4 DEF ReadP
  <2> QED BY <1>0, <2>1 DEF WakeAtZero
<1>5. ASSUME NEW p \in Procs, WritePost(p) PROVE WakeAtZero'
  <2>1. /\ pc[p] = "w_post" /\ pc'[p] # "w_wake"
        /\ \A q \in Procs \ {p} : pc'[q] = pc[q]
    BY <1>0, <1>5 DEF WritePost, TurnDone, NextTurn
  <2>2. \A q \in Procs : pc[q] # "w_wake"
    BY <2>1 DEF Alone, OnHart, OffHart
  <2> QED BY <2>1, <2>2 DEF WakeAtZero
<1>6. ASSUME NEW p \in Procs, WritePostWake(p) PROVE WakeAtZero'
  BY <1>0, <1>6 DEF WritePostWake, WakeAtZero
<1>7. ASSUME NEW p \in Procs, WriteWakeup(p) PROVE WakeAtZero'
  <2>1. Head(sleepers) \in Procs
    BY <1>7 DEF WriteWakeup, TypeOK
  <2>2. /\ value' = value
        /\ pc' = [pc EXCEPT ![p] = "w_unlock", ![Head(sleepers)] = "woken"]
    BY <1>7 DEF WriteWakeup
  <2> QED BY <1>0, <1>1, <2>1, <2>2
<1>8. ASSUME NEW p \in Procs, WithoutV(p) \/ Idles(p) PROVE WakeAtZero'
  <2>1. UNCHANGED value /\ \A q \in Procs : pc'[q] = "w_wake" => pc[q] = "w_wake"
    <3>1. CASE KillTest(p)
      BY <1>0, <3>1 DEF KillTest, Return, NextTurn
    <3>2. CASE ~KillTest(p)
      BY <1>0, <1>8, <3>2 DEF WithoutV, Idles, KillLock, KillRelinks, KillsRunner, AfterCall
    <3> QED BY <3>1, <3>2
  <2> QED BY <1>1, <2>1
<1>13. ASSUME NEW p \in Procs, NEW q \in Procs, Sends(q, p) PROVE WakeAtZero'
  <2>1. UNCHANGED value /\ \A r \in Procs : pc'[r] = "w_wake" => pc[r] = "w_wake"
    BY <1>0, <1>13 DEF Sends, Kill, Signal, CanSend
  <2> QED BY <1>1, <2>1
<1>9. ASSUME NEW p \in Procs, NEW n \in 1 .. MaxCount, ReadCall(p, n) \/ WriteCall(p, n)
      PROVE  WakeAtZero'
  <2>1. UNCHANGED value /\ \A q \in Procs : pc'[q] = "w_wake" => pc[q] = "w_wake"
    BY <1>0, <1>9 DEF ReadCall, WriteCall
  <2> QED BY <1>1, <2>1
<1>10. ASSUME NEW p \in Procs, NEW e \in Ends, Close(p, e) PROVE WakeAtZero'
  BY <1>1, <1>10 DEF Close
<1>11. ASSUME NEW p \in Procs, NEW q \in Procs, Clone(p, q) PROVE WakeAtZero'
  <2>1. UNCHANGED value /\ \A r \in Procs : pc'[r] = "w_wake" => pc[r] = "w_wake"
    BY <1>0, <1>11 DEF Clone
  <2> QED BY <1>1, <2>1
<1>12. CASE UNCHANGED vars
  BY <1>1, <1>12 DEF vars
<1> QED
  BY <1>2, <1>3, <1>4, <1>5, <1>6, <1>7, <1>8, <1>9, <1>10, <1>11, <1>12, <1>13, NextActs
     DEF Acts, Idles

LEMMA CountedStep ==
    ASSUME TypeOK, SleepersMatch, OneHart, Signals = {}, [Next]_vars
    PROVE  NoneKilled' /\ Counted'
<1>1. /\ value \in Int /\ N("blocked") \in Nat /\ N("waking") \in Nat
      /\ N("blocked") - N("waking") = IF value < 0 THEN -value ELSE 0
  BY NTypes DEF TypeOK, OneHart, Counted
<1>2. \A p \in Procs : ~WriteWakeupMiss(p)
  BY <1>1, WakeupFinds DEF WriteWakeupMiss, OneHart
<1>3. /\ \/ Shifts(0, 0, 0)
         \/ value > 0 /\ Shifts(-1, 0, 0)
         \/ value <= 0 /\ Shifts(-1, 1, 0)
         \/ value >= 0 /\ Shifts(1, 0, 0)
         \/ value < 0 /\ Shifts(1, 0, 1)
         \/ Shifts(0, -1, -1)
      /\ NoneKilled'
  BY <1>2, Shifting DEF OneHart
<1> QED BY <1>1, <1>3 DEF Shifts, Counted

LEMMA NoKillingStep ==
    ASSUME TypeOK, NoKilling, Signals = {}, [Next]_vars PROVE NoKilling'
<1> SUFFICES ASSUME NEW r \in Procs, pc'[r] \in Killing PROVE FALSE
  BY DEF NoKilling
<1> QED BY KillingStep DEF NoKilling, Killing, KillTest, KillLock, KillsRunner, Sends, Kill, Signal

LEMMA OneHartStep ==
    ASSUME HartNum = 1, Signals = {}, IInv, OneHart, [Next]_vars PROVE OneHart'
BY AloneStep, WakeAtZeroStep, CountedStep, NoKillingStep DEF IInv, OneHart

LEMMA OneHartInit == Init => OneHart
<1> SUFFICES ASSUME Init PROVE OneHart
  OBVIOUS
<1>1. Alone /\ NoneKilled /\ NoKilling /\ WakeAtZero
  BY DEF Init, Alone, OnHart, OffHart, NoneKilled, NoKilling, Killing, WakeAtZero
<1>2. ASSUME NEW x \in {"blocked", "waking"} PROVE N(x) = 0
  <2>1. {p \in Procs : Stage[p] = x} = {}
    BY DEF Stage, Init
  <2> QED BY <2>1, FS_EmptySet DEF N, Count
<1>3. Counted
  BY <1>2 DEF Counted, Init
<1> QED BY <1>1, <1>3 DEF OneHart

(* With the balance of the credits: the bytes that no reader has been given  *)
(* lie in the semaphore, unless a reader sleeps, and then there are none.    *)
LEMMA FreeBytes ==
    ASSUME IInv, OneHart, intact
    PROVE  /\ Blocked # {} => Unread = Cardinality(Passed) + Cardinality(Posting)
                                         + Cardinality(Waking)
           /\ Passed = {} /\ Posting = {} /\ Waking = {} =>
                 IF Blocked = {} THEN Unread = value ELSE Unread = 0
<1>1. /\ Cardinality(Blocked) = N("blocked")
      /\ Cardinality(Passed) = N("doomed") + N("granted")
      /\ Cardinality(Posting) = N("posting") /\ Cardinality(Waking) = N("waking")
  <2>1. Waking = {p \in Procs : Stage[p] = "waking"}
    BY DEF Waking, Stage
  <2> QED BY <2>1, CountsOfSets DEF N, Count
<1>2. /\ Unread = value + N("blocked") + N("doomed") + N("granted") + N("posting")
      /\ value \in Int /\ lost = 0
      /\ N("blocked") - N("waking") = IF value < 0 THEN -value ELSE 0
  BY NTypes, SMTT(60) DEF IInv, TypeOK, CreditInv, Balance, OneHart, NoneKilled, Counted
<1>3. IsFiniteSet(Blocked) /\ IsFiniteSet(Waking)
  <2>1. Blocked \subseteq Procs /\ Waking \subseteq Procs
    BY DEF Blocked, Waking
  <2> QED BY <2>1, FS_Subset
<1>4. Blocked # {} => N("blocked") # 0
  BY <1>1, <1>3, FS_EmptySet
<1>5. Waking # {} => value <= 0
  BY DEF Waking, OneHart, WakeAtZero
<1>6. Blocked = {} => N("blocked") = 0
  BY <1>1, FS_EmptySet
<1>7. /\ Waking = {} => N("waking") = 0
      /\ Posting = {} => N("posting") = 0
      /\ Passed = {} => N("doomed") + N("granted") = 0
  BY <1>1, FS_EmptySet
<1>8. ASSUME Blocked # {}
      PROVE  Unread = Cardinality(Passed) + Cardinality(Posting) + Cardinality(Waking)
  <2>1. value <= 0
    <3>1. CASE Waking = {}
      BY <1>2, <1>4, <1>7, <1>8, <3>1, NTypes
    <3> QED BY <1>5, <3>1
  <2> QED BY <1>1, <1>2, <2>1, NTypes
<1>9. ASSUME Passed = {}, Posting = {}, Waking = {}
      PROVE  IF Blocked = {} THEN Unread = value ELSE Unread = 0
  <2>1. CASE Blocked = {}
    BY <1>2, <1>6, <1>7, <1>9, <2>1, NTypes
  <2>2. CASE Blocked # {}
    BY <1>1, <1>7, <1>8, <1>9, <2>2, NTypes
  <2> QED BY <2>1, <2>2
<1> QED BY <1>8, <1>9

LEMMA ServedFromInv == IInv /\ OneHart => SpokenFor /\ EndAtOnce
<1> SUFFICES ASSUME IInv, OneHart PROVE SpokenFor /\ EndAtOnce
  OBVIOUS
<1>1. SpokenFor
  BY FreeBytes DEF SpokenFor
<1>2. ASSUME NEW p \in Procs, intact, pc[p] = "r_test", w_ref = 0, Passed = {},
             ~NothingLeft
      PROVE  value > 0
  <2>1. Posting = {} /\ Waking = {}
    BY <1>2 DEF OneHart, Alone, OnHart, OffHart, Posting, Waking
  <2>2. r_pos # w_pos
    BY <1>2 DEF NothingLeft
  <2>3. Unread \in 0 .. Size - 1 /\ w_pos = Wrap(r_pos + Unread) /\ r_pos \in Slots
    BY <1>2 DEF IInv, Ring, TypeOK
  <2>4. Unread # 0
    BY <2>2, <2>3 DEF Wrap, Slots
  <2>5. Unread = value
    BY <1>2, <2>1, <2>4, FreeBytes
  <2> QED BY <2>3, <2>4, <2>5
<1> QED BY <1>1, <1>2 DEF EndAtOnce

(* PipeServesSleepers: on one hart and without signals a reader never sleeps *)
(* on a byte that nobody is about to get, and the last reads never block:    *)
(* why SleeperServed and EndReached hold there.                              *)
THEOREM PipeServesSleepers ==
    HartNum = 1 /\ Signals = {} => (Spec => [](SpokenFor /\ EndAtOnce))
<1> SUFFICES ASSUME HartNum = 1, Signals = {} PROVE Spec => [](SpokenFor /\ EndAtOnce)
  OBVIOUS
<1>1. IInv /\ OneHart /\ [Next]_vars => OneHart'
  BY OneHartStep
<1>2. Spec => [](IInv /\ OneHart)
  BY <1>1, Invariant, OneHartInit, PTL DEF Spec
<1> QED BY <1>2, ServedFromInv, PTL
=============================================================================
