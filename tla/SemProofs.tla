----------------------------- MODULE SemProofs -----------------------------
(***************************************************************************)
(* P, V, sleep and wakeup implement a counting semaphore.  Every step of   *)
(* the scheduler does one of seven things to the semaphores (SemStep); the *)
(* credit invariant and the refinement follow from these seven.            *)
(***************************************************************************)
EXTENDS SchedProofs, FiniteSetTheorems

USE HartsAssumption, ProcsAssumption, SemsAssumption
USE DEF AddAfter, AddBefore, DelList, AtEnd, LeaveProcess, Available, MakeReady

SemLabels == {"sleep", "wakeup", "wakeup_scan"}

Same(s) == Waiters(s)' = Waiters(s) /\ Wakers(s)' = Wakers(s)
SameBut(s) == \A t \in Sems \ {s} : Same(t) /\ value'[t] = value[t]

Quiet == value' = value /\ \A s \in Sems : Same(s)
Posts(s) ==
    /\ value[s] >= 0 /\ value'[s] = value[s] + 1
    /\ Same(s) /\ SameBut(s)
Passes(s) ==
    /\ value[s] > 0 /\ value'[s] = value[s] - 1
    /\ Same(s) /\ SameBut(s)
Blocks(p, s) ==
    /\ \A t \in Sems : p \notin Waiters(t)
    /\ value[s] <= 0 /\ value'[s] = value[s] - 1
    /\ Waiters(s)' = Waiters(s) \cup {p} /\ Wakers(s)' = Wakers(s)
    /\ SameBut(s)
Wakes(h, s) ==
    /\ h \notin Wakers(s)
    /\ value[s] < 0 /\ value'[s] = value[s] + 1
    /\ Waiters(s)' = Waiters(s) /\ Wakers(s)' = Wakers(s) \cup {h}
    /\ SameBut(s)
Hits(h, p, s) ==
    /\ h \in Wakers(s) /\ p \in Waiters(s)
    /\ value'[s] = value[s]
    /\ Waiters(s)' = Waiters(s) \ {p} /\ Wakers(s)' = Wakers(s) \ {h}
    /\ SameBut(s)
Misses(h, s) ==
    /\ h \in Wakers(s)
    /\ value'[s] = value[s]
    /\ Waiters(s)' = Waiters(s) /\ Wakers(s)' = Wakers(s) \ {h}
    /\ SameBut(s)

(* A step of one hart that neither starts nor ends in sleep or wakeup       *)
(* changes no set of waiters or wakers.                                     *)
LEMMA QuietSets ==
    ASSUME TypeOK, NEW h \in Harts, UNCHANGED data,
           pc[h] \notin SemLabels, pc'[h] \notin SemLabels,
           \A g \in Harts \ {h} :
               pc'[g] = pc[g] /\ cur'[g] = cur[g] /\ sem'[g] = sem[g]
    PROVE  \A s \in Sems : Same(s)
<1> SUFFICES ASSUME NEW s \in Sems PROVE Same(s)
  OBVIOUS
<1> USE DEF SemLabels
<1>1. ASSUME NEW g \in Harts, NEW p \in Procs
      PROVE  (pc'[g] = "sleep" /\ cur'[g] = p /\ sem'[g] = s)
                <=> (pc[g] = "sleep" /\ cur[g] = p /\ sem[g] = s)
  BY <1>1
<1>2. Waiters(s)' = Waiters(s)
  BY <1>1 DEF Waiters
<1>3. ASSUME NEW g \in Harts
      PROVE  (pc'[g] \in {"wakeup", "wakeup_scan"} /\ sem'[g] = s)
                <=> (pc[g] \in {"wakeup", "wakeup_scan"} /\ sem[g] = s)
  BY <1>3
<1>4. Wakers(s)' = Wakers(s)
  BY <1>3 DEF Wakers
<1> QED BY <1>2, <1>4 DEF Same

(* A process that runs code waits for no semaphore, unless it is about to   *)
(* enter sleep.                                                             *)
LEMMA RunnerWaitsNot ==
    ASSUME IInv, NEW h \in Harts, pc[h] \in OwnerLabels \ {"move", "sleep"},
           NEW s \in Sems
    PROVE  cur[h] \in Procs /\ cur[h] \notin Waiters(s)
<1>0. TypeOK /\ Ownership /\ StatusMatches
  BY DEF IInv
<1>1. cur[h] \in Procs /\ status[cur[h]] \in {"RUN", "READY"} /\ Holds(h, cur[h])
  BY <1>0 DEF TypeOK, StatusMatches, Holds
<1>2. data[cur[h]] # s
  BY <1>0, <1>1 DEF StatusMatches
<1>3. ASSUME NEW g \in Harts, pc[g] = "sleep", cur[g] = cur[h] PROVE FALSE
  <2>1. Holds(g, cur[h])
    BY <1>1, <1>3 DEF Holds, OwnerLabels
  <2>2. g = h
    BY <1>0, <1>1, <2>1 DEF Ownership
  <2> QED BY <1>3, <2>2
<1> QED BY <1>1, <1>2, <1>3 DEF Waiters

(* P that gets through.                                                     *)
LEMMA PassStep ==
    ASSUME IInv, NEW h \in Harts, NEW s \in Sems, PPass(h, s)
    PROVE  Passes(s)
<1>1. /\ pc[h] \in {"user", "kernel"} /\ pc' = [pc EXCEPT ![h] = "kernel"]
      /\ value[s] > 0 /\ value' = [value EXCEPT ![s] = value[s] - 1]
      /\ UNCHANGED <<data, cur, sem>>
  BY DEF PPass, InSyscall, Goto, procVars
<1>2. \A t \in Sems : Same(t)
  BY <1>1, QuietSets DEF IInv, TypeOK, SemLabels
<1> QED BY <1>1, <1>2 DEF Passes, SameBut, IInv, TypeOK

(* V that finds no waiter.                                                  *)
LEMMA PostStep ==
    ASSUME IInv, NEW h \in Harts, NEW s \in Sems, VPost(h, s)
    PROVE  Posts(s)
<1>1. /\ pc[h] \in {"user", "kernel"} /\ pc' = [pc EXCEPT ![h] = "kernel"]
      /\ value[s] >= 0 /\ value' = [value EXCEPT ![s] = value[s] + 1]
      /\ UNCHANGED <<data, cur, sem>>
  BY DEF VPost, CanV, InSyscall, Goto, procVars
<1>2. \A t \in Sems : Same(t)
  BY <1>1, QuietSets DEF IInv, TypeOK, SemLabels
<1> QED BY <1>1, <1>2 DEF Posts, SameBut, IInv, TypeOK

(* P that turns its process away.                                           *)
LEMMA BlockStep ==
    ASSUME IInv, NEW h \in Harts, NEW s \in Sems, PBlock(h, s)
    PROVE  cur[h] \in Procs /\ Blocks(cur[h], s)
<1>0. TypeOK
  BY DEF IInv
<1>1. /\ pc[h] \in {"user", "kernel"} /\ pc' = [pc EXCEPT ![h] = "sleep"]
      /\ ~(value[s] > 0) /\ value' = [value EXCEPT ![s] = value[s] - 1]
      /\ UNCHANGED <<data, cur>> /\ sem' = [sem EXCEPT ![h] = s]
  BY DEF PBlock, InSyscall, Goto, procVars
<1>2. cur[h] \in Procs /\ \A t \in Sems : cur[h] \notin Waiters(t)
  BY <1>1, RunnerWaitsNot DEF OwnerLabels
<1>3. ASSUME NEW g \in Harts, NEW p \in Procs, NEW t \in Sems
      PROVE  (pc'[g] = "sleep" /\ cur'[g] = p /\ sem'[g] = t)
                <=> \/ pc[g] = "sleep" /\ cur[g] = p /\ sem[g] = t
                    \/ g = h /\ p = cur[h] /\ t = s
  BY <1>0, <1>1, <1>2 DEF TypeOK
<1>4. Waiters(s)' = Waiters(s) \cup {cur[h]}
  BY <1>1, <1>2, <1>3 DEF Waiters
<1>5. \A t \in Sems \ {s} : Waiters(t)' = Waiters(t)
  BY <1>1, <1>3 DEF Waiters
<1>6. \A t \in Sems : Wakers(t)' = Wakers(t)
  BY <1>0, <1>1 DEF Wakers, TypeOK
<1> QED
  BY <1>0, <1>1, <1>2, <1>4, <1>5, <1>6 DEF Blocks, SameBut, Same, TypeOK

(* V that has a waiter to wake.                                             *)
LEMMA WakeStep ==
    ASSUME IInv, NEW h \in Harts, NEW s \in Sems, VWake(h, s)
    PROVE  Wakes(h, s)
<1>0. TypeOK
  BY DEF IInv
<1>1. /\ pc[h] \in {"user", "kernel"} /\ pc' = [pc EXCEPT ![h] = "wakeup"]
      /\ value[s] < 0 /\ value' = [value EXCEPT ![s] = value[s] + 1]
      /\ UNCHANGED <<data, cur>> /\ sem' = [sem EXCEPT ![h] = s]
  BY DEF VWake, CanV, InSyscall, Goto, procVars
<1>2. \A t \in Sems : Waiters(t)' = Waiters(t)
  BY <1>0, <1>1 DEF Waiters, TypeOK
<1>3. Wakers(s)' = Wakers(s) \cup {h} /\ h \notin Wakers(s)
  BY <1>0, <1>1 DEF Wakers, TypeOK
<1>4. \A t \in Sems \ {s} : Wakers(t)' = Wakers(t)
  BY <1>0, <1>1 DEF Wakers, TypeOK
<1> QED
  BY <1>0, <1>1, <1>2, <1>3, <1>4 DEF Wakes, SameBut, Same, TypeOK

(* sleep() moves its process from "about to sleep" to its channel.          *)
LEMMA SleepStep ==
    ASSUME IInv, NEW h \in Harts, SleepOn(h)
    PROVE  Quiet
<1>0. TypeOK /\ Ownership /\ StatusMatches
  BY DEF IInv
<1>1. /\ pc[h] = "sleep" /\ pc' = [pc EXCEPT ![h] = "move"]
      /\ UNCHANGED <<value, cur>> /\ sem' = [sem EXCEPT ![h] = NoSem]
      /\ data' = [data EXCEPT ![cur[h]] = sem[h]]
      /\ cur[h] \in Procs /\ sem[h] \in Sems
  BY <1>0 DEF SleepOn, GiveUp, Goto, TypeOK, OwnerLabels
<1>2. data[cur[h]] \notin Sems
  BY <1>0, <1>1 DEF StatusMatches, OwnerLabels
<1>3. ASSUME NEW g \in Harts, pc[g] = "sleep", cur[g] = cur[h] PROVE g = h
  <2>1. Holds(g, cur[h]) /\ Holds(h, cur[h])
    BY <1>1, <1>3 DEF Holds, OwnerLabels
  <2> QED BY <1>0, <1>1, <2>1 DEF Ownership
<1>4. ASSUME NEW s \in Sems, NEW p \in Procs
      PROVE  p \in Waiters(s)' <=> p \in Waiters(s)
  <2>1. CASE p = cur[h]
    <3>1. p \in Waiters(s)' <=> sem[h] = s
      BY <1>0, <1>1, <1>3, <2>1 DEF Waiters, TypeOK
    <3>2. p \in Waiters(s) <=> sem[h] = s
      BY <1>1, <1>2, <1>3, <2>1 DEF Waiters
    <3> QED BY <3>1, <3>2
  <2>2. CASE p # cur[h]
    <3>1. data'[p] = data[p]
      BY <1>0, <1>1, <2>2 DEF TypeOK
    <3>2. ASSUME NEW g \in Harts
          PROVE  (pc'[g] = "sleep" /\ cur'[g] = p /\ sem'[g] = s)
                    <=> (pc[g] = "sleep" /\ cur[g] = p /\ sem[g] = s)
      BY <1>0, <1>1, <2>2 DEF TypeOK
    <3> QED BY <3>1, <3>2 DEF Waiters
  <2> QED BY <2>1, <2>2
<1>5. \A s \in Sems : Waiters(s)' = Waiters(s)
  BY <1>4 DEF Waiters
<1>6. \A s \in Sems : Wakers(s)' = Wakers(s)
  BY <1>0, <1>1 DEF Wakers, TypeOK
<1> QED BY <1>1, <1>5, <1>6 DEF Quiet, Same

(* The end of wakeup(): one waker less.                                     *)
LEMMA WakerLeaves ==
    ASSUME TypeOK, NEW h \in Harts, NEW s \in Sems, sem[h] = s,
           pc[h] = "wakeup_scan", pc' = [pc EXCEPT ![h] = "kernel"],
           sem' = [sem EXCEPT ![h] = NoSem]
    PROVE  /\ h \in Wakers(s) /\ Wakers(s)' = Wakers(s) \ {h}
           /\ \A t \in Sems \ {s} : Wakers(t)' = Wakers(t)
<1>1. ASSUME NEW g \in Harts, NEW t \in Sems
      PROVE  g \in Wakers(t)' <=> g \in Wakers(t) /\ g # h
  BY DEF Wakers, TypeOK
<1>2. h \in Wakers(s) /\ \A t \in Sems \ {s} : h \notin Wakers(t)
  BY DEF Wakers
<1>3. \A t \in Sems : Wakers(t) \subseteq Harts /\ Wakers(t)' \subseteq Harts
  BY DEF Wakers
<1>4. Wakers(s)' = Wakers(s) \ {h}
  <2>1. \A g \in Harts : g \in Wakers(s)' <=> g \in Wakers(s) /\ g # h
    BY <1>1
  <2>2. Wakers(s) \subseteq Harts /\ Wakers(s)' \subseteq Harts
    BY <1>3
  <2> QED BY <2>1, <2>2
<1>5. ASSUME NEW t \in Sems \ {s} PROVE Wakers(t)' = Wakers(t)
  <2>1. \A g \in Harts : g \in Wakers(t)' <=> g \in Wakers(t)
    BY <1>1, <1>2
  <2>2. Wakers(t) \subseteq Harts /\ Wakers(t)' \subseteq Harts
    BY <1>3
  <2> QED BY <2>1, <2>2
<1> QED BY <1>2, <1>4, <1>5

(* wakeup() that finds a process, and wakeup() that finds none.             *)
LEMMA HitStep ==
    ASSUME IInv, NEW h \in Harts, WakeupHit(h)
    PROVE  \E p \in Procs, s \in Sems : Hits(h, p, s)
<1>0. TypeOK /\ Ownership
  BY DEF IInv
<1>p. /\ sleeping[cursor[h]] \in Procs /\ sleeping[cursor[h]] \in Range(sleeping)
      /\ sem[h] \in Sems
  BY <1>0 DEF WakeupHit, TypeOK, Range
<1>q. PICK p \in Procs, s \in Sems : p = sleeping[cursor[h]] /\ s = sem[h]
  BY <1>p
<1>1. /\ pc[h] = "wakeup_scan" /\ pc' = [pc EXCEPT ![h] = "kernel"]
      /\ UNCHANGED <<value, cur>> /\ sem' = [sem EXCEPT ![h] = NoSem]
      /\ data[p] = s /\ data' = [data EXCEPT ![p] = NoSem]
      /\ sem[h] = s /\ p \in Range(sleeping)
  BY <1>p, <1>q DEF WakeupHit, WakeupDone, Goto
<1>2. ASSUME NEW g \in Harts, pc[g] = "sleep", cur[g] = p PROVE FALSE
  <2>1. Holds(g, p) /\ OnList(p)
    BY <1>1, <1>2 DEF Holds, OnList, OwnerLabels
  <2> QED BY <1>0, <1>1, <2>1 DEF Ownership
<1>3. ASSUME NEW t \in Sems, NEW q \in Procs
      PROVE  q \in Waiters(t)' <=> q \in Waiters(t) /\ q # p
  <2>1. \A g \in Harts : (pc'[g] = "sleep" /\ cur'[g] = q /\ sem'[g] = t)
                    <=> (pc[g] = "sleep" /\ cur[g] = q /\ sem[g] = t)
    BY <1>0, <1>1 DEF TypeOK
  <2>2. data'[q] = IF q = p THEN NoSem ELSE data[q]
    BY <1>0, <1>1 DEF TypeOK
  <2> QED BY <1>2, <2>1, <2>2 DEF Waiters
<1>4. p \in Waiters(s) /\ \A t \in Sems \ {s} : p \notin Waiters(t)
  BY <1>1, <1>2 DEF Waiters
<1>5. /\ Waiters(s)' = Waiters(s) \ {p}
      /\ \A t \in Sems \ {s} : Waiters(t)' = Waiters(t)
  <2>1. \A t \in Sems : Waiters(t) \subseteq Procs /\ Waiters(t)' \subseteq Procs
    BY DEF Waiters
  <2> QED BY <1>3, <1>4, <2>1
<1>6. /\ h \in Wakers(s) /\ Wakers(s)' = Wakers(s) \ {h}
      /\ \A t \in Sems \ {s} : Wakers(t)' = Wakers(t)
  BY <1>0, <1>1, WakerLeaves
<1>7. Hits(h, p, s)
  BY <1>1, <1>4, <1>5, <1>6 DEF Hits, SameBut, Same
<1> QED BY <1>7

(* The second case: the waiter of this V has not reached sleep_list yet.    *)
LEMMA MissStep ==
    ASSUME IInv, NEW h \in Harts, WakeupMiss(h)
    PROVE  \E s \in Sems : Misses(h, s)
<1>0. TypeOK
  BY DEF IInv
<1>p. sem[h] \in Sems
  BY <1>0 DEF WakeupMiss, TypeOK
<1>q. PICK s \in Sems : s = sem[h]
  BY <1>p
<1>1. /\ pc[h] = "wakeup_scan" /\ pc' = [pc EXCEPT ![h] = "kernel"]
      /\ UNCHANGED <<value, cur, data>> /\ sem' = [sem EXCEPT ![h] = NoSem]
      /\ sem[h] = s
  BY <1>q DEF WakeupMiss, WakeupDone, Goto, procVars
<1>2. \A t \in Sems : Waiters(t)' = Waiters(t)
  BY <1>0, <1>1 DEF Waiters, TypeOK
<1>3. /\ h \in Wakers(s) /\ Wakers(s)' = Wakers(s) \ {h}
      /\ \A t \in Sems \ {s} : Wakers(t)' = Wakers(t)
  BY <1>0, <1>1, WakerLeaves
<1>4. Misses(h, s)
  BY <1>1, <1>2, <1>3 DEF Misses, SameBut, Same
<1> QED BY <1>4

(* Every step of the scheduler does one of seven things to the semaphores.  *)
LEMMA SemStep ==
    ASSUME IInv, [Next]_vars
    PROVE  \/ Quiet
           \/ \E s \in Sems : Posts(s) \/ Passes(s)
           \/ \E p \in Procs, s \in Sems : Blocks(p, s)
           \/ \E h \in Harts, s \in Sems : Wakes(h, s) \/ (WakeupMiss(h) /\ Misses(h, s))
           \/ \E h \in Harts, p \in Procs, s \in Sems : Hits(h, p, s)
<1>0. TypeOK
  BY DEF IInv
<1>1. ASSUME NEW h \in Harts,
             \/ Pick(h) \/ MoveToList(h) \/ SwitchOut(h) \/ SwitchWild(h)
             \/ NoTick(h) \/ Tick(h) \/ WaitScanBegin(h) \/ WaitScanEnd(h)
             \/ SliceSpent(h) \/ SliceLeft(h) \/ Yield(h) \/ Nanosleep(h)
             \/ TimerTrap(h) \/ HandlerReturns(h) \/ \E p \in Procs : Clone(h, p)
             \/ Execve(h) \/ Times(h) \/ Hang(h)
      PROVE  Quiet
  <2>1. /\ UNCHANGED <<value, data, sem>>
        /\ cur' = cur \/ cur' = [cur EXCEPT ![h] = NoProc]
        /\ pc[h] \notin SemLabels
        /\ \E l \in Labels \ SemLabels : pc' = [pc EXCEPT ![h] = l]
    BY <1>1 DEF Pick, MoveToList, SwitchOut, SwitchWild, NoTick, Tick,
       WaitScanBegin, WaitScanEnd, SliceSpent, SliceLeft, Yield, Nanosleep,
       TimerTrap, HandlerReturns, Clone, Execve, Times, Hang, GiveUp, Goto,
       SemLabels, Labels,
       procVars, listVars
  <2>2. PICK l \in Labels \ SemLabels : pc' = [pc EXCEPT ![h] = l]
    BY <2>1
  <2>3. pc'[h] \notin SemLabels
    BY <1>0, <2>2 DEF TypeOK
  <2>4. \A g \in Harts \ {h} :
            pc'[g] = pc[g] /\ cur'[g] = cur[g] /\ sem'[g] = sem[g]
    BY <1>0, <2>1, <2>2 DEF TypeOK
  <2>5. \A s \in Sems : Same(s)
    BY <1>0, <2>1, <2>3, <2>4, QuietSets
  <2> QED BY <2>1, <2>5 DEF Quiet
<1>2. ASSUME NEW h \in Harts, Dispatch(h) PROVE Quiet
  <2>1. /\ UNCHANGED <<value, data, sem>> /\ pc[h] = "dispatch"
        /\ picked[h] \in Procs /\ cur' = [cur EXCEPT ![h] = picked[h]]
        /\ pc' = [pc EXCEPT ![h] = resume[picked[h]]]
    BY <1>0, <1>2 DEF Dispatch, Goto, TypeOK
  <2>2. resume[picked[h]] \in {"user", "kernel", "tick"}
    BY <1>0, <2>1 DEF TypeOK
  <2>3. pc[h] \notin SemLabels /\ pc'[h] \notin SemLabels
    BY <1>0, <2>1, <2>2 DEF TypeOK, SemLabels
  <2>4. \A g \in Harts \ {h} :
            pc'[g] = pc[g] /\ cur'[g] = cur[g] /\ sem'[g] = sem[g]
    BY <1>0, <2>1 DEF TypeOK
  <2>5. \A s \in Sems : Same(s)
    BY <1>0, <2>1, <2>3, <2>4, QuietSets
  <2> QED BY <2>1, <2>5 DEF Quiet
<1>3. ASSUME NEW h \in Harts, WakeupBegin(h) PROVE Quiet
  <2>1. /\ UNCHANGED <<value, data, sem, cur>> /\ pc[h] = "wakeup"
        /\ pc' = [pc EXCEPT ![h] = "wakeup_scan"]
    BY <1>3 DEF WakeupBegin, Goto, procVars
  <2>2. \A s \in Sems : Waiters(s)' = Waiters(s)
    BY <1>0, <2>1 DEF Waiters, TypeOK
  <2>3. \A s \in Sems : Wakers(s)' = Wakers(s)
    BY <1>0, <2>1 DEF Wakers, TypeOK
  <2> QED BY <2>1, <2>2, <2>3 DEF Quiet, Same
<1>4. ASSUME UNCHANGED <<value, data, sem, cur, pc>> PROVE Quiet
  BY <1>4 DEF Quiet, Same, Waiters, Wakers
<1>5. ASSUME NEW h \in Harts, WakeupSkip(h) \/ WaitScan(h) PROVE Quiet
  BY <1>4, <1>5 DEF WakeupSkip, WaitScan, procVars
<1>6. ASSUME NEW p \in Procs, DeadlinePasses(p) PROVE Quiet
  BY <1>4, <1>6 DEF DeadlinePasses, hartVars
<1>7. CASE UNCHANGED vars
  BY <1>4, <1>7 DEF vars
<1>8. ASSUME NEW h \in Harts, SleepOn(h) PROVE Quiet
  BY <1>8, SleepStep
<1>9. ASSUME NEW h \in Harts, WakeupHit(h)
      PROVE  \E p \in Procs, s \in Sems : Hits(h, p, s)
  BY <1>9, HitStep
<1>10. ASSUME NEW h \in Harts, WakeupMiss(h)
       PROVE  \E s \in Sems : WakeupMiss(h) /\ Misses(h, s)
  BY <1>10, MissStep
<1>11. ASSUME NEW h \in Harts, NEW s \in Sems, PPass(h, s) PROVE Passes(s)
  BY <1>11, PassStep
<1>12. ASSUME NEW h \in Harts, NEW s \in Sems, VPost(h, s) PROVE Posts(s)
  BY <1>12, PostStep
<1>13. ASSUME NEW h \in Harts, NEW s \in Sems, PBlock(h, s)
       PROVE  \E p \in Procs : Blocks(p, s)
  BY <1>13, BlockStep
<1>14. ASSUME NEW h \in Harts, NEW s \in Sems, VWake(h, s) PROVE Wakes(h, s)
  BY <1>14, WakeStep
<1>15. ASSUME NEW h \in Harts, Spin(h) PROVE Quiet
  <2>1. UNCHANGED vars
    BY <1>15 DEF Spin
  <2> QED BY <1>4, <2>1 DEF vars
<1> QED
  BY <1>1, <1>2, <1>3, <1>5, <1>6, <1>7, <1>8, <1>9, <1>10, <1>11, <1>12,
     <1>13, <1>14, <1>15 DEF Next, Kernel, Program

-----------------------------------------------------------------------------
\* Credits

(* The waiters and the wakers of a semaphore are finitely many.             *)
LEMMA SetsFinite ==
    ASSUME NEW s \in Sems
    PROVE  /\ IsFiniteSet(Waiters(s)) /\ Cardinality(Waiters(s)) \in Nat
           /\ IsFiniteSet(Wakers(s)) /\ Cardinality(Wakers(s)) \in Nat
<1>1. Waiters(s) \in SUBSET Procs /\ Wakers(s) \in SUBSET Harts
  BY DEF Waiters, Wakers
<1>2. IsFiniteSet(Waiters(s)) /\ IsFiniteSet(Wakers(s))
  BY <1>1, FiniteAssumption, FS_Subset
<1> QED BY <1>2, FS_CardinalityType

(* What a step does to one semaphore, in numbers.                            *)
W(s) == Cardinality(Waiters(s))
K(s) == Cardinality(Wakers(s))
Moves(s, v, w, k) ==
    value'[s] = value[s] + v /\ W(s)' = W(s) + w /\ K(s)' = K(s) + k

LEMMA SemCounts ==
    ASSUME IInv, [Next]_vars, NEW t \in Sems
    PROVE  \/ Moves(t, 0, 0, 0)
           \/ value[t] >= 0 /\ Moves(t, 1, 0, 0)
           \/ value[t] > 0 /\ Moves(t, -1, 0, 0)
           \/ value[t] <= 0 /\ Moves(t, -1, 1, 0)
           \/ value[t] < 0 /\ Moves(t, 1, 0, 1)
           \/ Moves(t, 0, -1, -1)
           \/ (\E h \in Harts : WakeupMiss(h)) /\ Moves(t, 0, 0, -1)
<1>0. value[t] \in Int
  BY DEF IInv, TypeOK
<1>1. /\ IsFiniteSet(Waiters(t)) /\ W(t) \in Nat
      /\ IsFiniteSet(Wakers(t)) /\ K(t) \in Nat
  BY SetsFinite DEF W, K
<1>2. ASSUME Same(t), value'[t] = value[t] PROVE Moves(t, 0, 0, 0)
  <2>1. W(t)' = W(t) /\ K(t)' = K(t)
    BY <1>2 DEF Same, W, K
  <2> QED BY <1>0, <1>1, <1>2, <2>1 DEF Moves
<1>3. ASSUME NEW s \in Sems, SameBut(s), s # t PROVE Moves(t, 0, 0, 0)
  BY <1>2, <1>3 DEF SameBut
<1>4. CASE Quiet
  BY <1>2, <1>4 DEF Quiet
<1>5. CASE Posts(t) \/ Passes(t)
  <2>1. W(t)' = W(t) /\ K(t)' = K(t)
    BY <1>5 DEF Posts, Passes, Same, W, K
  <2>2. \/ value[t] >= 0 /\ value'[t] = value[t] + 1
        \/ value[t] > 0 /\ value'[t] = value[t] - 1
    BY <1>5 DEF Posts, Passes
  <2> QED BY <1>0, <1>1, <2>1, <2>2 DEF Moves
<1>6. ASSUME NEW p \in Procs, Blocks(p, t)
      PROVE  value[t] <= 0 /\ Moves(t, -1, 1, 0)
  <2>1. W(t)' = W(t) + 1 /\ K(t)' = K(t)
    BY <1>1, <1>6, FS_AddElement DEF Blocks, W, K
  <2> QED BY <1>0, <1>1, <1>6, <2>1 DEF Moves, Blocks
<1>7. ASSUME NEW h \in Harts, Wakes(h, t)
      PROVE  value[t] < 0 /\ Moves(t, 1, 0, 1)
  <2>1. W(t)' = W(t) /\ K(t)' = K(t) + 1
    BY <1>1, <1>7, FS_AddElement DEF Wakes, W, K
  <2> QED BY <1>0, <1>1, <1>7, <2>1 DEF Moves, Wakes
<1>8. ASSUME NEW h \in Harts, Misses(h, t) PROVE Moves(t, 0, 0, -1)
  <2>1. W(t)' = W(t) /\ K(t)' = K(t) - 1
    BY <1>1, <1>8, FS_RemoveElement DEF Misses, W, K
  <2> QED BY <1>0, <1>1, <1>8, <2>1 DEF Moves, Misses
<1>9. ASSUME NEW h \in Harts, NEW p \in Procs, Hits(h, p, t)
      PROVE  Moves(t, 0, -1, -1)
  <2>1. W(t)' = W(t) - 1 /\ K(t)' = K(t) - 1
    BY <1>1, <1>9, FS_RemoveElement, ZenonT(60) DEF Hits, W, K
  <2> QED BY <1>0, <1>1, <1>9, <2>1 DEF Moves, Hits
<1>10. \A s \in Sems : Posts(s) \/ Passes(s) => s = t \/ SameBut(s)
  BY DEF Posts, Passes
<1>11. \A s \in Sems, p \in Procs : Blocks(p, s) => s = t \/ SameBut(s)
  BY DEF Blocks
<1>12. \A s \in Sems, h \in Harts : Wakes(h, s) \/ Misses(h, s) => s = t \/ SameBut(s)
  BY DEF Wakes, Misses
<1>13. \A s \in Sems, h \in Harts, p \in Procs : Hits(h, p, s) => s = t \/ SameBut(s)
  BY DEF Hits
<1> QED
  BY SemStep, <1>3, <1>4, <1>5, <1>6, <1>7, <1>8, <1>9, <1>10, <1>11, <1>12, <1>13

(* Every step keeps every semaphore balanced.                               *)
LEMMA CreditStep ==
    ASSUME IInv, CreditNeverForged, [Next]_vars
    PROVE  CreditNeverForged'
<1> SUFFICES ASSUME NEW t \in Sems
             PROVE  W(t)' - K(t)' >= -value'[t] /\ W(t)' >= K(t)'
  BY DEF CreditNeverForged, W, K
<1>1. /\ value[t] \in Int /\ W(t) \in Nat /\ K(t) \in Nat
      /\ W(t) - K(t) >= -value[t] /\ W(t) >= K(t)
  BY SetsFinite DEF CreditNeverForged, IInv, TypeOK, W, K
<1> QED BY <1>1, SemCounts DEF Moves

(* The kernel starts with no waiter, no waker and no credit.                *)
LEMMA CreditInit == Init => CreditNeverForged
<1> SUFFICES ASSUME Init, NEW s \in Sems
             PROVE  /\ Cardinality(Waiters(s)) - Cardinality(Wakers(s)) >= -value[s]
                    /\ Cardinality(Waiters(s)) >= Cardinality(Wakers(s))
  BY DEF CreditNeverForged
<1>1. Waiters(s) = {} /\ Wakers(s) = {}
  BY DEF Init, Waiters, Wakers
<1> QED BY <1>1, FS_EmptySet DEF Init

(* Whatever the harts, processes and semaphores: a negative value never     *)
(* exceeds the waiters that no V has answered, and no V is about to wake a  *)
(* process when nobody waits.                                               *)
THEOREM CreditSafe == Spec => []CreditNeverForged
<1>1. IInv /\ CreditNeverForged /\ [Next]_vars => (IInv /\ CreditNeverForged)'
  BY StepIInv, CreditStep
<1>2. Init => IInv /\ CreditNeverForged
  BY InitIInv, CreditInit
<1>3. Spec => [](IInv /\ CreditNeverForged)
  BY <1>1, <1>2, PTL DEF Spec
<1> QED BY <1>3, PTL

-----------------------------------------------------------------------------
\* One hart

(* Every waiter that no V has answered is counted in a negative value: no    *)
(* wakeup is lost, and nobody waits while there is a credit to be had.       *)
NoWakeupLost ==
    \A s \in Sems : Cardinality(Waiters(s)) - Cardinality(Wakers(s))
                       = IF value[s] < 0 THEN -value[s] ELSE 0

(* On one hart wakeup() finds a process: the process that V counted is on    *)
(* sleep_list, since it has no hart to be on its way there, and the scan has *)
(* not passed it.                                                            *)
LEMMA WakeupFinds ==
    ASSUME IInv, ScanInv, CreditNeverForged, NEW h \in Harts, Harts = {h}
    PROVE  ~WakeupMiss(h)
<1> SUFFICES ASSUME WakeupMiss(h) PROVE FALSE
  OBVIOUS
<1>0. TypeOK /\ Ownership /\ StatusMatches
  BY DEF IInv
<1>1. /\ pc[h] = "wakeup_scan" /\ cursor[h] > Len(sleeping) /\ sem[h] \in Sems
      /\ status[cur[h]] \in {"RUN", "READY"}
  BY <1>0 DEF WakeupMiss, TypeOK, StatusMatches, OwnerLabels
<1>2. PICK s \in Sems : s = sem[h]
  BY <1>1
<1>3. Waiters(s) # {}
  <2>1. h \in Wakers(s)
    BY <1>1, <1>2 DEF Wakers
  <2>2. Cardinality(Wakers(s)) # 0
    BY <2>1, SetsFinite, FS_EmptySet
  <2>3. Cardinality(Waiters(s)) # 0
    BY <2>2, SetsFinite DEF CreditNeverForged
  <2> QED BY <2>3, FS_EmptySet
<1>4. PICK p \in Procs : data[p] = s
  BY <1>1, <1>3 DEF Waiters
<1>5. status[p] = "SLEEP"
  BY <1>0, <1>4 DEF StatusMatches
<1>6. ~Holds(h, p)
  BY <1>0, <1>1, <1>5 DEF Holds, TypeOK
<1>7. OnList(p)
  BY <1>0, <1>5, <1>6 DEF Ownership
<1>8. p \in Range(sleeping)
  BY <1>0, <1>5, <1>7 DEF OnList, StatusMatches
<1>9. PICK i \in DOMAIN sleeping : sleeping[i] = p
  BY <1>8 DEF Range
<1>10. i \in 1 .. Len(sleeping) /\ i < cursor[h]
  BY <1>0, <1>1, <1>9 DEF TypeOK
<1> QED BY <1>1, <1>2, <1>4, <1>9, <1>10 DEF ScanInv

(* So the balance is kept exactly.                                           *)
LEMMA ExactStep ==
    ASSUME IInv, ScanInv, CreditNeverForged, NoWakeupLost, [Next]_vars,
           NEW hart \in Harts, Harts = {hart}
    PROVE  NoWakeupLost'
<1> SUFFICES ASSUME NEW t \in Sems
             PROVE  W(t)' - K(t)' = IF value'[t] < 0 THEN -value'[t] ELSE 0
  BY DEF NoWakeupLost, W, K
<1>1. /\ value[t] \in Int /\ W(t) \in Nat /\ K(t) \in Nat
      /\ W(t) - K(t) = IF value[t] < 0 THEN -value[t] ELSE 0
  BY SetsFinite DEF NoWakeupLost, IInv, TypeOK, W, K
<1>2. \A h \in Harts : ~WakeupMiss(h)
  BY WakeupFinds
<1> QED BY <1>1, <1>2, SemCounts DEF Moves

(* On one hart P and V lose no wakeup, whatever the processes and            *)
(* semaphores: the window in P before sleep() needs a second hart.           *)
THEOREM OneHartNoWakeupLost ==
    Cardinality(Harts) = 1 => (Spec => []NoWakeupLost)
<1> SUFFICES ASSUME Cardinality(Harts) = 1 PROVE Spec => []NoWakeupLost
  OBVIOUS
<1>1. PICK hart \in Harts : Harts = {hart}
  BY FiniteAssumption, FS_Singleton
<1>2. IInv /\ ScanInv /\ CreditNeverForged /\ NoWakeupLost /\ [Next]_vars
        => NoWakeupLost'
  BY <1>1, ExactStep
<1>3. Init => NoWakeupLost
  <2> SUFFICES ASSUME Init, NEW s \in Sems
               PROVE  Cardinality(Waiters(s)) - Cardinality(Wakers(s))
                          = IF value[s] < 0 THEN -value[s] ELSE 0
    BY DEF NoWakeupLost
  <2>1. Waiters(s) = {} /\ Wakers(s) = {}
    BY DEF Init, Waiters, Wakers
  <2> QED BY <2>1, FS_EmptySet DEF Init
<1>4. Spec => [](IInv /\ ScanInv)
  <2>1. IInv /\ ScanInv /\ [Next]_vars => (IInv /\ ScanInv)'
    BY StepIInv, ScanStep
  <2>2. Init => IInv /\ ScanInv
    BY InitIInv, InitScan
  <2> QED BY <2>1, <2>2, PTL DEF Spec
<1> QED BY <1>2, <1>3, <1>4, CreditSafe, PTL DEF Spec

(* Nobody has jumped, or is about to jump, through the stack of a process    *)
(* that another hart runs: the second half of _move_switch is safe.          *)
StackOwned == stale = {} /\ \A h \in Harts : pc[h] # "wild"

LEMMA StackStep ==
    ASSUME IInv, StackOwned, [Next]_vars, NEW hart \in Harts, Harts = {hart}
    PROVE  StackOwned'
<1> USE DEF Goto, hartVars
<1>0. TypeOK
  BY DEF IInv
<1>1. ASSUME NEW h \in Harts, Dispatch(h) PROVE StackOwned'
  <2>1. pc[h] = "dispatch" /\ picked[h] \in Procs
    BY <1>0, <1>1 DEF Dispatch, TypeOK
  <2>2. {g \in Harts : pc[g] = "switch" /\ cur[g] = picked[h]} = {}
    BY <2>1
  <2>3. resume[picked[h]] \in {"user", "kernel", "tick"}
    BY <1>0, <2>1 DEF TypeOK
  <2>4. stale' = stale /\ pc' = [pc EXCEPT ![h] = resume[picked[h]]]
    BY <1>1, <2>2 DEF Dispatch
  <2> QED BY <1>0, <2>3, <2>4 DEF StackOwned, TypeOK
<1>2. ASSUME NEW h \in Harts, SwitchWild(h) PROVE FALSE
  BY <1>2 DEF SwitchWild, StackOwned
<1>3. ASSUME NEW h \in Harts, SwitchOut(h) PROVE StackOwned'
  BY <1>0, <1>3 DEF SwitchOut, StackOwned, TypeOK
<1>4. ASSUME UNCHANGED stale, pc' = pc \/ \E h \in Harts, l \in Labels \ {"wild"} : pc' = [pc EXCEPT ![h] = l]
      PROVE  StackOwned'
  BY <1>0, <1>4 DEF StackOwned, TypeOK
<1>5. ASSUME NEW h \in Harts, Kernel(h), ~Dispatch(h), ~SwitchWild(h), ~SwitchOut(h)
      PROVE  /\ UNCHANGED stale
             /\ pc' = pc \/ \E l \in Labels \ {"wild"} : pc' = [pc EXCEPT ![h] = l]
  BY <1>5 DEF Kernel, Pick, MoveToList, SleepOn, WakeupBegin, WakeupHit, WakeupSkip,
     WakeupMiss, WakeupDone, NoTick, Tick, WaitScanBegin, WaitScan, WaitScanEnd,
     SliceSpent, SliceLeft, GiveUp, Labels
<1>6. ASSUME NEW h \in Harts, Program(h)
      PROVE  /\ UNCHANGED stale
             /\ pc' = pc \/ \E l \in Labels \ {"wild"} : pc' = [pc EXCEPT ![h] = l]
  BY <1>6 DEF Program, PPass, PBlock, VPost, VWake, Clone, Yield, Nanosleep, TimerTrap,
     HandlerReturns, Execve, Times, Hang, Spin, vars, GiveUp, Labels
<1>7. ASSUME NEW p \in Procs, DeadlinePasses(p) PROVE UNCHANGED stale /\ pc' = pc
  BY <1>7 DEF DeadlinePasses
<1>8. CASE UNCHANGED vars
  BY <1>8 DEF vars, StackOwned
<1> QED BY <1>1, <1>2, <1>3, <1>4, <1>5, <1>6, <1>7, <1>8 DEF Next

(* On one hart no kernel stack is ever shared, so that what the liveness     *)
(* properties assume of the other harts holds by itself.                     *)
THEOREM OneHartStacksOwned ==
    Cardinality(Harts) = 1 => (Spec => []StackOwned)
<1> SUFFICES ASSUME Cardinality(Harts) = 1 PROVE Spec => []StackOwned
  OBVIOUS
<1>1. PICK hart \in Harts : Harts = {hart}
  BY FiniteAssumption, FS_Singleton
<1>2. IInv /\ StackOwned /\ [Next]_vars => StackOwned'
  BY <1>1, StackStep
<1>3. Init => StackOwned
  BY DEF Init, StackOwned
<1> QED BY <1>2, <1>3, Invariance, PTL DEF Spec

-----------------------------------------------------------------------------
\* The refinement

(* Every step of the scheduler is a step of the counting semaphores, or     *)
(* leaves them alone.                                                       *)
LEMMA AbstractStep ==
    ASSUME IInv, CreditNeverForged, [Next]_vars
    PROVE  [Abstract!Next]_(Abstract!vars)
<1> DEFINE credit == [s \in Sems |-> Credit(s)]
           waiting == [s \in Sems |-> Waiters(s)]
<1>0. \A s \in Sems :
        /\ value[s] \in Int
        /\ IsFiniteSet(Waiters(s)) /\ Cardinality(Waiters(s)) \in Nat
        /\ IsFiniteSet(Wakers(s)) /\ Cardinality(Wakers(s)) \in Nat
  BY SetsFinite DEF IInv, TypeOK
<1>1. ASSUME NEW s \in Sems, Same(s), value'[s] = value[s]
      PROVE  Credit(s)' = Credit(s) /\ Waiters(s)' = Waiters(s)
  BY <1>1 DEF Same, Credit
<1>2. CASE Quiet
  <2>1. \A s \in Sems : Credit(s)' = Credit(s) /\ Waiters(s)' = Waiters(s)
    BY <1>1, <1>2 DEF Quiet
  <2>2. credit' = credit /\ waiting' = waiting
    BY <2>1
  <2> QED BY <2>2 DEF Abstract!vars
<1>3. ASSUME NEW s \in Sems, Posts(s) PROVE Abstract!Post(s)
  <2>1. Credit(s)' = Credit(s) + 1 /\ Waiters(s)' = Waiters(s)
    BY <1>0, <1>3 DEF Posts, Same, Credit
  <2>2. \A t \in Sems \ {s} : Credit(t)' = Credit(t) /\ Waiters(t)' = Waiters(t)
    BY <1>1, <1>3 DEF Posts, SameBut
  <2>3. credit' = [credit EXCEPT ![s] = @ + 1] /\ waiting' = waiting
    BY <2>1, <2>2
  <2> QED BY <2>3 DEF Abstract!Post
<1>4. ASSUME NEW s \in Sems, Passes(s) PROVE Abstract!Pass(s)
  <2>1. /\ Credit(s)' = Credit(s) - 1 /\ Waiters(s)' = Waiters(s)
        /\ Credit(s) > 0
    BY <1>0, <1>4 DEF Passes, Same, Credit
  <2>2. \A t \in Sems \ {s} : Credit(t)' = Credit(t) /\ Waiters(t)' = Waiters(t)
    BY <1>1, <1>4 DEF Passes, SameBut
  <2>3. /\ credit' = [credit EXCEPT ![s] = @ - 1] /\ waiting' = waiting
        /\ credit[s] > 0
    BY <2>1, <2>2
  <2> QED BY <2>3 DEF Abstract!Pass
<1>5. ASSUME NEW s \in Sems, NEW p \in Procs, Blocks(p, s)
      PROVE  Abstract!TurnAway(p, s)
  <2>1. Cardinality(Waiters(s)') = Cardinality(Waiters(s)) + 1
    BY <1>0, <1>5, FS_AddElement DEF Blocks
  <2>2. Credit(s)' = Credit(s) /\ Waiters(s)' = Waiters(s) \cup {p}
    BY <1>0, <1>5, <2>1 DEF Blocks, Credit
  <2>3. \A t \in Sems \ {s} : Credit(t)' = Credit(t) /\ Waiters(t)' = Waiters(t)
    BY <1>1, <1>5 DEF Blocks, SameBut
  <2>4. /\ credit' = credit /\ waiting' = [waiting EXCEPT ![s] = @ \cup {p}]
        /\ \A t \in Sems : p \notin waiting[t]
    BY <1>5, <2>2, <2>3 DEF Blocks
  <2> QED BY <2>4 DEF Abstract!TurnAway
<1>6. ASSUME NEW s \in Sems, NEW h \in Harts, Wakes(h, s) PROVE Abstract!Post(s)
  <2>1. Credit(s)' = Credit(s) + 1 /\ Waiters(s)' = Waiters(s)
    BY <1>0, <1>6 DEF Wakes, Credit
  <2>2. \A t \in Sems \ {s} : Credit(t)' = Credit(t) /\ Waiters(t)' = Waiters(t)
    BY <1>1, <1>6 DEF Wakes, SameBut
  <2>3. credit' = [credit EXCEPT ![s] = @ + 1] /\ waiting' = waiting
    BY <2>1, <2>2
  <2> QED BY <2>3 DEF Abstract!Post
<1>7. ASSUME NEW s \in Sems, NEW h \in Harts, Misses(h, s)
      PROVE  UNCHANGED Abstract!vars
  <2>1. Credit(s)' = Credit(s) /\ Waiters(s)' = Waiters(s)
    BY <1>0, <1>7 DEF Misses, Credit
  <2>2. \A t \in Sems \ {s} : Credit(t)' = Credit(t) /\ Waiters(t)' = Waiters(t)
    BY <1>1, <1>7 DEF Misses, SameBut
  <2>3. credit' = credit /\ waiting' = waiting
    BY <2>1, <2>2
  <2> QED BY <2>3 DEF Abstract!vars
<1>8. ASSUME NEW s \in Sems, NEW h \in Harts, NEW p \in Procs, Hits(h, p, s)
      PROVE  Abstract!Grant(p, s)
  <2>1. Cardinality(Waiters(s)') = Cardinality(Waiters(s)) - 1
    BY <1>0, <1>8, FS_RemoveElement DEF Hits
  <2>2. Credit(s)' = Credit(s) - 1 /\ Waiters(s)' = Waiters(s) \ {p}
    BY <1>0, <1>8, <2>1 DEF Hits, Credit
  <2>3. Credit(s) > 0
    <3>1. Cardinality(Wakers(s)) # 0
      BY <1>0, <1>8, FS_EmptySet DEF Hits
    <3>2. Cardinality(Waiters(s)) - Cardinality(Wakers(s)) >= -value[s]
      BY DEF CreditNeverForged
    <3> QED BY <1>0, <3>1, <3>2 DEF Credit
  <2>4. \A t \in Sems \ {s} : Credit(t)' = Credit(t) /\ Waiters(t)' = Waiters(t)
    BY <1>1, <1>8 DEF Hits, SameBut
  <2>5. /\ credit' = [credit EXCEPT ![s] = @ - 1]
        /\ waiting' = [waiting EXCEPT ![s] = @ \ {p}]
        /\ p \in waiting[s] /\ credit[s] > 0
    BY <1>8, <2>2, <2>3, <2>4 DEF Hits
  <2> QED BY <2>5 DEF Abstract!Grant
<1> QED
  BY SemStep, <1>2, <1>3, <1>4, <1>5, <1>6, <1>7, <1>8 DEF Abstract!Next

(* At the start no semaphore has a credit or a waiter.                      *)
LEMMA AbstractInit == Init => Abstract!Init
<1> SUFFICES ASSUME Init PROVE Abstract!Init
  OBVIOUS
<1>1. ASSUME NEW s \in Sems PROVE Waiters(s) = {} /\ Credit(s) = 0
  <2>1. Waiters(s) = {}
    BY DEF Init, Waiters
  <2> QED BY <2>1, FS_EmptySet DEF Init, Credit
<1> QED BY <1>1 DEF Abstract!Init

(* P, V, sleep and wakeup implement the counting semaphore, for any number  *)
(* of harts, processes and semaphores.                                      *)
THEOREM SemaphoresImplemented == Spec => CountingSemaphores
<1>1. IInv /\ CreditNeverForged /\ [Next]_vars => [Abstract!Next]_(Abstract!vars)
  BY AbstractStep
<1>2. Spec => [](IInv /\ CreditNeverForged)
  BY Invariance, CreditSafe, PTL
<1> QED
  BY <1>1, <1>2, AbstractInit, PTL DEF Spec, CountingSemaphores, Abstract!Spec
=============================================================================
