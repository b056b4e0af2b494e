----------------------------- MODULE SchedProofs -----------------------------
EXTENDS Sched, ListLemmas, TLAPS

USE HartsAssumption, ProcsAssumption, SemsAssumption
USE DEF AddAfter, AddBefore, DelList, AtEnd, LeaveProcess, Available, MakeReady

(* Every step of the scheduler keeps the types.                             *)
LEMMA TypeStep == TypeOK /\ [Next]_vars => TypeOK'
<1> SUFFICES ASSUME TypeOK, [Next]_vars PROVE TypeOK'
  OBVIOUS
<1> USE DEF Labels, OwnerLabels, Goto, listVars, procVars, hartVars
<1>1. ASSUME NEW h \in Harts, Pick(h) PROVE TypeOK'
  <2> DEFINE i == IF Head(ready) = Idle /\ Len(ready) > 1 THEN 2 ELSE 1
  <2>1. i \in 1 .. Len(ready)
    BY <1>1 DEF Pick, TypeOK
  <2> HIDE DEF i
  <2>2. RemoveAt(ready, i) \in Seq(Procs) /\ ready[i] \in Procs
    BY <2>1, RemoveAtList DEF TypeOK
  <2>3. /\ ready' = RemoveAt(ready, i)
        /\ picked' = [picked EXCEPT ![h] = ready[i]]
        /\ due' \in {due \ {ready[i]}, due \cup {ready[i]}}
    BY <1>1 DEF Pick, i
  <2> QED BY <1>1, <2>2, <2>3 DEF Pick, TypeOK
<1>2. ASSUME NEW h \in Harts, Dispatch(h) PROVE TypeOK'
  BY <1>2 DEF Dispatch, TypeOK
<1>3. ASSUME NEW h \in Harts, MoveToList(h) PROVE TypeOK'
  BY <1>3 DEF MoveToList, TypeOK
<1>4. ASSUME NEW h \in Harts, WakeupHit(h) PROVE TypeOK'
  <2> DEFINE p == sleeping[cursor[h]]
  <2>1. cursor[h] \in 1 .. Len(sleeping)
    BY <1>4 DEF WakeupHit, TypeOK
  <2>2. RemoveAt(sleeping, cursor[h]) \in Seq(Procs) /\ p \in Procs
    BY <2>1, RemoveAtList DEF TypeOK
  <2>3. Cons(p, ready) \in Seq(Procs)
    BY <2>2, ConsList DEF TypeOK
  <2> QED BY <1>4, <2>2, <2>3 DEF WakeupHit, WakeupDone, TypeOK
<1>5. ASSUME NEW h \in Harts, WaitScan(h) PROVE TypeOK'
  <2> DEFINE i == cursor[h]
  <2>1. i \in 1 .. Len(wait) /\ i + 1 \in Nat \ {0}
    BY <1>5 DEF WaitScan, TypeOK
  <2>2. RemoveAt(wait, i) \in Seq(Procs) /\ wait[i] \in Procs
    BY <2>1, RemoveAtList DEF TypeOK
  <2>3. Append(ready, wait[i]) \in Seq(Procs)
    BY <2>2, AppendList DEF TypeOK
  <2>4. /\ wait' \in Seq(Procs) /\ ready' \in Seq(Procs)
        /\ cursor' \in [Harts -> Nat \ {0}]
    <3>1. CASE wait[i] \in due
      BY <1>5, <2>2, <2>3, <3>1 DEF WaitScan, TypeOK
    <3>2. CASE wait[i] \notin due
      <4>1. wait' = wait /\ ready' = ready /\ cursor' = [cursor EXCEPT ![h] = i + 1]
        BY <1>5, <3>2 DEF WaitScan
      <4>2. cursor' \in [Harts -> Nat \ {0}]
        BY <2>1, <4>1 DEF TypeOK
      <4> QED BY <4>1, <4>2 DEF TypeOK
    <3> QED BY <3>1, <3>2
  <2> QED BY <1>5, <2>4 DEF WaitScan, TypeOK
<1>6. ASSUME NEW h \in Harts, NEW p \in Procs, Clone(h, p) PROVE TypeOK'
  <2>1. Cons(p, ready) \in Seq(Procs)
    BY ConsList DEF TypeOK
  <2> QED BY <1>6, <2>1 DEF Clone, TypeOK
<1>7. ASSUME NEW h \in Harts, SwitchOut(h) PROVE TypeOK'
  BY <1>7 DEF SwitchOut, TypeOK
<1>8. ASSUME NEW h \in Harts, SwitchWild(h) PROVE TypeOK'
  BY <1>8 DEF SwitchWild, TypeOK
<1>9. ASSUME NEW h \in Harts, SleepOn(h) PROVE TypeOK'
  BY <1>9 DEF SleepOn, GiveUp, TypeOK
<1>10. ASSUME NEW h \in Harts, WakeupBegin(h) PROVE TypeOK'
  BY <1>10 DEF WakeupBegin, TypeOK
<1>11. ASSUME NEW h \in Harts, WakeupSkip(h) PROVE TypeOK'
  BY <1>11 DEF WakeupSkip, TypeOK
<1>12. ASSUME NEW h \in Harts, WakeupMiss(h) PROVE TypeOK'
  BY <1>12 DEF WakeupMiss, WakeupDone, TypeOK
<1>13. ASSUME NEW h \in Harts, NoTick(h) PROVE TypeOK'
  BY <1>13 DEF NoTick, TypeOK
<1>14. ASSUME NEW h \in Harts, Tick(h) PROVE TypeOK'
  BY <1>14 DEF Tick, TypeOK
<1>15. ASSUME NEW h \in Harts, WaitScanBegin(h) PROVE TypeOK'
  BY <1>15 DEF WaitScanBegin, TypeOK
<1>16. ASSUME NEW h \in Harts, WaitScanEnd(h) PROVE TypeOK'
  BY <1>16 DEF WaitScanEnd, TypeOK
<1>17. ASSUME NEW h \in Harts, SliceSpent(h) PROVE TypeOK'
  BY <1>17 DEF SliceSpent, GiveUp, TypeOK
<1>18. ASSUME NEW h \in Harts, SliceLeft(h) PROVE TypeOK'
  BY <1>18 DEF SliceLeft, TypeOK
<1>19. ASSUME NEW h \in Harts, Yield(h) PROVE TypeOK'
  BY <1>19 DEF Yield, GiveUp, TypeOK
<1>20. ASSUME NEW h \in Harts, Nanosleep(h) PROVE TypeOK'
  BY <1>20 DEF Nanosleep, GiveUp, TypeOK
<1>21. ASSUME NEW h \in Harts, TimerTrap(h) PROVE TypeOK'
  BY <1>21 DEF TimerTrap, TypeOK
<1>22. ASSUME NEW h \in Harts, HandlerReturns(h) PROVE TypeOK'
  BY <1>22 DEF HandlerReturns, TypeOK
<1>23. ASSUME NEW h \in Harts, NEW s \in Sems, PPass(h, s) PROVE TypeOK'
  BY <1>23 DEF PPass, InSyscall, TypeOK
<1>24. ASSUME NEW h \in Harts, NEW s \in Sems, PBlock(h, s) PROVE TypeOK'
  BY <1>24 DEF PBlock, InSyscall, TypeOK
<1>25. ASSUME NEW h \in Harts, NEW s \in Sems, VPost(h, s) PROVE TypeOK'
  BY <1>25 DEF VPost, CanV, InSyscall, TypeOK
<1>26. ASSUME NEW h \in Harts, NEW s \in Sems, VWake(h, s) PROVE TypeOK'
  BY <1>26 DEF VWake, CanV, InSyscall, TypeOK
<1>27. ASSUME NEW p \in Procs, DeadlinePasses(p) PROVE TypeOK'
  BY <1>27 DEF DeadlinePasses, TypeOK
<1>28. CASE UNCHANGED vars
  BY <1>28 DEF vars, TypeOK
<1>29. ASSUME NEW h \in Harts, Execve(h) PROVE TypeOK'
  BY <1>29 DEF Execve, TypeOK
<1>30. ASSUME NEW h \in Harts, Times(h) PROVE TypeOK'
  BY <1>30 DEF Times, TypeOK
<1>31. ASSUME NEW h \in Harts, Hang(h) PROVE TypeOK'
  BY <1>31 DEF Hang, TypeOK
<1>32. ASSUME NEW h \in Harts, Spin(h) PROVE TypeOK'
  BY <1>28, <1>32 DEF Spin
<1> QED
  BY <1>1, <1>2, <1>3, <1>4, <1>5, <1>6, <1>7, <1>8, <1>9, <1>10,
     <1>11, <1>12, <1>13, <1>14, <1>15, <1>16, <1>17, <1>18, <1>19,
     <1>20, <1>21, <1>22, <1>23, <1>24, <1>25, <1>26, <1>27, <1>28,
     <1>29, <1>30, <1>31, <1>32
     DEF Next, Kernel, Program

-----------------------------------------------------------------------------

(* Every step keeps list_lock and the process locks with the harts that are *)
(* inside the sections that take them.                                      *)
LEMMA LockStep ==
    TypeOK /\ LockDiscipline /\ [Next]_vars => LockDiscipline'
<1> SUFFICES ASSUME TypeOK, LockDiscipline, [Next]_vars PROVE LockDiscipline'
  OBVIOUS
<1> USE DEF ListLabels, OwnerLabels, Goto, listVars, procVars, hartVars
<1>1. ASSUME NEW h \in Harts, Pick(h) PROVE LockDiscipline'
  BY <1>1 DEF Pick, TypeOK, LockDiscipline
<1>2. ASSUME NEW h \in Harts, Dispatch(h) PROVE LockDiscipline'
  <2>1. picked[h] \in Procs /\ resume[picked[h]] \in {"user", "kernel", "tick"} /\ listLock = h
    BY <1>2 DEF Dispatch, TypeOK, LockDiscipline
  <2>2. /\ pc' = [pc EXCEPT ![h] = resume[picked[h]]]
        /\ cur' = [cur EXCEPT ![h] = picked[h]]
        /\ listLock' = NoHart /\ procLock' = procLock
    BY <1>2 DEF Dispatch
  <2>3. \A g \in Harts : listLock' = g <=> pc'[g] \in ListLabels
    BY <2>1, <2>2 DEF TypeOK, LockDiscipline
  <2>4. ASSUME NEW g \in Harts, NEW p \in Procs
        PROVE  procLock'[p] = g <=> pc'[g] \in {"move", "times"} /\ cur'[g] = p
    <3>1. CASE g = h
      <4>1. pc[h] = "dispatch" /\ pc'[h] \in {"user", "kernel", "tick"}
        BY <1>2, <2>1, <2>2 DEF Dispatch, TypeOK
      <4>2. procLock[p] # h
        BY <4>1 DEF LockDiscipline
      <4> QED BY <2>2, <3>1, <4>1, <4>2
    <3>2. CASE g # h
      BY <2>2, <3>2 DEF TypeOK, LockDiscipline
    <3> QED BY <3>1, <3>2
  <2> QED BY <2>3, <2>4 DEF LockDiscipline
<1>3. ASSUME NEW h \in Harts, MoveToList(h) PROVE LockDiscipline'
  BY <1>3 DEF MoveToList, TypeOK, LockDiscipline
<1>4. ASSUME NEW h \in Harts, SwitchOut(h) PROVE LockDiscipline'
  BY <1>4 DEF SwitchOut, TypeOK, LockDiscipline
<1>5. ASSUME NEW h \in Harts, SwitchWild(h) PROVE LockDiscipline'
  BY <1>5 DEF SwitchWild, TypeOK, LockDiscipline
<1>6. ASSUME NEW h \in Harts, SleepOn(h) PROVE LockDiscipline'
  BY <1>6 DEF SleepOn, GiveUp, TypeOK, LockDiscipline
<1>7. ASSUME NEW h \in Harts, WakeupBegin(h) PROVE LockDiscipline'
  BY <1>7 DEF WakeupBegin, TypeOK, LockDiscipline
<1>8. ASSUME NEW h \in Harts, WakeupHit(h) PROVE LockDiscipline'
  BY <1>8 DEF WakeupHit, WakeupDone, TypeOK, LockDiscipline
<1>9. ASSUME NEW h \in Harts, WakeupSkip(h) PROVE LockDiscipline'
  BY <1>9 DEF WakeupSkip, TypeOK, LockDiscipline
<1>10. ASSUME NEW h \in Harts, WakeupMiss(h) PROVE LockDiscipline'
  BY <1>10 DEF WakeupMiss, WakeupDone, TypeOK, LockDiscipline
<1>11. ASSUME NEW h \in Harts, NoTick(h) PROVE LockDiscipline'
  BY <1>11 DEF NoTick, TypeOK, LockDiscipline
<1>12. ASSUME NEW h \in Harts, Tick(h) PROVE LockDiscipline'
  BY <1>12 DEF Tick, TypeOK, LockDiscipline
<1>13. ASSUME NEW h \in Harts, WaitScanBegin(h) PROVE LockDiscipline'
  BY <1>13 DEF WaitScanBegin, TypeOK, LockDiscipline
<1>14. ASSUME NEW h \in Harts, WaitScan(h) PROVE LockDiscipline'
  BY <1>14 DEF WaitScan, TypeOK, LockDiscipline
<1>15. ASSUME NEW h \in Harts, WaitScanEnd(h) PROVE LockDiscipline'
  BY <1>15 DEF WaitScanEnd, TypeOK, LockDiscipline
<1>16. ASSUME NEW h \in Harts, SliceSpent(h) PROVE LockDiscipline'
  BY <1>16 DEF SliceSpent, GiveUp, TypeOK, LockDiscipline
<1>17. ASSUME NEW h \in Harts, SliceLeft(h) PROVE LockDiscipline'
  BY <1>17 DEF SliceLeft, TypeOK, LockDiscipline
<1>18. ASSUME NEW h \in Harts, Yield(h) PROVE LockDiscipline'
  BY <1>18 DEF Yield, GiveUp, TypeOK, LockDiscipline
<1>19. ASSUME NEW h \in Harts, Nanosleep(h) PROVE LockDiscipline'
  BY <1>19 DEF Nanosleep, GiveUp, TypeOK, LockDiscipline
<1>20. ASSUME NEW h \in Harts, TimerTrap(h) PROVE LockDiscipline'
  BY <1>20 DEF TimerTrap, TypeOK, LockDiscipline
<1>21. ASSUME NEW h \in Harts, HandlerReturns(h) PROVE LockDiscipline'
  BY <1>21 DEF HandlerReturns, TypeOK, LockDiscipline
<1>22. ASSUME NEW h \in Harts, NEW s \in Sems, PPass(h, s) PROVE LockDiscipline'
  BY <1>22 DEF PPass, InSyscall, TypeOK, LockDiscipline
<1>23. ASSUME NEW h \in Harts, NEW s \in Sems, PBlock(h, s) PROVE LockDiscipline'
  BY <1>23 DEF PBlock, InSyscall, TypeOK, LockDiscipline
<1>24. ASSUME NEW h \in Harts, NEW s \in Sems, VPost(h, s) PROVE LockDiscipline'
  BY <1>24 DEF VPost, CanV, InSyscall, TypeOK, LockDiscipline
<1>25. ASSUME NEW h \in Harts, NEW s \in Sems, VWake(h, s) PROVE LockDiscipline'
  BY <1>25 DEF VWake, CanV, InSyscall, TypeOK, LockDiscipline
<1>26. ASSUME NEW h \in Harts, NEW p \in Procs, Clone(h, p) PROVE LockDiscipline'
  BY <1>26 DEF Clone, TypeOK, LockDiscipline
<1>27. ASSUME NEW p \in Procs, DeadlinePasses(p) PROVE LockDiscipline'
  BY <1>27 DEF DeadlinePasses, LockDiscipline
<1>28. CASE UNCHANGED vars
  BY <1>28 DEF vars, LockDiscipline
<1>29. ASSUME NEW h \in Harts, Execve(h) PROVE LockDiscipline'
  BY <1>29 DEF Execve, TypeOK, LockDiscipline
<1>30. ASSUME NEW h \in Harts, Times(h) PROVE LockDiscipline'
  BY <1>30 DEF Times, TypeOK, LockDiscipline
<1>31. ASSUME NEW h \in Harts, Hang(h) PROVE LockDiscipline'
  BY <1>31 DEF Hang, TypeOK, LockDiscipline
<1>32. ASSUME NEW h \in Harts, Spin(h) PROVE LockDiscipline'
  BY <1>28, <1>32 DEF Spin
<1> QED
  BY <1>1, <1>2, <1>3, <1>4, <1>5, <1>6, <1>7, <1>8, <1>9, <1>10,
     <1>11, <1>12, <1>13, <1>14, <1>15, <1>16, <1>17, <1>18, <1>19,
     <1>20, <1>21, <1>22, <1>23, <1>24, <1>25, <1>26, <1>27, <1>28,
     <1>29, <1>30, <1>31, <1>32
     DEF Next, Kernel, Program

-----------------------------------------------------------------------------
\* Where a process is

Running == OwnerLabels \ {"move"}

(* A step of a hart from running code to running code, which touches no     *)
(* list, status or current process.                                         *)
LEMMA QuietStep ==
    ASSUME TypeOK, Ownership, StatusMatches,
           UNCHANGED <<ready, wait, sleeping, status, data, cur, picked>>,
           NEW h \in Harts, pc[h] \in Running,
           NEW l \in Running, pc' = [pc EXCEPT ![h] = l]
    PROVE  Ownership' /\ StatusMatches'
<1> USE DEF Running, OwnerLabels
<1>1. \A g \in Harts : /\ pc'[g] \in OwnerLabels <=> pc[g] \in OwnerLabels
                       /\ pc'[g] \in OwnerLabels \ {"move"}
                             <=> pc[g] \in OwnerLabels \ {"move"}
                       /\ pc'[g] = "move" <=> pc[g] = "move"
  BY DEF TypeOK
<1>2. \A g \in Harts, p \in Procs : Holds(g, p)' <=> Holds(g, p)
  BY <1>1 DEF Holds
<1>3. \A p \in Procs : OnList(p)' <=> OnList(p)
  BY DEF OnList
<1>4. Ownership'
  BY <1>2, <1>3 DEF Ownership
<1>5. StatusMatches'
  BY <1>1 DEF StatusMatches
<1> QED BY <1>4, <1>5

(* A running hart sets the status of its process and is about to move it.   *)
LEMMA GiveUpStep ==
    ASSUME TypeOK, Ownership, StatusMatches,
           UNCHANGED <<ready, wait, sleeping, cur, picked>>,
           NEW h \in Harts, pc[h] \in Running, pc' = [pc EXCEPT ![h] = "move"],
           NEW st \in {"READY", "WAIT", "SLEEP"},
           status' = [status EXCEPT ![cur[h]] = st],
           \/ st # "SLEEP" /\ UNCHANGED data
           \/ st = "SLEEP" /\ \E s \in Sems : data' = [data EXCEPT ![cur[h]] = s]
    PROVE  Ownership' /\ StatusMatches'
<1> USE DEF Running, OwnerLabels
<1>0. cur[h] \in Procs /\ status[cur[h]] \in {"RUN", "READY"} /\ Holds(h, cur[h])
  BY DEF TypeOK, StatusMatches, Holds
<1>1. \A g \in Harts : pc'[g] \in OwnerLabels <=> pc[g] \in OwnerLabels
  BY DEF TypeOK
<1>2. \A g \in Harts, p \in Procs : Holds(g, p)' <=> Holds(g, p)
  BY <1>1 DEF Holds
<1>3. \A p \in Procs : OnList(p)' <=> OnList(p)
  BY DEF OnList
<1>4. \A p \in Procs : status'[p] # "NONE" <=> status[p] # "NONE"
  BY <1>0 DEF TypeOK
<1>5. Ownership'
  BY <1>2, <1>3, <1>4 DEF Ownership
<1>6. \A p \in Range(ready) \cup Range(wait) \cup Range(sleeping) :
        p \in Procs /\ status'[p] = status[p]
  BY <1>0, RangeOfSeq DEF Ownership, OnList, TypeOK
<1>7. \A g \in Harts : g # h /\ pc[g] \in OwnerLabels =>
        /\ cur[g] \in Procs /\ cur[g] # cur[h]
        /\ status'[cur[g]] = status[cur[g]] /\ pc'[g] = pc[g]
  BY <1>0 DEF Ownership, Holds, TypeOK
<1>8. \A p \in Procs : data'[p] \in Sems <=> status'[p] = "SLEEP"
  BY <1>0 DEF StatusMatches, TypeOK
<1>9. pc'[h] = "move" /\ status'[cur'[h]] = st
  BY <1>0 DEF TypeOK
<1>10. StatusMatches'
  <2>1. \A g \in Harts : pc'[g] = "dispatch" => pc[g] = "dispatch" /\ g # h
    BY <1>9 DEF TypeOK
  <2>2. \A g \in Harts : pc'[g] = "dispatch" => status'[picked'[g]] \in {"READY", "WAIT"}
    <3>1. \A g \in Harts : pc[g] = "dispatch" => picked[g] \in Procs \ {cur[h]}
      BY <1>0 DEF Ownership, Holds, TypeOK
    <3> QED BY <1>0, <2>1, <3>1 DEF StatusMatches, TypeOK
  <2>3. \A g \in Harts :
          /\ pc'[g] = "move" => status'[cur'[g]] \in {"READY", "WAIT", "SLEEP"}
          /\ pc'[g] \in OwnerLabels \ {"move"} => status'[cur'[g]] \in {"RUN", "READY"}
    BY <1>1, <1>7, <1>9 DEF StatusMatches
  <2>4. /\ \A p \in Range(ready) : status'[p] \in {"READY", "WAIT"}
        /\ \A p \in Range(wait) : status'[p] = "WAIT"
        /\ \A p \in Range(sleeping) : status'[p] = "SLEEP"
    BY <1>6 DEF StatusMatches
  <2> QED BY <1>8, <2>2, <2>3, <2>4 DEF StatusMatches
<1> QED BY <1>5, <1>10

(* Taking a process off ready_list keeps every process in one place.        *)
LEMMA PickPlaces ==
    ASSUME TypeOK, Ownership, StatusMatches, NEW h \in Harts, Pick(h)
    PROVE  Ownership' /\ StatusMatches'
<1> DEFINE i == IF Head(ready) = Idle /\ Len(ready) > 1 THEN 2 ELSE 1
           q == ready[i]
<1>1. i \in 1 .. Len(ready) /\ ready \in Seq(Procs)
  BY DEF Pick, TypeOK
<1>2. /\ pc[h] = "sched" /\ pc' = [pc EXCEPT ![h] = "dispatch"]
      /\ picked' = [picked EXCEPT ![h] = q] /\ ready' = RemoveAt(ready, i)
      /\ UNCHANGED <<wait, sleeping, status, data, cur>>
  BY DEF Pick, Goto
<1> HIDE DEF i
<1>3. /\ q \in Procs /\ q \in Range(ready)
      /\ Range(ready') = Range(ready) \ {q} /\ IsInjective(ready')
  BY <1>1, <1>2, RemoveAtList DEF Ownership
<1> HIDE DEF q
<1>4. \A g \in Harts : /\ pc'[g] \in OwnerLabels <=> pc[g] \in OwnerLabels
                       /\ g # h => pc'[g] = pc[g]
  BY <1>2 DEF TypeOK, OwnerLabels
<1>5. picked[h] = NoProc /\ pc'[h] = "dispatch"
  BY <1>2 DEF TypeOK
<1>6. \A g \in Harts, p \in Procs :
        Holds(g, p)' <=> Holds(g, p) \/ (g = h /\ p = q)
  BY <1>2, <1>4, <1>5 DEF Holds, TypeOK
<1>7. \A p \in Procs : OnList(p)' <=> OnList(p) /\ p # q
  BY <1>2, <1>3 DEF OnList, Ownership
<1>8. Ownership'
  <2>1. \A g \in Harts, p \in Procs : Holds(g, p)' => ~OnList(p)'
    BY <1>6, <1>7 DEF Ownership
  <2>2. \A f, g \in Harts, p \in Procs : Holds(f, p)' /\ Holds(g, p)' => f = g
    BY <1>3, <1>6 DEF Ownership, OnList
  <2>3. \A p \in Procs :
          status'[p] # "NONE" <=> OnList(p)' \/ \E g \in Harts : Holds(g, p)'
    BY <1>2, <1>3, <1>6, <1>7 DEF Ownership, OnList
  <2> QED BY <1>2, <1>3, <2>1, <2>2, <2>3 DEF Ownership
<1>9. StatusMatches'
  <2>1. \A g \in Harts : pc'[g] = "dispatch" => status'[picked'[g]] \in {"READY", "WAIT"}
    BY <1>2, <1>3, <1>4 DEF StatusMatches, TypeOK
  <2>2. \A g \in Harts : /\ pc'[g] \in OwnerLabels => pc'[g] = pc[g]
                         /\ pc'[g] = "move" => pc[g] = "move"
    BY <1>4, <1>5 DEF OwnerLabels
  <2>3. \A g \in Harts :
          /\ pc'[g] = "move" => status'[cur'[g]] \in {"READY", "WAIT", "SLEEP"}
          /\ pc'[g] \in OwnerLabels \ {"move"} => status'[cur'[g]] \in {"RUN", "READY"}
    BY <1>2, <2>2 DEF StatusMatches
  <2>4. \A p \in Range(ready') : status'[p] \in {"READY", "WAIT"}
    BY <1>2, <1>3 DEF StatusMatches
  <2> QED BY <1>2, <2>1, <2>3, <2>4 DEF StatusMatches
<1> QED BY <1>8, <1>9

(* So does giving the picked process the hart, also while the hart that put *)
(* it on the list has not left _move_switch yet.                            *)
LEMMA DispatchPlaces ==
    ASSUME TypeOK, Ownership, StatusMatches, NEW h \in Harts, Dispatch(h)
    PROVE  Ownership' /\ StatusMatches'
<1> DEFINE q == picked[h]
<1>1. /\ q \in Procs /\ resume[q] \in {"user", "kernel", "tick"} /\ pc[h] = "dispatch"
      /\ cur[h] = NoProc /\ Holds(h, q)
  BY DEF Dispatch, TypeOK, OwnerLabels, Holds
<1>2. /\ pc' = [pc EXCEPT ![h] = resume[q]] /\ cur' = [cur EXCEPT ![h] = q]
      /\ picked' = [picked EXCEPT ![h] = NoProc]
      /\ status' = [status EXCEPT ![q] = "RUN"]
      /\ UNCHANGED <<ready, wait, sleeping, data>>
  BY DEF Dispatch, Goto
<1> HIDE DEF q
<1>3. \A g \in Harts, p \in Procs : Holds(g, p)' <=> Holds(g, p)
  <2> SUFFICES ASSUME NEW g \in Harts, NEW p \in Procs
               PROVE  Holds(g, p)' <=> Holds(g, p)
    OBVIOUS
  <2>1. CASE g = h
    <3>1. picked[h] = q
      BY DEF q
    <3> QED BY <2>1, <3>1, <1>1, <1>2 DEF Holds, TypeOK, OwnerLabels
  <2>2. CASE g # h
    BY <2>2, <1>2 DEF Holds, TypeOK
  <2> QED BY <2>1, <2>2
<1>4. \A p \in Procs : OnList(p)' <=> OnList(p)
  BY <1>2 DEF OnList
<1>5. status[q] # "NONE" /\ ~OnList(q)
  BY <1>1 DEF Ownership
<1>6. Ownership'
  BY <1>1, <1>2, <1>3, <1>4, <1>5 DEF Ownership, TypeOK
<1>7. status[q] # "SLEEP"
  BY <1>1 DEF StatusMatches, q
<1>8. StatusMatches'
  <2>1. data'[q] \in Sems <=> status'[q] = "SLEEP"
    BY <1>1, <1>2, <1>7 DEF StatusMatches, TypeOK
  <2>2. \A p \in Range(ready) \cup Range(wait) \cup Range(sleeping) :
          status'[p] = status[p]
    BY <1>1, <1>2, <1>5, RangeOfSeq DEF OnList, TypeOK
  <2>3. \A p \in Procs : p # q => status'[p] = status[p]
    BY <1>2 DEF TypeOK
  <2>4. \A g \in Harts \ {h} :
          /\ pc'[g] = pc[g] /\ cur'[g] = cur[g] /\ picked'[g] = picked[g]
          /\ pc[g] \in OwnerLabels => cur[g] \in Procs \ {q}
          /\ pc[g] = "dispatch" => picked[g] \in Procs \ {q}
    BY <1>1, <1>2 DEF TypeOK, Ownership, Holds
  <2>5. cur'[h] = q /\ pc'[h] \in {"user", "kernel", "tick"} /\ status'[q] = "RUN"
    BY <1>1, <1>2 DEF TypeOK
  <2>6. \A g \in Harts :
          /\ pc'[g] = "dispatch" => status'[picked'[g]] \in {"READY", "WAIT"}
          /\ pc'[g] = "move" => status'[cur'[g]] \in {"READY", "WAIT", "SLEEP"}
          /\ pc'[g] \in OwnerLabels \ {"move"} => status'[cur'[g]] \in {"RUN", "READY"}
    <3> SUFFICES ASSUME NEW g \in Harts
                 PROVE  /\ pc'[g] = "dispatch" => status'[picked'[g]] \in {"READY", "WAIT"}
                        /\ pc'[g] = "move" => status'[cur'[g]] \in {"READY", "WAIT", "SLEEP"}
                        /\ pc'[g] \in OwnerLabels \ {"move"} => status'[cur'[g]] \in {"RUN", "READY"}
      OBVIOUS
    <3>1. CASE g = h
      BY <2>5, <3>1
    <3>2. CASE g # h
      <4>1. pc'[g] = "dispatch" => status'[picked'[g]] \in {"READY", "WAIT"}
        BY <2>3, <2>4, <3>2 DEF StatusMatches
      <4>2. pc'[g] \in OwnerLabels =>
              pc[g] \in OwnerLabels /\ status'[cur'[g]] = status[cur[g]] /\ pc'[g] = pc[g]
        BY <2>3, <2>4, <3>2
      <4>3. pc'[g] = "move" => pc'[g] \in OwnerLabels
        BY DEF OwnerLabels
      <4> QED BY <4>1, <4>2, <4>3 DEF StatusMatches
    <3> QED BY <3>1, <3>2
  <2>7. \A p \in Procs : data'[p] \in Sems <=> status'[p] = "SLEEP"
    BY <1>2, <2>1, <2>3 DEF StatusMatches
  <2>8. /\ \A p \in Range(ready') : status'[p] \in {"READY", "WAIT"}
        /\ \A p \in Range(wait') : status'[p] = "WAIT"
        /\ \A p \in Range(sleeping') : status'[p] = "SLEEP"
    BY <1>2, <2>2 DEF StatusMatches
  <2> QED BY <2>6, <2>7, <2>8 DEF StatusMatches
<1> QED BY <1>6, <1>8

(* So does linking the process of a hart into the list its status names.    *)
LEMMA MovePlaces ==
    ASSUME TypeOK, Ownership, StatusMatches, NEW h \in Harts, MoveToList(h)
    PROVE  Ownership' /\ StatusMatches'
<1> DEFINE q == cur[h]
<1>1. /\ q \in Procs /\ pc[h] = "move" /\ Holds(h, q) /\ ~OnList(q)
      /\ status[q] \in {"READY", "WAIT", "SLEEP"} /\ picked[h] = NoProc
  BY DEF MoveToList, TypeOK, OwnerLabels, Holds, Ownership, StatusMatches
<1>2. /\ ready' = IF status[q] = "READY" THEN Append(ready, q) ELSE ready
      /\ wait' = IF status[q] = "WAIT" THEN Append(wait, q) ELSE wait
      /\ sleeping' = IF status[q] = "SLEEP" THEN Append(sleeping, q) ELSE sleeping
      /\ pc' = [pc EXCEPT ![h] = "switch"]
      /\ UNCHANGED <<status, data, cur, picked>>
  BY DEF MoveToList, Goto, procVars
<1>3. /\ Range(ready') = IF status[q] = "READY" THEN Range(ready) \cup {q} ELSE Range(ready)
      /\ Range(wait') = IF status[q] = "WAIT" THEN Range(wait) \cup {q} ELSE Range(wait)
      /\ Range(sleeping') = IF status[q] = "SLEEP" THEN Range(sleeping) \cup {q}
                                                  ELSE Range(sleeping)
      /\ IsInjective(ready') /\ IsInjective(wait') /\ IsInjective(sleeping')
  <2>1. /\ ready \in Seq(Procs) /\ wait \in Seq(Procs) /\ sleeping \in Seq(Procs)
        /\ IsInjective(ready) /\ IsInjective(wait) /\ IsInjective(sleeping)
        /\ q \notin Range(ready) /\ q \notin Range(wait) /\ q \notin Range(sleeping)
    BY <1>1 DEF TypeOK, Ownership, OnList
  <2> HIDE DEF q
  <2>2. \A l \in {ready, wait, sleeping} :
          Range(Append(l, q)) = Range(l) \cup {q} /\ IsInjective(Append(l, q))
    BY <1>1, <2>1, AppendList
  <2> QED BY <1>2, <2>1, <2>2
<1> HIDE DEF q
<1>4. \A g \in Harts : pc'[g] = IF g = h THEN "switch" ELSE pc[g]
  BY <1>2 DEF TypeOK
<1>5. \A g \in Harts, p \in Procs : Holds(g, p)' <=> Holds(g, p) /\ g # h
  BY <1>1, <1>2, <1>4 DEF Holds, OwnerLabels
<1>6. \A p \in Procs : OnList(p)' <=> OnList(p) \/ p = q
  BY <1>1, <1>3 DEF OnList
<1>7. \A p \in Procs : Holds(h, p) <=> p = q
  BY <1>1 DEF Holds, OwnerLabels, q
<1>8. Ownership'
  <2>1. \A g \in Harts, p \in Procs : Holds(g, p)' => ~OnList(p)'
    BY <1>1, <1>5, <1>6 DEF Ownership
  <2>2. \A p \in Procs :
          status'[p] # "NONE" <=> OnList(p)' \/ \E g \in Harts : Holds(g, p)'
    BY <1>1, <1>2, <1>5, <1>6, <1>7 DEF Ownership
  <2>3. /\ Range(ready') \cap Range(wait') = {}
        /\ Range(ready') \cap Range(sleeping') = {}
        /\ Range(wait') \cap Range(sleeping') = {}
    BY <1>1, <1>3 DEF Ownership, OnList
  <2> QED BY <1>3, <1>5, <2>1, <2>2, <2>3 DEF Ownership
<1>9. StatusMatches'
  BY <1>1, <1>2, <1>3, <1>4 DEF StatusMatches, OwnerLabels
<1> QED BY <1>8, <1>9

(* So does leaving _move_switch: the hart holds nothing since MoveToList.   *)
LEMMA SwitchPlaces ==
    ASSUME TypeOK, Ownership, StatusMatches,
           NEW h \in Harts, SwitchOut(h) \/ SwitchWild(h)
    PROVE  Ownership' /\ StatusMatches'
<1>1. /\ pc[h] = "switch" /\ pc' \in {[pc EXCEPT ![h] = "sched"], [pc EXCEPT ![h] = "wild"]}
      /\ cur' = [cur EXCEPT ![h] = NoProc] /\ picked[h] = NoProc
      /\ UNCHANGED <<ready, wait, sleeping, status, data, picked>>
  BY DEF SwitchOut, SwitchWild, Goto, listVars, procVars, TypeOK
<1>2. /\ pc'[h] \in {"sched", "wild"}
      /\ \A g \in Harts \ {h} : pc'[g] = pc[g] /\ cur'[g] = cur[g]
  BY <1>1 DEF TypeOK
<1>3. \A g \in Harts, p \in Procs : Holds(g, p)' <=> Holds(g, p)
  BY <1>1, <1>2 DEF Holds, OwnerLabels, TypeOK
<1>4. \A p \in Procs : OnList(p)' <=> OnList(p)
  BY <1>1 DEF OnList
<1>5. Ownership'
  BY <1>1, <1>3, <1>4 DEF Ownership
<1>6. \A g \in Harts :
        /\ pc'[g] \in OwnerLabels => g # h
        /\ pc'[g] = "dispatch" => g # h
        /\ pc'[g] = "move" => g # h
  BY <1>2 DEF OwnerLabels
<1>7. StatusMatches'
  BY <1>1, <1>2, <1>6 DEF StatusMatches
<1> QED BY <1>5, <1>7

(* So does a wakeup that moves a sleeper to the head of ready_list.         *)
LEMMA WakeupPlaces ==
    ASSUME TypeOK, Ownership, StatusMatches, NEW h \in Harts, WakeupHit(h)
    PROVE  Ownership' /\ StatusMatches'
<1> DEFINE i == cursor[h]
           q == sleeping[i]
<1>1. /\ i \in 1 .. Len(sleeping) /\ sleeping \in Seq(Procs) /\ ready \in Seq(Procs)
      /\ pc[h] = "wakeup_scan"
  BY DEF WakeupHit, TypeOK
<1>2. /\ pc' = [pc EXCEPT ![h] = "kernel"]
      /\ data' = [data EXCEPT ![q] = NoSem]
      /\ status' = [status EXCEPT ![q] = "READY"]
      /\ sleeping' = RemoveAt(sleeping, i) /\ ready' = Cons(q, ready)
      /\ UNCHANGED <<wait, cur, picked>>
  BY DEF WakeupHit, WakeupDone, Goto
<1> HIDE DEF i
<1>3. /\ q \in Procs /\ q \in Range(sleeping)
      /\ Range(sleeping') = Range(sleeping) \ {q} /\ IsInjective(sleeping')
  BY <1>1, <1>2, RemoveAtList DEF Ownership
<1> HIDE DEF q
<1>4. q \notin Range(ready) /\ q \notin Range(wait) /\ IsInjective(ready)
  BY <1>3 DEF Ownership
<1>5. Range(ready') = Range(ready) \cup {q} /\ IsInjective(ready')
  <2>1. ready \in Seq(Procs) /\ q \in Procs /\ ready' = Cons(q, ready)
    BY <1>1, <1>2, <1>3
  <2> QED BY <2>1, <1>4, ConsList
<1>6. \A g \in Harts : pc'[g] = IF g = h THEN "kernel" ELSE pc[g]
  BY <1>2 DEF TypeOK
<1>7. \A g \in Harts, p \in Procs : Holds(g, p)' <=> Holds(g, p)
  BY <1>1, <1>2, <1>6 DEF Holds, OwnerLabels
<1>8. \A p \in Procs : OnList(p)' <=> OnList(p)
  BY <1>2, <1>3, <1>5 DEF OnList
<1>9. /\ status[q] = "SLEEP" /\ status'[q] = "READY" /\ data'[q] = NoSem
      /\ \A p \in Procs \ {q} : status'[p] = status[p] /\ data'[p] = data[p]
  BY <1>2, <1>3 DEF StatusMatches, TypeOK
<1>10. Ownership'
  <2>1. /\ Range(ready') \cap Range(wait') = {}
        /\ Range(ready') \cap Range(sleeping') = {}
        /\ Range(wait') \cap Range(sleeping') = {}
    BY <1>2, <1>3, <1>4, <1>5 DEF Ownership
  <2>2. \A p \in Procs : status'[p] # "NONE" <=> status[p] # "NONE"
    BY <1>9
  <2> QED BY <1>2, <1>3, <1>5, <1>7, <1>8, <2>1, <2>2 DEF Ownership
<1>11. StatusMatches'
  <2>1. Range(ready) \subseteq Procs /\ Range(wait) \subseteq Procs
        /\ Range(sleeping) \subseteq Procs
    BY RangeOfSeq DEF TypeOK
  <2>2. /\ \A p \in Range(ready') : status'[p] \in {"READY", "WAIT"}
        /\ \A p \in Range(wait') : status'[p] = "WAIT"
        /\ \A p \in Range(sleeping') : status'[p] = "SLEEP"
    BY <1>2, <1>3, <1>4, <1>5, <1>9, <2>1 DEF StatusMatches
  <2>3. \A g \in Harts :
          /\ pc[g] \in OwnerLabels => cur[g] \in Procs \ {q}
          /\ pc[g] = "dispatch" => picked[g] \in Procs \ {q}
    <3>1. \A g \in Harts : ~Holds(g, q)
      BY <1>3 DEF Ownership, OnList
    <3> QED BY <3>1 DEF Holds, TypeOK
  <2>4. \A g \in Harts :
          /\ pc'[g] = "dispatch" => pc[g] = "dispatch"
          /\ pc'[g] = "move" => pc[g] = "move" /\ pc[g] \in OwnerLabels
          /\ pc'[g] \in OwnerLabels \ {"move"} => pc[g] \in OwnerLabels \ {"move"}
    BY <1>1, <1>6 DEF OwnerLabels
  <2>5. \A g \in Harts : pc'[g] = "dispatch" => status'[picked'[g]] \in {"READY", "WAIT"}
    BY <1>2, <1>9, <2>3, <2>4 DEF StatusMatches
  <2>6. \A g \in Harts :
          /\ pc'[g] = "move" => status'[cur'[g]] \in {"READY", "WAIT", "SLEEP"}
          /\ pc'[g] \in OwnerLabels \ {"move"} => status'[cur'[g]] \in {"RUN", "READY"}
    BY <1>2, <1>9, <2>3, <2>4 DEF StatusMatches
  <2>7. \A p \in Procs : data'[p] \in Sems <=> status'[p] = "SLEEP"
    BY <1>9 DEF StatusMatches
  <2> QED BY <2>2, <2>5, <2>6, <2>7 DEF StatusMatches
<1> QED BY <1>10, <1>11

(* So does a turn of the loop over wait_list in set_next_time.              *)
LEMMA WaitScanPlaces ==
    ASSUME TypeOK, Ownership, StatusMatches, NEW h \in Harts, WaitScan(h)
    PROVE  Ownership' /\ StatusMatches'
<1> DEFINE i == cursor[h]
           q == wait[i]
<1>1. /\ i \in 1 .. Len(wait) /\ wait \in Seq(Procs) /\ ready \in Seq(Procs)
      /\ UNCHANGED <<sleeping, status, data, cur, pc, picked>>
  BY DEF WaitScan, TypeOK, procVars
<1>2. \A g \in Harts, p \in Procs : Holds(g, p)' <=> Holds(g, p)
  BY <1>1 DEF Holds
<1>3. CASE q \in due
  <2>1. wait' = RemoveAt(wait, i) /\ ready' = Append(ready, q)
    BY <1>3 DEF WaitScan
  <2> HIDE DEF i
  <2>2. /\ q \in Procs /\ q \in Range(wait)
        /\ Range(wait') = Range(wait) \ {q} /\ IsInjective(wait')
    BY <1>1, <2>1, RemoveAtList DEF Ownership
  <2> HIDE DEF q
  <2>3. q \notin Range(ready) /\ q \notin Range(sleeping) /\ IsInjective(ready)
    BY <2>2 DEF Ownership
  <2>4. Range(ready') = Range(ready) \cup {q} /\ IsInjective(ready')
    BY <1>1, <2>1, <2>2, <2>3, AppendList
  <2>5. \A p \in Procs : OnList(p)' <=> OnList(p)
    BY <1>1, <2>2, <2>4 DEF OnList
  <2>6. Ownership'
    <3>1. /\ Range(ready') \cap Range(wait') = {}
          /\ Range(ready') \cap Range(sleeping') = {}
          /\ Range(wait') \cap Range(sleeping') = {}
      BY <1>1, <2>2, <2>3, <2>4 DEF Ownership
    <3> QED BY <1>1, <1>2, <2>2, <2>4, <2>5, <3>1 DEF Ownership
  <2>7. StatusMatches'
    BY <1>1, <2>2, <2>4 DEF StatusMatches
  <2> QED BY <2>6, <2>7
<1>4. CASE q \notin due
  <2>1. UNCHANGED <<wait, ready>>
    BY <1>4 DEF WaitScan
  <2>2. \A p \in Procs : OnList(p)' <=> OnList(p)
    BY <1>1, <2>1 DEF OnList
  <2>3. Ownership'
    BY <1>1, <1>2, <2>1, <2>2 DEF Ownership
  <2>4. StatusMatches'
    BY <1>1, <2>1 DEF StatusMatches
  <2> QED BY <2>3, <2>4
<1> QED BY <1>3, <1>4

(* So does sys_clone: the new process was nowhere before.                   *)
LEMMA ClonePlaces ==
    ASSUME TypeOK, Ownership, StatusMatches,
           NEW h \in Harts, NEW q \in Procs, Clone(h, q)
    PROVE  Ownership' /\ StatusMatches'
<1>1. /\ pc[h] = "user" /\ pc' = [pc EXCEPT ![h] = "tick"]
      /\ status[q] = "NONE" /\ status' = [status EXCEPT ![q] = "READY"]
      /\ ready \in Seq(Procs) /\ ready' = Cons(q, ready)
      /\ UNCHANGED <<wait, sleeping, data, cur, picked>>
  BY DEF Clone, Goto, TypeOK
<1>2. ~OnList(q) /\ \A g \in Harts : ~Holds(g, q)
  BY <1>1 DEF Ownership
<1>3. /\ q \notin Range(ready) /\ q \notin Range(wait) /\ q \notin Range(sleeping)
      /\ IsInjective(ready)
  BY <1>2 DEF OnList, Ownership
<1>4. Range(ready') = Range(ready) \cup {q} /\ IsInjective(ready')
  BY <1>1, <1>3, ConsList
<1>5. \A g \in Harts : pc'[g] = IF g = h THEN "tick" ELSE pc[g]
  BY <1>1 DEF TypeOK
<1>6. \A g \in Harts, p \in Procs : Holds(g, p)' <=> Holds(g, p)
  BY <1>1, <1>5 DEF Holds, OwnerLabels
<1>7. \A p \in Procs : OnList(p)' <=> OnList(p) \/ p = q
  BY <1>1, <1>4 DEF OnList
<1>8. status'[q] = "READY" /\ \A p \in Procs \ {q} : status'[p] = status[p]
  BY <1>1 DEF TypeOK
<1>9. Ownership'
  <2>1. /\ Range(ready') \cap Range(wait') = {}
        /\ Range(ready') \cap Range(sleeping') = {}
        /\ Range(wait') \cap Range(sleeping') = {}
    BY <1>1, <1>3, <1>4 DEF Ownership
  <2>2. \A g \in Harts, p \in Procs : Holds(g, p)' => ~OnList(p)'
    BY <1>2, <1>6, <1>7 DEF Ownership
  <2>3. \A p \in Procs :
          status'[p] # "NONE" <=> OnList(p)' \/ \E g \in Harts : Holds(g, p)'
    BY <1>6, <1>7, <1>8 DEF Ownership
  <2> QED BY <1>1, <1>4, <1>6, <2>1, <2>2, <2>3 DEF Ownership
<1>10. StatusMatches'
  <2>1. Range(wait) \subseteq Procs /\ Range(sleeping) \subseteq Procs
        /\ Range(ready) \subseteq Procs
    BY RangeOfSeq DEF TypeOK
  <2>2. /\ \A p \in Range(ready') : status'[p] \in {"READY", "WAIT"}
        /\ \A p \in Range(wait') : status'[p] = "WAIT"
        /\ \A p \in Range(sleeping') : status'[p] = "SLEEP"
    BY <1>1, <1>3, <1>4, <1>8, <2>1 DEF StatusMatches
  <2>3. \A g \in Harts :
          /\ pc[g] \in OwnerLabels => cur[g] \in Procs \ {q}
          /\ pc[g] = "dispatch" => picked[g] \in Procs \ {q}
    BY <1>2 DEF Holds, TypeOK
  <2>4. \A g \in Harts :
          /\ pc'[g] = "dispatch" => pc[g] = "dispatch"
          /\ pc'[g] = "move" => pc[g] = "move" /\ pc[g] \in OwnerLabels
          /\ pc'[g] \in OwnerLabels \ {"move"} => pc[g] \in OwnerLabels \ {"move"}
    BY <1>1, <1>5 DEF OwnerLabels
  <2>5. \A g \in Harts : pc'[g] = "dispatch" => status'[picked'[g]] \in {"READY", "WAIT"}
    BY <1>1, <1>8, <2>3, <2>4 DEF StatusMatches
  <2>6. \A g \in Harts :
          /\ pc'[g] = "move" => status'[cur'[g]] \in {"READY", "WAIT", "SLEEP"}
          /\ pc'[g] \in OwnerLabels \ {"move"} => status'[cur'[g]] \in {"RUN", "READY"}
    BY <1>1, <1>8, <2>3, <2>4 DEF StatusMatches
  <2>7. \A p \in Procs : data'[p] \in Sems <=> status'[p] = "SLEEP"
    BY <1>1, <1>8 DEF StatusMatches
  <2> QED BY <2>2, <2>5, <2>6, <2>7 DEF StatusMatches
<1> QED BY <1>9, <1>10

(* So does sys_execve: a running process may be READY, and it does not      *)
(* sleep.                                                                   *)
LEMMA ExecvePlaces ==
    ASSUME TypeOK, Ownership, StatusMatches, NEW h \in Harts, Execve(h)
    PROVE  Ownership' /\ StatusMatches'
<1> DEFINE q == cur[h]
<1>1. /\ q \in Procs /\ pc[h] = "user" /\ status[q] \in {"RUN", "READY"} /\ Holds(h, q)
      /\ pc' = [pc EXCEPT ![h] = "tick"] /\ status' = [status EXCEPT ![q] = "READY"]
      /\ UNCHANGED <<ready, wait, sleeping, data, cur, picked>>
  BY DEF Execve, Goto, listVars, TypeOK, OwnerLabels, Holds, StatusMatches
<1>2. \A g \in Harts : pc'[g] = IF g = h THEN "tick" ELSE pc[g]
  BY <1>1 DEF TypeOK
<1>3. \A g \in Harts, p \in Procs : Holds(g, p)' <=> Holds(g, p)
  BY <1>1, <1>2 DEF Holds, OwnerLabels
<1>4. \A p \in Procs : OnList(p)' <=> OnList(p)
  BY <1>1 DEF OnList
<1>5. status'[q] = "READY" /\ \A p \in Procs \ {q} : status'[p] = status[p]
  BY <1>1 DEF TypeOK
<1>6. ~OnList(q) /\ \A g \in Harts : Holds(g, q) => g = h
  BY <1>1 DEF Ownership
<1> HIDE DEF q
<1>7. Ownership'
  <2>1. \A p \in Procs : status'[p] # "NONE" <=> status[p] # "NONE"
    BY <1>1, <1>5
  <2> QED BY <1>1, <1>3, <1>4, <2>1 DEF Ownership
<1>8. StatusMatches'
  <2>1. \A p \in Range(ready) \cup Range(wait) \cup Range(sleeping) :
          p \in Procs /\ status'[p] = status[p]
    BY <1>5, <1>6, RangeOfSeq DEF OnList, TypeOK
  <2>2. \A g \in Harts \ {h} :
          /\ pc[g] \in OwnerLabels => cur[g] \in Procs \ {q}
          /\ pc[g] = "dispatch" => picked[g] \in Procs \ {q}
    BY <1>6 DEF Holds, TypeOK
  <2>3. \A g \in Harts :
          /\ pc'[g] = "dispatch" => g # h /\ pc[g] = "dispatch"
          /\ pc'[g] = "move" => g # h /\ pc[g] = "move" /\ pc[g] \in OwnerLabels
          /\ pc'[g] \in OwnerLabels \ {"move"} => pc[g] \in OwnerLabels \ {"move"}
    BY <1>1, <1>2 DEF OwnerLabels
  <2>4. \A g \in Harts : pc'[g] = "dispatch" => status'[picked'[g]] \in {"READY", "WAIT"}
    BY <1>1, <1>5, <2>2, <2>3 DEF StatusMatches
  <2>5. \A g \in Harts : pc'[g] = "move" => status'[cur'[g]] \in {"READY", "WAIT", "SLEEP"}
    BY <1>1, <1>5, <2>2, <2>3 DEF StatusMatches
  <2>6. ASSUME NEW g \in Harts, pc'[g] \in OwnerLabels \ {"move"}
        PROVE  status'[cur'[g]] \in {"RUN", "READY"}
    <3>1. CASE g = h
      BY <1>1, <1>5, <3>1 DEF q
    <3>2. CASE g # h
      BY <1>1, <1>5, <2>2, <2>3, <2>6, <3>2 DEF StatusMatches
    <3> QED BY <3>1, <3>2
  <2>7. \A p \in Procs : data'[p] \in Sems <=> status'[p] = "SLEEP"
    BY <1>1, <1>5 DEF StatusMatches
  <2> QED BY <1>1, <2>1, <2>4, <2>5, <2>6, <2>7 DEF StatusMatches
<1> QED BY <1>7, <1>8

(* Every step of the scheduler keeps the places and the statuses.           *)
LEMMA PlacesStep ==
    TypeOK /\ Ownership /\ StatusMatches /\ [Next]_vars
        => Ownership' /\ StatusMatches'
<1> SUFFICES ASSUME TypeOK, Ownership, StatusMatches, [Next]_vars
             PROVE  Ownership' /\ StatusMatches'
  OBVIOUS
<1> USE DEF Goto, listVars, procVars, hartVars
<1>1. ASSUME NEW h \in Harts,
              \/ WakeupBegin(h) \/ WakeupMiss(h)
              \/ NoTick(h) \/ Tick(h) \/ WaitScanBegin(h) \/ WaitScanEnd(h)
              \/ SliceLeft(h) \/ TimerTrap(h) \/ HandlerReturns(h)
              \/ Times(h) \/ Hang(h)
       PROVE  Ownership' /\ StatusMatches'
  <2>1. /\ UNCHANGED <<ready, wait, sleeping, status, data, cur, picked>>
        /\ pc[h] \in Running
        /\ \E l \in Running : pc' = [pc EXCEPT ![h] = l]
    BY <1>1 DEF WakeupBegin, WakeupMiss, WakeupDone, NoTick, Tick,
       WaitScanBegin, WaitScanEnd, SliceLeft, TimerTrap, HandlerReturns,
       Times, Hang, Running, OwnerLabels
  <2> QED BY <2>1, QuietStep
<1>2. ASSUME NEW h \in Harts, NEW s \in Sems,
              PPass(h, s) \/ PBlock(h, s) \/ VPost(h, s) \/ VWake(h, s)
       PROVE  Ownership' /\ StatusMatches'
  <2>1. /\ UNCHANGED <<ready, wait, sleeping, status, data, cur, picked>>
        /\ pc[h] \in Running
        /\ \E l \in Running : pc' = [pc EXCEPT ![h] = l]
    BY <1>2 DEF PPass, PBlock, VPost, VWake, CanV, InSyscall, Running, OwnerLabels
  <2> QED BY <2>1, QuietStep
<1>3. ASSUME NEW h \in Harts, SliceSpent(h) \/ Yield(h)
       PROVE  Ownership' /\ StatusMatches'
  <2>1. /\ UNCHANGED <<ready, wait, sleeping, cur, picked, data>>
        /\ pc[h] \in Running /\ pc' = [pc EXCEPT ![h] = "move"]
        /\ status' = [status EXCEPT ![cur[h]] = "READY"]
    BY <1>3 DEF SliceSpent, Yield, GiveUp, Running, OwnerLabels
  <2> QED BY <2>1, GiveUpStep
<1>4. ASSUME NEW h \in Harts, Nanosleep(h)
       PROVE  Ownership' /\ StatusMatches'
  <2>1. /\ UNCHANGED <<ready, wait, sleeping, cur, picked, data>>
        /\ pc[h] \in Running /\ pc' = [pc EXCEPT ![h] = "move"]
        /\ status' = [status EXCEPT ![cur[h]] = "WAIT"]
    BY <1>4 DEF Nanosleep, GiveUp, Running, OwnerLabels
  <2> QED BY <2>1, GiveUpStep
<1>5. ASSUME NEW h \in Harts, SleepOn(h)
       PROVE  Ownership' /\ StatusMatches'
  <2>1. /\ UNCHANGED <<ready, wait, sleeping, cur, picked>>
        /\ pc[h] \in Running /\ pc' = [pc EXCEPT ![h] = "move"]
        /\ status' = [status EXCEPT ![cur[h]] = "SLEEP"]
        /\ sem[h] \in Sems /\ data' = [data EXCEPT ![cur[h]] = sem[h]]
    BY <1>5 DEF SleepOn, GiveUp, Running, OwnerLabels, TypeOK
  <2> QED BY <2>1, GiveUpStep
<1>6. ASSUME UNCHANGED <<ready, wait, sleeping, status, data, cur, picked, pc>>
      PROVE  Ownership' /\ StatusMatches'
  BY <1>6 DEF Ownership, StatusMatches, Holds, OnList
<1>7. ASSUME NEW h \in Harts, WakeupSkip(h) PROVE Ownership' /\ StatusMatches'
  BY <1>7, <1>6 DEF WakeupSkip
<1>8. ASSUME NEW p \in Procs, DeadlinePasses(p) PROVE Ownership' /\ StatusMatches'
  BY <1>8, <1>6 DEF DeadlinePasses
<1>9. CASE UNCHANGED vars
  BY <1>9, <1>6 DEF vars
<1>10. ASSUME NEW h \in Harts, Spin(h) PROVE Ownership' /\ StatusMatches'
  BY <1>9, <1>10 DEF Spin
<1> QED
  BY <1>1, <1>2, <1>3, <1>4, <1>5, <1>7, <1>8, <1>9, <1>10, PickPlaces,
     DispatchPlaces, MovePlaces, SwitchPlaces, WakeupPlaces, WaitScanPlaces,
     ClonePlaces, ExecvePlaces DEF Next, Kernel, Program

-----------------------------------------------------------------------------

(* The inductive invariant: the locks, the places of the processes and      *)
(* their statuses need only the types and themselves to be preserved.       *)
IInv == TypeOK /\ LockDiscipline /\ Ownership /\ StatusMatches

(* The kernel starts in a state of the inductive invariant.                 *)
LEMMA InitIInv == Init => IInv
<1> SUFFICES ASSUME Init PROVE IInv
  OBVIOUS
<1> USE DEF Init
<1>1. /\ ready \in Seq(Procs) /\ wait \in Seq(Procs) /\ sleeping \in Seq(Procs)
      /\ Range(ready) = {Idle, First} /\ Range(wait) = {} /\ Range(sleeping) = {}
      /\ IsInjective(ready) /\ IsInjective(wait) /\ IsInjective(sleeping)
  BY DEF Range, IsInjective
<1>2. TypeOK
  BY <1>1 DEF TypeOK, Labels, OwnerLabels
<1>3. LockDiscipline
  BY DEF LockDiscipline, ListLabels
<1>4. \A h \in Harts, p \in Procs : ~Holds(h, p)
  BY DEF Holds
<1>5. \A p \in Procs : OnList(p) <=> p \in {Idle, First}
  BY <1>1 DEF OnList
<1>6. Ownership
  BY <1>1, <1>4, <1>5 DEF Ownership
<1>7. StatusMatches
  BY <1>1 DEF StatusMatches, OwnerLabels
<1> QED BY <1>2, <1>3, <1>6, <1>7 DEF IInv

(* No step of the scheduler leaves the inductive invariant.                 *)
LEMMA StepIInv == IInv /\ [Next]_vars => IInv'
  BY TypeStep, LockStep, PlacesStep DEF IInv

(* The inductive invariant holds in every reachable state, for any harts,   *)
(* processes and semaphores.                                                *)
THEOREM Invariance == Spec => []IInv
  BY InitIInv, StepIInv, PTL DEF Spec

(* Every reachable state has the types the model promises.                  *)
THEOREM TypeCorrect == Spec => []TypeOK
<1>1. IInv => TypeOK
  BY DEF IInv
<1> QED BY <1>1, Invariance, PTL

(* No hart ever releases, or is about to release, a lock of another hart.   *)
THEOREM LocksDisciplined == Spec => []LockDiscipline
<1>1. IInv => LockDiscipline
  BY DEF IInv
<1> QED BY <1>1, Invariance, PTL

(* No process is ever linked twice or runs on two harts, and none is lost,  *)
(* whatever the number of harts, processes and semaphores.                  *)
THEOREM ProcessesOwned == Spec => []Ownership
<1>1. IInv => Ownership
  BY DEF IInv
<1> QED BY <1>1, Invariance, PTL

(* The status and data fields always agree with the list of a process.      *)
THEOREM StatusesMatch == Spec => []StatusMatches
<1>1. IInv => StatusMatches
  BY DEF IInv
<1> QED BY <1>1, Invariance, PTL

-----------------------------------------------------------------------------
\* The order of wakeups

(* What makes the scan of wakeup() take the first match: its cursor starts  *)
(* at the head, everything before it sleeps on another semaphore, and       *)
(* list_lock keeps it so.                                                   *)
ScanInv ==
    \A h \in Harts :
        /\ pc[h] \notin {"wakeup_scan", "wait_scan"} => cursor[h] = 1
        /\ pc[h] = "wakeup_scan" =>
              \A i \in 1 .. Len(sleeping) :
                  i < cursor[h] => data[sleeping[i]] # sem[h]

(* A step of a hart that is not scanning sleep_list afterwards keeps the    *)
(* invariant if it leaves sleep_list and the data of its members alone or   *)
(* no other hart is scanning.                                               *)
LEMMA ScanQuiet ==
    ASSUME TypeOK, ScanInv, NEW h \in Harts,
           \A g \in Harts \ {h} :
               pc'[g] = pc[g] /\ cursor'[g] = cursor[g] /\ sem'[g] = sem[g],
           pc'[h] # "wakeup_scan",
           pc'[h] # "wait_scan" => cursor'[h] = 1,
           \/ /\ UNCHANGED sleeping
              /\ \A p \in Range(sleeping) : data'[p] = data[p]
           \/ \A g \in Harts \ {h} : pc[g] # "wakeup_scan"
    PROVE  ScanInv'
<1>1. \A i \in 1 .. Len(sleeping) : sleeping[i] \in Range(sleeping)
  BY DEF TypeOK, Range
<1> QED BY <1>1 DEF ScanInv

(* Every step keeps the scan invariant.                                     *)
LEMMA ScanStep == IInv /\ ScanInv /\ [Next]_vars => ScanInv'
<1> SUFFICES ASSUME IInv, ScanInv, [Next]_vars PROVE ScanInv'
  OBVIOUS
<1> USE DEF Goto, listVars, procVars, hartVars
<1>0. TypeOK /\ LockDiscipline /\ Ownership /\ StatusMatches
  BY DEF IInv
<1>1. ASSUME NEW h \in Harts,
             \/ Pick(h) \/ SwitchOut(h) \/ SwitchWild(h)
             \/ NoTick(h) \/ Tick(h)
             \/ WaitScanBegin(h) \/ SliceSpent(h) \/ SliceLeft(h)
             \/ Yield(h) \/ Nanosleep(h) \/ TimerTrap(h) \/ HandlerReturns(h)
             \/ Execve(h) \/ Times(h) \/ Hang(h)
      PROVE  ScanInv'
  <2>1. /\ UNCHANGED <<sleeping, data, cursor, sem>>
        /\ pc[h] \notin {"wakeup_scan", "wait_scan"}
        /\ \E l \in Labels \ {"wakeup_scan"} : pc' = [pc EXCEPT ![h] = l]
    BY <1>1 DEF Pick, SwitchOut, SwitchWild, NoTick, Tick, WaitScanBegin,
       SliceSpent, SliceLeft, Yield, Nanosleep, TimerTrap, HandlerReturns,
       Execve, Times, Hang, GiveUp, Labels
  <2>2. cursor[h] = 1
    BY <2>1 DEF ScanInv
  <2> QED BY <1>0, <2>1, <2>2, ScanQuiet DEF TypeOK, Labels
<1>2. ASSUME NEW h \in Harts, NEW s \in Sems,
             PPass(h, s) \/ PBlock(h, s) \/ VPost(h, s) \/ VWake(h, s)
      PROVE  ScanInv'
  <2>1. /\ UNCHANGED <<sleeping, data, cursor>>
        /\ pc[h] \notin {"wakeup_scan", "wait_scan"}
        /\ \E l \in Labels \ {"wakeup_scan"} : pc' = [pc EXCEPT ![h] = l]
        /\ sem' = sem \/ sem' = [sem EXCEPT ![h] = s]
    BY <1>2 DEF PPass, PBlock, VPost, VWake, CanV, InSyscall, Labels
  <2>2. cursor[h] = 1
    BY <2>1 DEF ScanInv
  <2> QED BY <1>0, <2>1, <2>2, ScanQuiet DEF TypeOK, Labels
<1>3. ASSUME NEW h \in Harts, Dispatch(h) PROVE ScanInv'
  <2>1. picked[h] \in Procs /\ resume[picked[h]] \in {"user", "kernel", "tick"}
    BY <1>0, <1>3 DEF Dispatch, TypeOK
  <2>2. /\ UNCHANGED <<sleeping, data, cursor, sem>>
        /\ pc[h] = "dispatch" /\ pc' = [pc EXCEPT ![h] = resume[picked[h]]]
    BY <1>3 DEF Dispatch
  <2>3. cursor[h] = 1
    BY <2>2 DEF ScanInv
  <2> QED BY <1>0, <2>1, <2>2, <2>3, ScanQuiet DEF TypeOK
<1>4. ASSUME NEW h \in Harts, MoveToList(h) PROVE ScanInv'
  <2>1. /\ UNCHANGED <<cursor, sem>> /\ listLock = NoHart
        /\ pc[h] = "move" /\ pc' = [pc EXCEPT ![h] = "switch"]
    BY <1>4 DEF MoveToList
  <2>2. \A g \in Harts : pc[g] # "wakeup_scan"
    BY <1>0, <2>1 DEF LockDiscipline, ListLabels
  <2>3. cursor[h] = 1
    BY <2>1 DEF ScanInv
  <2> QED BY <1>0, <2>1, <2>2, <2>3, ScanQuiet DEF TypeOK
<1>5. ASSUME NEW h \in Harts, SleepOn(h) PROVE ScanInv'
  <2>1. /\ UNCHANGED <<sleeping, cursor>> /\ sem' = [sem EXCEPT ![h] = NoSem]
        /\ pc[h] = "sleep" /\ pc' = [pc EXCEPT ![h] = "move"]
        /\ data' = [data EXCEPT ![cur[h]] = sem[h]]
    BY <1>5 DEF SleepOn, GiveUp
  <2>2. cur[h] \in Procs /\ Holds(h, cur[h])
    BY <1>0, <2>1 DEF TypeOK, OwnerLabels, Holds
  <2>3. \A p \in Range(sleeping) : data'[p] = data[p]
    <3>1. cur[h] \notin Range(sleeping)
      BY <1>0, <2>2 DEF Ownership, OnList
    <3>2. Range(sleeping) \subseteq Procs
      BY <1>0, RangeOfSeq DEF TypeOK
    <3> QED BY <1>0, <2>1, <3>1, <3>2 DEF TypeOK
  <2>4. cursor[h] = 1
    BY <2>1 DEF ScanInv
  <2> QED BY <1>0, <2>1, <2>3, <2>4, ScanQuiet DEF TypeOK
<1>6. ASSUME NEW h \in Harts, WakeupBegin(h) PROVE ScanInv'
  <2>1. /\ UNCHANGED <<sleeping, data, cursor, sem>> /\ pc[h] = "wakeup"
        /\ pc' = [pc EXCEPT ![h] = "wakeup_scan"]
    BY <1>6 DEF WakeupBegin
  <2>2. cursor[h] = 1
    BY <2>1 DEF ScanInv
  <2>3. \A i \in 1 .. Len(sleeping) : ~(i < cursor[h])
    BY <2>2
  <2> QED BY <1>0, <2>1, <2>2, <2>3 DEF ScanInv, TypeOK
<1>7. ASSUME NEW h \in Harts, WakeupHit(h) \/ WakeupMiss(h) PROVE ScanInv'
  <2>1. /\ pc[h] = "wakeup_scan" /\ pc' = [pc EXCEPT ![h] = "kernel"]
        /\ cursor' = [cursor EXCEPT ![h] = 1] /\ sem' = [sem EXCEPT ![h] = NoSem]
    BY <1>7 DEF WakeupHit, WakeupMiss, WakeupDone
  <2>2. \A g \in Harts \ {h} : pc[g] # "wakeup_scan"
    BY <1>0, <2>1 DEF LockDiscipline, ListLabels
  <2> QED BY <1>0, <2>1, <2>2, ScanQuiet DEF TypeOK
<1>8. ASSUME NEW h \in Harts, WakeupSkip(h) PROVE ScanInv'
  <2>1. /\ UNCHANGED <<sleeping, data, pc, sem>> /\ pc[h] = "wakeup_scan"
        /\ data[sleeping[cursor[h]]] # sem[h]
        /\ cursor' = [cursor EXCEPT ![h] = @ + 1]
    BY <1>8 DEF WakeupSkip
  <2>2. \A g \in Harts \ {h} : cursor'[g] = cursor[g]
    BY <1>0, <2>1 DEF TypeOK
  <2>3. cursor[h] \in Nat /\ cursor'[h] = cursor[h] + 1 /\ Len(sleeping) \in Nat
    BY <1>0, <2>1 DEF TypeOK
  <2>4. \A i \in 1 .. Len(sleeping) :
          i < cursor'[h] => i < cursor[h] \/ i = cursor[h]
    BY <2>3
  <2> QED BY <2>1, <2>2, <2>4 DEF ScanInv
<1>9. ASSUME NEW h \in Harts, WaitScan(h) PROVE ScanInv'
  <2>1. /\ UNCHANGED <<sleeping, data, sem, pc>> /\ pc[h] = "wait_scan"
        /\ \A g \in Harts \ {h} : cursor'[g] = cursor[g]
    BY <1>0, <1>9 DEF WaitScan, TypeOK
  <2> QED BY <1>0, <2>1, ScanQuiet
<1>10. ASSUME NEW h \in Harts, WaitScanEnd(h) PROVE ScanInv'
  <2>1. /\ UNCHANGED <<sleeping, data, sem>> /\ pc[h] = "wait_scan"
        /\ pc' = [pc EXCEPT ![h] = "slice"]
        /\ cursor' = [cursor EXCEPT ![h] = 1]
    BY <1>10 DEF WaitScanEnd
  <2> QED BY <1>0, <2>1, ScanQuiet DEF TypeOK
<1>11. ASSUME NEW h \in Harts, NEW p \in Procs, Clone(h, p) PROVE ScanInv'
  <2>1. /\ UNCHANGED <<sleeping, data, sem, cursor>> /\ pc[h] = "user"
        /\ pc' = [pc EXCEPT ![h] = "tick"]
    BY <1>11 DEF Clone
  <2>2. cursor[h] = 1
    BY <2>1 DEF ScanInv
  <2> QED BY <1>0, <2>1, <2>2, ScanQuiet DEF TypeOK
<1>12. ASSUME UNCHANGED <<sleeping, data, sem, cursor, pc>> PROVE ScanInv'
  BY <1>12 DEF ScanInv
<1>13. ASSUME NEW p \in Procs, DeadlinePasses(p) PROVE ScanInv'
  BY <1>12, <1>13 DEF DeadlinePasses
<1>14. CASE UNCHANGED vars
  BY <1>12, <1>14 DEF vars
<1>15. ASSUME NEW h \in Harts, Spin(h) PROVE ScanInv'
  BY <1>14, <1>15 DEF Spin
<1> QED
  BY <1>1, <1>2, <1>3, <1>4, <1>5, <1>6, <1>7, <1>8, <1>9, <1>10,
     <1>11, <1>13, <1>14, <1>15 DEF Next, Kernel, Program

(* The kernel starts with no scan in progress.                              *)
LEMMA InitScan == Init => ScanInv
  BY DEF Init, ScanInv

(* One step keeps every sleeper that queues behind another one of its own   *)
(* semaphore: only WakeupHit unlinks, at the cursor, and the scan invariant *)
(* says that nothing before the cursor sleeps on the same semaphore.        *)
LEMMA OrderStep ==
    ASSUME IInv, ScanInv, [Next]_vars,
           NEW p \in Procs, NEW q \in Procs, Before(p, q), data[p] = data[q]
    PROVE  q \in Range(sleeping')
<1> USE DEF Goto, listVars, procVars, hartVars
<1>0. TypeOK /\ LockDiscipline /\ Ownership /\ StatusMatches
  BY DEF IInv
<1>1. PICK i \in DOMAIN sleeping, j \in DOMAIN sleeping :
         i < j /\ sleeping[i] = p /\ sleeping[j] = q
  BY DEF Before
<1>2. /\ sleeping \in Seq(Procs) /\ DOMAIN sleeping = 1 .. Len(sleeping)
      /\ q \in Range(sleeping) /\ IsInjective(sleeping)
  BY <1>0, <1>1 DEF TypeOK, Range, Ownership
<1>3. ASSUME NEW h \in Harts, WakeupHit(h) PROVE q \in Range(sleeping')
  <2> DEFINE c == cursor[h]
  <2>1. /\ pc[h] = "wakeup_scan" /\ c <= Len(sleeping) /\ c \in Nat \ {0}
        /\ data[sleeping[c]] = sem[h] /\ sleeping' = RemoveAt(sleeping, c)
    BY <1>0, <1>3 DEF WakeupHit, TypeOK
  <2>2. c \in 1 .. Len(sleeping) /\ i \in 1 .. Len(sleeping)
    BY <1>2, <2>1
  <2>3. q # sleeping[c]
    <3> SUFFICES ASSUME q = sleeping[c] PROVE FALSE
      OBVIOUS
    <3>1. j = c
      BY <1>1, <1>2, <2>2 DEF IsInjective
    <3>2. data[p] = sem[h]
      BY <2>1
    <3> QED BY <1>1, <2>1, <2>2, <3>1, <3>2 DEF ScanInv
  <2> HIDE DEF c
  <2>4. Range(RemoveAt(sleeping, c)) = Range(sleeping) \ {sleeping[c]}
    BY <1>2, <2>2, RemoveAtList
  <2> QED BY <1>2, <2>1, <2>3, <2>4
<1>4. ASSUME NEW h \in Harts, MoveToList(h) PROVE q \in Range(sleeping')
  <2>1. cur[h] \in Procs
    BY <1>0, <1>4 DEF MoveToList, TypeOK, OwnerLabels
  <2>2. sleeping' = sleeping \/ sleeping' = Append(sleeping, cur[h])
    BY <1>4 DEF MoveToList
  <2>3. Range(Append(sleeping, cur[h])) = Range(sleeping) \cup {cur[h]}
    BY <1>2, <2>1, AppendList
  <2>4. CASE sleeping' = sleeping
    BY <1>2, <2>4
  <2>5. CASE sleeping' = Append(sleeping, cur[h])
    BY <1>2, <2>3, <2>5
  <2> QED BY <2>2, <2>4, <2>5
<1>5. ASSUME UNCHANGED sleeping PROVE q \in Range(sleeping')
  BY <1>2, <1>5
<1>6. ASSUME NEW h \in Harts, Kernel(h), ~WakeupHit(h), ~MoveToList(h)
      PROVE  UNCHANGED sleeping
  BY <1>6 DEF Kernel, Pick, Dispatch, SwitchOut, SwitchWild, SleepOn,
     WakeupBegin, WakeupSkip, WakeupMiss, NoTick, Tick, WaitScanBegin,
     WaitScan, WaitScanEnd, SliceSpent, SliceLeft
<1>7. ASSUME NEW h \in Harts, Program(h) PROVE UNCHANGED sleeping
  BY <1>7 DEF Program, PPass, PBlock, VPost, VWake, Clone, Yield, Nanosleep,
     Execve, Times, Hang, Spin, vars, TimerTrap, HandlerReturns
<1>8. ASSUME NEW r \in Procs, DeadlinePasses(r) PROVE UNCHANGED sleeping
  BY <1>8 DEF DeadlinePasses
<1>9. CASE UNCHANGED vars
  BY <1>2, <1>9 DEF vars
<1> QED
  BY <1>3, <1>4, <1>5, <1>6, <1>7, <1>8, <1>9 DEF Next

(* One step puts nobody in front of a sleeper: MoveToList appends a process *)
(* that was on no list, and WakeupHit leaves the others in their order.     *)
LEMMA QueueStep ==
    ASSUME IInv, [Next]_vars,
           NEW p \in Procs, NEW q \in Procs, p \in Range(sleeping), Before(q, p)'
    PROVE  Before(q, p)
<1> USE DEF Goto, listVars, procVars, hartVars
<1>0. TypeOK /\ LockDiscipline /\ Ownership /\ StatusMatches
  BY DEF IInv
<1>1. PICK i \in DOMAIN sleeping', j \in DOMAIN sleeping' :
         i < j /\ sleeping'[i] = q /\ sleeping'[j] = p
  BY DEF Before
<1>2. /\ sleeping \in Seq(Procs) /\ DOMAIN sleeping = 1 .. Len(sleeping)
      /\ Len(sleeping) \in Nat
  BY <1>0 DEF TypeOK
<1>3. ASSUME NEW h \in Harts, WakeupHit(h) PROVE Before(q, p)
  <2> DEFINE c == cursor[h]
  <2>1. /\ c <= Len(sleeping) /\ c \in Nat \ {0}
        /\ sleeping' = RemoveAt(sleeping, c)
    BY <1>0, <1>3 DEF WakeupHit, TypeOK
  <2>2. c \in 1 .. Len(sleeping)
    BY <1>2, <2>1
  <2> HIDE DEF c
  <2>3. /\ sleeping' \in Seq(Procs) /\ Len(sleeping') = Len(sleeping) - 1
        /\ \A k \in 1 .. Len(sleeping) - 1 :
              sleeping'[k] = IF k < c THEN sleeping[k] ELSE sleeping[k + 1]
    <3> DEFINE r == RemoveAt(sleeping, c)
    <3>1. /\ r \in Seq(Procs) /\ Len(r) = Len(sleeping) - 1
          /\ \A k \in 1 .. Len(sleeping) - 1 :
                r[k] = IF k < c THEN sleeping[k] ELSE sleeping[k + 1]
      BY <1>2, <2>2, RemoveAtElements
    <3>2. sleeping' = r
      BY <2>1
    <3> HIDE DEF r
    <3> QED BY <3>1, <3>2
  <2>4. i \in 1 .. Len(sleeping) - 1 /\ j \in 1 .. Len(sleeping) - 1
    BY <1>1, <2>3
  <2> DEFINE old(k) == IF k < c THEN k ELSE k + 1
  <2>5. /\ old(i) \in DOMAIN sleeping /\ old(j) \in DOMAIN sleeping
        /\ old(i) < old(j)
    BY <1>1, <1>2, <2>2, <2>4
  <2>6. sleeping[old(i)] = q /\ sleeping[old(j)] = p
    BY <1>1, <2>3, <2>4
  <2> QED BY <2>5, <2>6 DEF Before
<1>4. ASSUME NEW h \in Harts, MoveToList(h) PROVE Before(q, p)
  <2>1. cur[h] \in Procs /\ pc[h] = "move"
    BY <1>0, <1>4 DEF MoveToList, TypeOK, OwnerLabels
  <2>2. cur[h] \notin Range(sleeping)
    BY <1>0, <2>1 DEF Ownership, Holds, OnList, OwnerLabels
  <2>3. p # cur[h]
    BY <2>2
  <2>4. CASE sleeping' = sleeping
    BY <1>1, <2>4 DEF Before
  <2>5. CASE sleeping' = Append(sleeping, cur[h])
    <3>1. DOMAIN sleeping' = 1 .. Len(sleeping) + 1
      BY <1>2, <2>1, <2>5
    <3>2. sleeping'[Len(sleeping) + 1] = cur[h]
      BY <1>2, <2>1, <2>5
    <3>3. j # Len(sleeping) + 1
      BY <1>1, <2>3, <3>2
    <3>4. i \in DOMAIN sleeping /\ j \in DOMAIN sleeping
      BY <1>1, <1>2, <3>1, <3>3
    <3>5. sleeping'[i] = sleeping[i] /\ sleeping'[j] = sleeping[j]
      BY <1>2, <2>1, <2>5, <3>4
    <3> QED BY <1>1, <3>4, <3>5 DEF Before
  <2> QED BY <1>4, <2>4, <2>5 DEF MoveToList
<1>5. ASSUME UNCHANGED sleeping PROVE Before(q, p)
  BY <1>1, <1>5 DEF Before
<1>6. ASSUME NEW h \in Harts, Kernel(h), ~WakeupHit(h), ~MoveToList(h)
      PROVE  UNCHANGED sleeping
  BY <1>6 DEF Kernel, Pick, Dispatch, SwitchOut, SwitchWild, SleepOn,
     WakeupBegin, WakeupSkip, WakeupMiss, NoTick, Tick, WaitScanBegin,
     WaitScan, WaitScanEnd, SliceSpent, SliceLeft
<1>7. ASSUME NEW h \in Harts, Program(h) PROVE UNCHANGED sleeping
  BY <1>7 DEF Program, PPass, PBlock, VPost, VWake, Clone, Yield, Nanosleep,
     Execve, Times, Hang, Spin, vars, TimerTrap, HandlerReturns
<1>8. ASSUME NEW r \in Procs, DeadlinePasses(r) PROVE UNCHANGED sleeping
  BY <1>8 DEF DeadlinePasses
<1>9. CASE UNCHANGED vars
  BY <1>5, <1>9 DEF vars
<1> QED
  BY <1>3, <1>4, <1>5, <1>6, <1>7, <1>8, <1>9 DEF Next

(* Processes that sleep on one semaphore are woken in the order in which    *)
(* they went to sleep, whatever the other semaphores and harts do.          *)
THEOREM WakeupsInOrder == Spec => WakeInOrder
<1>1. Spec => [](IInv /\ ScanInv)
  <2>1. IInv /\ ScanInv /\ [Next]_vars => (IInv /\ ScanInv)'
    BY StepIInv, ScanStep
  <2>2. Init => IInv /\ ScanInv
    BY InitIInv, InitScan
  <2> QED BY <2>1, <2>2, PTL DEF Spec
<1>2. IInv /\ ScanInv /\ [Next]_vars
        => [\A p, q \in Procs :
              /\ p \in Range(sleeping) /\ Before(q, p)' => Before(q, p)
              /\ Before(p, q) /\ data[p] = data[q] => q \in Range(sleeping')]_vars
  BY OrderStep, QueueStep
<1> QED BY <1>1, <1>2, PTL DEF Spec, WakeInOrder
=============================================================================
