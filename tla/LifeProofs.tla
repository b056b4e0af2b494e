----------------------------- MODULE LifeProofs -----------------------------
(* Proofs about ProcLife for any number of harts, processes and pids.       *)
EXTENDS ProcLife, ListLemmas, FiniteSetTheorems, TLAPS

USE CpuAssumption, PidAssumption, ProcsAssumption

(* A process in sys_clone has one new child of its own, which is linked     *)
(* nowhere and has not started; nobody points to a process that has not     *)
(* started.                                                                 *)
Cloning == {"clone", "hung"}
CloneOK ==
    /\ \A p \in Procs : pc[p] = "none" <=> alloc[p] = "unused" \/ InClone(p)
    /\ \A p \in Procs : pc[p] \in Cloning =>
          alloc[arg[p]] = "used" /\ parent[arg[p]] = p
    /\ \A p \in Procs : pc[p] = "none" => children[p] = {}
    /\ \A p \in Procs : \A c \in children[p] : pc[c] # "none"
    /\ \A p \in Procs : parent[p] \in Procs => pc[parent[p]] # "none"
    /\ \A p \in Procs : pc[p] \in ExitLabels /\ arg[p] \in Procs => pc[arg[p]] # "none"

(* Following parent pointers, and in sys_exit the parent read before, never *)
(* leads back: every set of processes has one whose pointers leave it.      *)
Acyclic ==
    \A S \in SUBSET Procs : S # {} =>
        \E p \in S : parent[p] \notin S /\ (pc[p] \in ExitLabels => arg[p] \notin S)

(* Process 0 keeps pid 0 and never exits.                                   *)
IdleOK == pids[0] = Idle /\ Idle \notin dead

(* A process in sys_exit still has the parent it read, unless it has been   *)
(* freed meanwhile; none without a parent comes to the end of it.           *)
ParentRead ==
    /\ \A p \in Procs : pc[p] \in ExitLabels /\ alloc[p] = "used" => parent[p] = arg[p]
    /\ \A p \in Procs : pc[p] = "gone" /\ alloc[p] = "used" => parent[p] \in Procs

(* sleep_lock is below zero only while its process sleeps or is about to,   *)
(* and then it is -1; the one that raised it to zero, and no other, owes    *)
(* that process a wakeup.                                                   *)
Sleeping == {"wait_sleep", "asleep"}
CreditSign == \A p \in Procs :
    credit[p] >= -1 /\ (credit[p] < 0 => pc[p] \in Sleeping)
WakeOwed ==
    /\ \A q \in Procs : pc[q] = "exit_wake" =>
          credit[arg[q]] >= 0 /\ pc[arg[q]] \in Sleeping
    /\ \A q, r \in Procs :
          pc[q] = "exit_wake" /\ pc[r] = "exit_wake" /\ arg[q] = arg[r] => q = r

(* Nor do child lists: no set of processes keeps only itself.               *)
KeptFromOutside ==
    \A S \in SUBSET Procs : S # {} => \E c \in S : \A p \in S : c \notin children[p]

(* No more processes are in the kernel than there are harts.                *)
HartsBounded == Cardinality(OnHart) <= CpuN

IInv ==
    /\ TypeOK /\ CloneOK /\ FamilyTree /\ IdleOK /\ PidTable
    /\ Acyclic /\ ParentRead /\ DeadAnnounced
    /\ CreditSign /\ WakeOwed /\ ZombiesHaveCredit /\ HartsBounded /\ KeptFromOutside

(* As long as nobody runs who has been freed, every process that has        *)
(* started, but process 0, is on the child list of one that is in use.      *)
NobodyLost ==
    (\A q \in Procs : ~RunsFreed(q)) =>
        \A c \in Procs \ {Idle} : alloc[c] = "used" /\ ~InClone(c) =>
            \E p \in Procs : alloc[p] = "used" /\ c \in children[p]

(* A process sleeps in wait4 only while there is nothing to report, or one  *)
(* of its children is about to wake it.                                     *)
Waker(p) == \E q \in Procs : pc[q] = "exit_wake" /\ arg[q] = p
NoChildOverslept == \A p \in Procs : pc[p] = "asleep" => Zombies(p) = {} \/ Waker(p)

(* Why: the semaphore is at -1 from the decrement to the wakeup.            *)
SleepOwed == \A p \in Procs :
    /\ pc[p] = "wait_sleep" => credit[p] = -1
    /\ pc[p] = "asleep" => credit[p] = -1 \/ Waker(p)

USE DEF Pids, Goto, At, Cloning

-----------------------------------------------------------------------------
\* Types

(* Unlinking a child leaves a list of processes.                            *)
LEMMA UnlinkType ==
    ASSUME TypeOK, NEW c \in Procs, Unlink(c) PROVE deadList' \in Seq(Procs)
<1>1. CASE \E i \in DOMAIN deadList : deadList' = RemoveAt(deadList, i)
  <2>1. PICK i \in DOMAIN deadList : deadList' = RemoveAt(deadList, i)
    BY <1>1
  <2>2. i \in 1 .. Len(deadList)
    BY <2>1 DEF TypeOK
  <2> QED BY <2>1, <2>2, RemoveAtElements DEF TypeOK
<1>2. CASE UNCHANGED deadList
  BY <1>2 DEF TypeOK
<1> QED BY <1>1, <1>2 DEF Unlink

(* What a step that frees one child of p does to the types.                 *)
LEMMA ReapType ==
    ASSUME TypeOK, NEW p \in Procs, NEW c \in children[p] \cap dead, Reap(p, c)
    PROVE  /\ alloc' = [alloc EXCEPT ![c] = "freed"]
           /\ pids' \in [Pids -> Procs \cup {NoProc}]
           /\ children' = [children EXCEPT ![p] = @ \ {c}]
           /\ deadList' \in Seq(Procs)
<1>1. c \in Procs /\ Unlink(c)
  BY DEF Reap, TypeOK
<1>2. deadList' \in Seq(Procs)
  BY <1>1, UnlinkType
<1> QED BY <1>1, <1>2 DEF Reap, Release, FreePids, TypeOK

(* A step that moves p to another label, and may change its register and a  *)
(* credit.                                                                  *)
LEMMA MoveType ==
    ASSUME TypeOK, NEW p \in Procs, NEW l \in Labels,
           pc' = [pc EXCEPT ![p] = l],
           arg' = arg \/ arg' = [arg EXCEPT ![p] = NoProc],
           credit' \in [Procs -> Int],
           UNCHANGED <<alloc, dead, pids, parent, children, pending, deadList>>,
           wild' \in BOOLEAN,
           RegistersFit(p)'
    PROVE  TypeOK'
<1>1. /\ pc' \in [Procs -> Labels] /\ arg' \in [Procs -> Procs \cup {NoProc, AnyChild}]
      /\ \A q \in Procs \ {p} : pc'[q] = pc[q] /\ arg'[q] = arg[q]
  BY DEF TypeOK
<1>2. ASSUME NEW q \in Procs \ {p} PROVE RegistersFit(q)'
  <2>1. RegistersFit(q) /\ pc'[q] = pc[q] /\ arg'[q] = arg[q]
    BY <1>1 DEF TypeOK
  <2> QED BY <2>1 DEF RegistersFit
<1> QED BY <1>1, <1>2 DEF TypeOK

(* A step of the code keeps the types.                                      *)
LEMMA TypeStep == TypeOK /\ CloneOK /\ PidTable /\ [Next]_vars => TypeOK'
<1> SUFFICES ASSUME TypeOK, CloneOK, PidTable, [Next]_vars PROVE TypeOK'
  OBVIOUS
<1> USE DEF Labels, KernelLabels, ExitLabels, WaitLabels, RegistersFit
<1>1. ASSUME NEW p \in Procs, HandleSignal(p) PROVE TypeOK'
  <2>1. /\ pending' \in [Procs -> Seq(Pids)]
        /\ UNCHANGED <<dead, parent, credit, arg, wild>>
    BY <1>1 DEF HandleSignal, TypeOK
  <2>2. /\ pc' \in [Procs -> Labels] /\ pc[p] = "trap_end" /\ pc'[p] \in {"user", "trap_end"}
        /\ \A q \in Procs \ {p} : pc'[q] = pc[q]
    BY <1>1 DEF HandleSignal, TypeOK
  <2>3. CASE SignalledChild(p) = {} /\ UNCHANGED <<alloc, pids, children, deadList>>
    BY <2>1, <2>2, <2>3 DEF TypeOK
  <2>4. ASSUME NEW c \in SignalledChild(p), Reap(p, c) PROVE TypeOK'
    <3>1. c \in children[p] \cap dead /\ c \in Procs
      BY <2>4 DEF SignalledChild, TypeOK
    <3>2. /\ alloc' = [alloc EXCEPT ![c] = "freed"]
          /\ pids' \in [Pids -> Procs \cup {NoProc}]
          /\ children' = [children EXCEPT ![p] = @ \ {c}]
          /\ deadList' \in Seq(Procs)
      BY <2>4, <3>1, ReapType
    <3> QED BY <2>1, <2>2, <3>1, <3>2, SMTT(30) DEF TypeOK
  <2> QED BY <1>1, <2>3, <2>4 DEF HandleSignal
<1>2. ASSUME NEW p \in Procs, ReportChild(p), pc[p] \in {"poll", "wait_scan"},
             UNCHANGED <<dead, parent, credit, pending, wild>>
      PROVE  TypeOK'
  <2>1. PICK c \in WantedChild(p) : Reap(p, c)
    BY <1>2 DEF ReportChild
  <2>2. c \in children[p] \cap dead /\ c \in Procs
    BY <2>1 DEF WantedChild, TypeOK
  <2>3. /\ alloc' = [alloc EXCEPT ![c] = "freed"]
        /\ pids' \in [Pids -> Procs \cup {NoProc}]
        /\ children' = [children EXCEPT ![p] = @ \ {c}]
        /\ deadList' \in Seq(Procs)
    BY <2>1, <2>2, ReapType
  <2>4. pc' = [pc EXCEPT ![p] = "trap_end"] /\ arg' = [arg EXCEPT ![p] = NoProc]
    BY <1>2 DEF ReportChild
  <2> QED BY <1>2, <2>2, <2>3, <2>4 DEF TypeOK
<1>3. ASSUME NEW p \in Procs, NEW c \in Procs, NewProc(p, c) PROVE TypeOK'
  BY <1>3, SMTT(30) DEF NewProc, FreePid, TypeOK, CloneOK
<1>4. ASSUME NEW p \in Procs, StartChild(p) PROVE TypeOK'
  <2>1. PICK c \in Procs : c = arg[p] /\ pc[c] = "none" /\ c # p
    BY <1>4 DEF StartChild, TypeOK, CloneOK, InClone
  <2>2. /\ pc' \in [Procs -> Labels] /\ pc'[p] = "trap_end" /\ pc'[c] = "user"
        /\ \A q \in Procs \ {p, c} : pc'[q] = pc[q]
    BY <1>4, <2>1 DEF StartChild, TypeOK
  <2>3. /\ arg' \in [Procs -> Procs \cup {NoProc, AnyChild}]
        /\ arg'[p] = NoProc /\ \A q \in Procs \ {p} : arg'[q] = arg[q]
    BY <1>4 DEF StartChild, TypeOK
  <2>4. /\ children' \in [Procs -> SUBSET Procs]
        /\ \A q \in Procs : children[q] \subseteq children'[q]
    BY <1>4, <2>1 DEF StartChild, TypeOK
  <2>5. UNCHANGED <<alloc, dead, pids, parent, credit, pending, deadList, wild>>
    BY <1>4 DEF StartChild
  <2>6. pc[p] = "clone" /\ arg[c] = NoProc /\ c \notin dead /\ p \notin dead
    BY <1>4, <2>1 DEF StartChild, TypeOK
  <2>0. RegistersFit(p) /\ RegistersFit(c) /\ p \in Procs /\ c \in Procs
    BY <2>1 DEF TypeOK
  <2>7. RegistersFit(p)' /\ RegistersFit(c)'
    <3>1. alloc' = alloc /\ dead' = dead /\ arg'[c] = NoProc
      BY <2>1, <2>3, <2>5, <2>6
    <3>2. RegistersFit(p)'
      BY <2>0, <2>2, <2>3, <2>6, <3>1
    <3>3. RegistersFit(c)'
      BY <2>0, <2>2, <2>6, <3>1
    <3> QED BY <3>2, <3>3
  <2>8. \A q \in Procs \ {p, c} : RegistersFit(q)'
    BY <2>1, <2>2, <2>3, <2>4, <2>5, <2>6, SMTT(30) DEF TypeOK
  <2> QED BY <2>1, <2>2, <2>3, <2>4, <2>5, <2>6, <2>7, <2>8 DEF TypeOK
<1>5. ASSUME NEW p \in Procs, NEW c \in children[p] \cup {AnyChild},
             NEW how \in {"poll", "wait"}, Wait4(p, c, how)
      PROVE  TypeOK'
  BY <1>5, SMTT(30) DEF Wait4, TypeOK
<1>6. ASSUME NEW p \in Procs, Exit(p) PROVE TypeOK'
  BY <1>6 DEF Exit, TypeOK
<1>7. ASSUME NEW p \in Procs, ExitFamily(p) PROVE TypeOK'
  <2>1. arg[p] \in Procs /\ arg[p] # p
    BY <1>7 DEF ExitFamily, ParentOk, Locked
  <2>2. /\ parent' \in [Procs -> Procs \cup {NoProc}]
        /\ children' = [children EXCEPT ![p] = {}, ![arg[p]] = @ \cup (children[p] \ dead)]
        /\ alloc' = [q \in Procs |-> IF q \in children[p] \cap dead THEN "freed" ELSE alloc[q]]
        /\ pids' \in [Pids -> Procs \cup {NoProc}]
    BY <1>7 DEF ExitFamily, Orphan, HandOver, Release, FreePids, TypeOK
  <2>3. /\ children' \in [Procs -> SUBSET Procs]
        /\ \A q \in Procs \ {p} : children[q] \subseteq children'[q]
    BY <2>1, <2>2 DEF TypeOK
  <2>4. pending' \in [Procs -> Seq(Pids)]
    BY <1>7 DEF ExitFamily, TypeOK
  <2>5. /\ pc[p] = "exit_family" /\ pc' = [pc EXCEPT ![p] = "exit_signal"]
        /\ UNCHANGED <<dead, credit, deadList, arg, wild>>
    BY <1>7 DEF ExitFamily
  <2>6. /\ alloc' \in [Procs -> {"unused", "used", "freed"}]
        /\ \A q \in Procs : alloc'[q] = "freed" => q \in dead
    BY <2>2 DEF TypeOK
  <2>7. /\ pc' \in [Procs -> Labels] /\ p \in dead
        /\ \A q \in Procs \ {p} : pc'[q] = pc[q]
    BY <2>5 DEF TypeOK
  <2>8. RegistersFit(p)'
    BY <2>1, <2>2, <2>5, <2>6, <2>7 DEF TypeOK
  <2>9. \A q \in Procs \ {p} : RegistersFit(q)'
    BY <2>2, <2>3, <2>5, <2>6, <2>7 DEF TypeOK
  <2> QED BY <2>1, <2>2, <2>3, <2>4, <2>5, <2>6, <2>7, <2>8, <2>9 DEF TypeOK
<1>8. ASSUME NEW p \in Procs, ExitSignal(p) PROVE TypeOK'
  <2>1. Pid(p) \in Pids
    BY <1>8 DEF ExitSignal, PidTable, Pid
  <2>2. pending' \in [Procs -> Seq(Pids)]
    BY <1>8, <2>1, AppendList DEF ExitSignal, Announce, ParentOk, TypeOK
  <2> QED BY <1>8, <2>2, ZenonT(60) DEF ExitSignal, ParentOk, TypeOK
<1>9. ASSUME NEW p \in Procs, ExitPost(p) PROVE TypeOK'
  BY <1>9 DEF ExitPost, ParentOk, TypeOK
<1>10. ASSUME NEW p \in Procs, ExitWake(p) PROVE TypeOK'
  <2>1. /\ pc' \in [Procs -> Labels] /\ pc[p] = "exit_wake" /\ pc'[p] = "exit_move"
        /\ \A q \in Procs \ {p} :
              pc'[q] = pc[q] \/ (pc[q] = "asleep" /\ pc'[q] = "woken")
    BY <1>10 DEF ExitWake, TypeOK
  <2> QED BY <1>10, <2>1, SMTT(30) DEF ExitWake, TypeOK
<1>11. ASSUME NEW p \in Procs, ExitMove(p) PROVE TypeOK'
  <2>1. deadList' \in Seq(Procs)
    BY <1>11, AppendList DEF ExitMove, TypeOK
  <2> QED BY <1>11, <2>1 DEF ExitMove, TypeOK
<1>12. ASSUME NEW p \in Procs, WaitP(p) \/ WaitAgain(p) PROVE TypeOK'
  <2>1. credit' \in [Procs -> Int]
    BY <1>12 DEF WaitP, WaitAgain, GiveBack, TypeOK
  <2>2. PICK l \in {"wait", "wait_scan", "wait_sleep"} : pc' = [pc EXCEPT ![p] = l]
    BY <1>12 DEF WaitP, WaitAgain
  <2>3. /\ pc[p] \in {"wait", "wait_scan"} /\ RegistersFit(p)
        /\ UNCHANGED <<alloc, dead, pids, parent, children, pending, deadList, arg, wild>>
    BY <1>12 DEF WaitP, WaitAgain, TypeOK
  <2>4. RegistersFit(p)'
    BY <2>2, <2>3 DEF TypeOK
  <2> QED BY <2>1, <2>2, <2>3, <2>4, MoveType DEF TypeOK
<1>13. ASSUME NEW p \in Procs,
              \/ Trap(p) \/ ReturnToUser(p) \/ CloneHangs(p) \/ PollNothing(p)
              \/ WaitSleep(p) \/ Resume(p) \/ OrphanExit(p) \/ Corrupt(p)
       PROVE  TypeOK'
  <2>1. PICK l \in {"trap_end", "user", "hung", "asleep", "wait_scan", "stuck"} \cup {pc[p]} :
           pc' = [pc EXCEPT ![p] = l]
    BY <1>13 DEF Trap, ReturnToUser, CloneHangs, PollNothing, WaitSleep, Resume,
                 OrphanExit, Corrupt, TypeOK
  <2>2. /\ arg' = arg \/ arg' = [arg EXCEPT ![p] = NoProc]
        /\ UNCHANGED <<alloc, dead, pids, parent, children, credit, pending, deadList>>
        /\ wild' \in BOOLEAN
    BY <1>13 DEF Trap, ReturnToUser, CloneHangs, PollNothing, WaitSleep, Resume,
                 OrphanExit, Corrupt, TypeOK
  <2>3. RegistersFit(p) /\ p \in Procs /\ pc[p] \in Labels
    BY DEF TypeOK
  <2>4. RegistersFit(p)'
    <3>1. CASE Trap(p)
      BY <2>3, <3>1 DEF Trap, TypeOK
    <3>2. CASE ReturnToUser(p)
      BY <2>3, <3>2 DEF ReturnToUser, TypeOK
    <3>3. CASE CloneHangs(p)
      BY <2>3, <3>3 DEF CloneHangs, TypeOK
    <3>4. CASE PollNothing(p)
      BY <2>3, <3>4 DEF PollNothing, TypeOK
    <3>5. CASE WaitSleep(p)
      BY <2>3, <3>5 DEF WaitSleep, TypeOK
    <3>6. CASE Resume(p)
      BY <2>3, <3>6 DEF Resume, TypeOK
    <3>7. CASE OrphanExit(p)
      BY <2>3, <3>7 DEF OrphanExit, TypeOK
    <3>8. CASE Corrupt(p)
      BY <2>3, <3>8 DEF Corrupt, TypeOK
    <3> QED BY <1>13, <3>1, <3>2, <3>3, <3>4, <3>5, <3>6, <3>7, <3>8
  <2>5. l \in Labels
    BY <2>1, <2>3
  <2> QED BY <2>1, <2>2, <2>4, <2>5, MoveType DEF TypeOK
<1>14. CASE UNCHANGED vars
  BY <1>14 DEF vars, TypeOK
<1> QED
  BY <1>1, <1>2, <1>3, <1>4, <1>5, <1>6, <1>7, <1>8, <1>9, <1>10, <1>11, <1>12,
     <1>13, <1>14 DEF Next, Kernel, Program, PollReport, WaitReport

-----------------------------------------------------------------------------
\* What a step does to the family

(* Labels and registers change, but nobody starts, is being created, gives  *)
(* its children away or enters sys_exit with another pointer than parent.   *)
QuietLabels == \A q \in Procs :
    /\ pc'[q] = "none" <=> pc[q] = "none"
    /\ pc'[q] \in Cloning <=> pc[q] \in Cloning
    /\ pc[q] \in Cloning => arg'[q] = arg[q]
    /\ GivenAway(q)' <=> GivenAway(q)
    /\ pc'[q] \in ExitLabels =>
          \/ pc[q] \in ExitLabels /\ arg'[q] = arg[q]
          \/ pc[q] = "user" /\ arg'[q] = parent[q]

Quiet == QuietLabels /\ UNCHANGED <<alloc, pids, parent, children>>
Removes(p, c) ==
    /\ alloc[p] = "used" /\ p \notin dead /\ c \in children[p] \cap dead
    /\ alloc' = [alloc EXCEPT ![c] = "freed"]
    /\ FreePids({c})
    /\ children' = [children EXCEPT ![p] = @ \ {c}]
    /\ UNCHANGED <<dead, parent>>
    /\ QuietLabels

(* Every step is one of five kinds.                                         *)
LEMMA Effects ==
    ASSUME TypeOK, [Next]_vars
    PROVE  \/ Quiet
           \/ \E p, c \in Procs : Removes(p, c)
           \/ \E p, c \in Procs : NewProc(p, c)
           \/ \E p \in Procs : StartChild(p) \/ ExitFamily(p)
<1> USE DEF Labels, KernelLabels, ExitLabels, WaitLabels
<1>1. ASSUME NEW p \in Procs, HandleSignal(p) PROVE Quiet \/ \E c \in Procs : Removes(p, c)
  <2>1. QuietLabels /\ UNCHANGED <<dead, parent>>
    BY <1>1 DEF HandleSignal, QuietLabels, GivenAway, TypeOK
  <2>2. CASE SignalledChild(p) = {} /\ UNCHANGED <<alloc, pids, children, deadList>>
    BY <2>1, <2>2 DEF Quiet
  <2>3. ASSUME NEW c \in SignalledChild(p), Reap(p, c) PROVE Removes(p, c) /\ c \in Procs
    <3>1. c \in children[p] \cap dead /\ c \in Procs
      BY <2>3 DEF SignalledChild, TypeOK
    <3>2. FreePids({c}) /\ alloc[p] = "used" /\ p \notin dead
      BY <1>1, <2>3 DEF Reap, Release, HandleSignal, TypeOK, RegistersFit
    <3> QED BY <2>1, <2>3, <3>1, <3>2, ReapType DEF Removes
  <2> QED BY <1>1, <2>2, <2>3 DEF HandleSignal
<1>2. ASSUME NEW p \in Procs, PollReport(p) \/ WaitReport(p)
      PROVE  \E c \in Procs : Removes(p, c)
  <2>1. PICK c \in WantedChild(p) : Reap(p, c)
    BY <1>2 DEF PollReport, WaitReport, ReportChild
  <2>2. c \in children[p] \cap dead /\ c \in Procs
    BY <2>1 DEF WantedChild, TypeOK
  <2>3. FreePids({c}) /\ alloc[p] = "used" /\ UNCHANGED <<dead, parent>>
    BY <1>2, <2>1 DEF Reap, Release, PollReport, WaitReport
  <2>4. /\ pc[p] \in {"poll", "wait_scan"}
        /\ pc' = [pc EXCEPT ![p] = "trap_end"] /\ arg' = [arg EXCEPT ![p] = NoProc]
    BY <1>2 DEF PollReport, WaitReport, ReportChild
  <2>5. QuietLabels
    BY <2>4 DEF QuietLabels, GivenAway, TypeOK
  <2>6. p \notin dead
    BY <2>4 DEF TypeOK, RegistersFit
  <2> QED BY <2>1, <2>2, <2>3, <2>5, <2>6, ReapType DEF Removes
<1>3. ASSUME NEW p \in Procs, Trap(p) \/ ReturnToUser(p) \/ CloneHangs(p) PROVE Quiet
  BY <1>3 DEF Trap, ReturnToUser, CloneHangs, Quiet, QuietLabels, GivenAway, TypeOK
<1>4. ASSUME NEW p \in Procs, PollNothing(p) \/ WaitP(p) \/ WaitSleep(p) PROVE Quiet
  BY <1>4, SMTT(30) DEF PollNothing, WaitP, WaitSleep, Quiet, QuietLabels, GivenAway, TypeOK
<1>5. ASSUME NEW p \in Procs, Resume(p) \/ WaitAgain(p) \/ OrphanExit(p) PROVE Quiet
  BY <1>5 DEF Resume, WaitAgain, OrphanExit, Quiet, QuietLabels, GivenAway, TypeOK
<1>6. ASSUME NEW p \in Procs, ExitSignal(p) \/ ExitPost(p) PROVE Quiet
  BY <1>6 DEF ExitSignal, ExitPost, Quiet, QuietLabels, GivenAway, TypeOK
<1>7. ASSUME NEW p \in Procs, ExitMove(p) \/ Corrupt(p) \/ Exit(p) PROVE Quiet
  BY <1>7 DEF ExitMove, Corrupt, Exit, Quiet, QuietLabels, GivenAway, TypeOK
<1>8. ASSUME NEW p \in Procs, ExitWake(p) PROVE Quiet
  <2>1. /\ pc[p] = "exit_wake" /\ pc'[p] = "exit_move" /\ arg' = arg
        /\ \A q \in Procs \ {p} :
              pc'[q] = pc[q] \/ (pc[q] = "asleep" /\ pc'[q] = "woken")
        /\ UNCHANGED <<alloc, pids, parent, children>>
    BY <1>8 DEF ExitWake, TypeOK
  <2> QED BY <2>1 DEF Quiet, QuietLabels, GivenAway
<1>9. ASSUME NEW p \in Procs, NEW c \in children[p] \cup {AnyChild},
             NEW how \in {"poll", "wait"}, Wait4(p, c, how)
      PROVE  Quiet
  BY <1>9 DEF Wait4, Quiet, QuietLabels, GivenAway, TypeOK
<1>10. CASE UNCHANGED vars
  BY <1>10 DEF vars, Quiet, QuietLabels, GivenAway
<1> QED
  BY <1>1, <1>2, <1>3, <1>4, <1>5, <1>6, <1>7, <1>8, <1>9, <1>10
     DEF Next, Kernel, Program

-----------------------------------------------------------------------------
\* Creation

(* What a step of sys_clone does, with the new process named.               *)
LEMMA CloneEffect ==
    ASSUME TypeOK, CloneOK, NEW p \in Procs, StartChild(p)
    PROVE  \E c \in Procs :
             /\ c = arg[p] /\ c # p /\ pc[p] = "clone" /\ pc[c] = "none"
             /\ alloc[c] = "used" /\ parent[c] = p
             /\ children' = [children EXCEPT ![p] = @ \cup {c}]
             /\ pc'[p] = "trap_end" /\ pc'[c] = "user" /\ arg'[p] = NoProc
             /\ \A q \in Procs \ {p, c} : pc'[q] = pc[q]
             /\ \A q \in Procs \ {p} : arg'[q] = arg[q]
             /\ UNCHANGED <<alloc, dead, pids, parent, pending>>
<1>1. arg[p] \in Procs /\ pc[arg[p]] = "none" /\ arg[p] # p /\ pc[p] = "clone"
  BY DEF StartChild, TypeOK, RegistersFit, CloneOK, InClone
<1> QED BY <1>1, ZenonT(60) DEF StartChild, TypeOK, CloneOK

(* A process that has been allocated and not started is exactly the one its *)
(* parent is creating.                                                      *)
LEMMA CloneStep == TypeOK /\ CloneOK /\ FamilyTree /\ [Next]_vars => CloneOK'
<1> SUFFICES ASSUME TypeOK, CloneOK, FamilyTree, [Next]_vars PROVE CloneOK'
  OBVIOUS
<1>1. ASSUME Quiet PROVE CloneOK'
  <2>1. QuietLabels /\ UNCHANGED <<alloc, pids, parent, children>>
    BY <1>1 DEF Quiet
  <2>2. \A c \in Procs : InClone(c)' <=> InClone(c)
    BY <2>1 DEF QuietLabels, InClone
  <2>3. /\ \A q \in Procs : pc'[q] = "none" <=> alloc'[q] = "unused" \/ InClone(q)'
        /\ \A q \in Procs : pc'[q] = "none" => children'[q] = {}
        /\ \A q \in Procs : \A c \in children'[q] : pc'[c] # "none"
        /\ \A q \in Procs : parent'[q] \in Procs => pc'[parent'[q]] # "none"
    BY <2>1, <2>2 DEF QuietLabels, CloneOK, TypeOK
  <2>4. \A q \in Procs : pc'[q] \in Cloning =>
            alloc'[arg'[q]] = "used" /\ parent'[arg'[q]] = q
    BY <2>1 DEF QuietLabels, CloneOK
  <2>5. \A q \in Procs : pc'[q] \in ExitLabels /\ arg'[q] \in Procs => pc'[arg'[q]] # "none"
    BY <2>1 DEF QuietLabels, CloneOK
  <2> QED BY <2>3, <2>4, <2>5 DEF CloneOK
<1>2. ASSUME NEW p \in Procs, NEW c \in Procs, Removes(p, c) PROVE CloneOK'
  <2>1. /\ \A q \in Procs : (alloc'[q] = "unused" <=> alloc[q] = "unused")
        /\ \A q \in Procs : children'[q] \subseteq children[q]
        /\ \A q \in Procs \ {c} : alloc'[q] = alloc[q]
        /\ pc[c] # "none" /\ UNCHANGED parent
    BY <1>2 DEF Removes, TypeOK, FamilyTree, CloneOK
  <2>2. \A q \in Procs : pc[q] \in Cloning => arg[q] # c
    BY <2>1 DEF CloneOK, InClone, TypeOK, RegistersFit
  <2>3. QuietLabels
    BY <1>2 DEF Removes
  <2>4. \A q \in Procs : InClone(q)' <=> InClone(q)
    BY <2>3 DEF QuietLabels, InClone
  <2>5. /\ \A q \in Procs : pc'[q] = "none" <=> alloc'[q] = "unused" \/ InClone(q)'
        /\ \A q \in Procs : pc'[q] = "none" => children'[q] = {}
        /\ \A q \in Procs : \A d \in children'[q] : pc'[d] # "none"
        /\ \A q \in Procs : parent'[q] \in Procs => pc'[parent'[q]] # "none"
    <3>1. \A q \in Procs : pc'[q] = "none" <=> pc[q] = "none"
      BY <2>3 DEF QuietLabels
    <3>2. \A q \in Procs : pc'[q] = "none" <=> alloc'[q] = "unused" \/ InClone(q)'
      BY <2>1, <2>4, <3>1 DEF CloneOK
    <3>3. \A q \in Procs : children'[q] \subseteq children[q] /\ children[q] \subseteq Procs
      BY <2>1 DEF TypeOK
    <3>4. \A q \in Procs : pc'[q] = "none" => children'[q] = {}
      BY <3>1, <3>3 DEF CloneOK
    <3>5. \A q \in Procs : \A d \in children'[q] : pc'[d] # "none"
      BY <3>1, <3>3 DEF CloneOK
    <3>6. \A q \in Procs : parent'[q] \in Procs => pc'[parent'[q]] # "none"
      BY <2>1, <3>1 DEF CloneOK
    <3> QED BY <3>2, <3>4, <3>5, <3>6
  <2>6. \A q \in Procs : pc'[q] \in Cloning =>
            alloc'[arg'[q]] = "used" /\ parent'[arg'[q]] = q
    BY <2>1, <2>2, <2>3 DEF QuietLabels, CloneOK, TypeOK, RegistersFit
  <2>7. \A q \in Procs : pc'[q] \in ExitLabels /\ arg'[q] \in Procs => pc'[arg'[q]] # "none"
    BY <2>3 DEF QuietLabels, CloneOK
  <2> QED BY <2>5, <2>6, <2>7 DEF CloneOK
<1>3. ASSUME NEW p \in Procs, NEW c \in Procs, NewProc(p, c) PROVE CloneOK'
  <2>1. /\ pc[p] = "user" /\ pc[c] = "none" /\ c # p /\ alloc[c] = "unused"
        /\ pc' = [pc EXCEPT ![p] = "clone"] /\ arg' = [arg EXCEPT ![p] = c]
        /\ alloc' = [alloc EXCEPT ![c] = "used"] /\ parent' = [parent EXCEPT ![c] = p]
        /\ UNCHANGED children
    BY <1>3 DEF NewProc, CloneOK
  <2>2. \A q \in Procs : pc[q] \in Cloning => arg[q] # c
    BY <2>1 DEF CloneOK
  <2>3. \A q \in Procs : InClone(q)' <=> q = c \/ InClone(q)
    BY <2>1, <2>2 DEF InClone, TypeOK
  <2>4. \A q \in Procs : pc'[q] = "none" <=> alloc'[q] = "unused" \/ InClone(q)'
    BY <2>1, <2>3 DEF CloneOK, TypeOK
  <2>5. \A q \in Procs : pc'[q] \in Cloning =>
            alloc'[arg'[q]] = "used" /\ parent'[arg'[q]] = q
    BY <2>1, <2>2 DEF CloneOK, TypeOK, RegistersFit
  <2>6. /\ \A q \in Procs : pc'[q] = "none" => children'[q] = {}
        /\ \A q \in Procs : \A d \in children'[q] : pc'[d] # "none"
        /\ \A q \in Procs : parent'[q] \in Procs => pc'[parent'[q]] # "none"
    BY <2>1 DEF CloneOK, TypeOK
  <2>7. \A q \in Procs : pc'[q] \in ExitLabels /\ arg'[q] \in Procs => pc'[arg'[q]] # "none"
    BY <2>1 DEF CloneOK, TypeOK, ExitLabels
  <2> QED BY <2>4, <2>5, <2>6, <2>7 DEF CloneOK
<1>4. ASSUME NEW p \in Procs, StartChild(p) PROVE CloneOK'
  <2>1. PICK c \in Procs :
             /\ c = arg[p] /\ c # p /\ pc[p] = "clone" /\ pc[c] = "none"
             /\ alloc[c] = "used" /\ parent[c] = p
             /\ children' = [children EXCEPT ![p] = @ \cup {c}]
             /\ pc'[p] = "trap_end" /\ pc'[c] = "user" /\ arg'[p] = NoProc
             /\ \A q \in Procs \ {p, c} : pc'[q] = pc[q]
             /\ \A q \in Procs \ {p} : arg'[q] = arg[q]
             /\ UNCHANGED <<alloc, dead, pids, parent, pending>>
    BY <1>4, CloneEffect
  <2>2. \A q \in Procs \ {p} : pc[q] \in Cloning => arg[q] # c
    BY <2>1 DEF CloneOK
  <2>3. \A q \in Procs : InClone(q)' <=> q # c /\ InClone(q)
    BY <2>1, <2>2 DEF InClone
  <2>4. \A q \in Procs : pc'[q] = "none" <=> pc[q] = "none" /\ q # c
    BY <2>1
  <2>5. \A q \in Procs : pc'[q] = "none" <=> alloc'[q] = "unused" \/ InClone(q)'
    BY <2>1, <2>3, <2>4 DEF CloneOK
  <2>6. \A q \in Procs : pc'[q] \in Cloning => alloc'[arg'[q]] = "used" /\ parent'[arg'[q]] = q
    <3>1. \A q \in Procs : pc'[q] \in Cloning =>
             q \in Procs \ {p} /\ pc[q] \in Cloning /\ arg'[q] = arg[q]
      BY <2>1
    <3> QED BY <2>1, <3>1 DEF CloneOK
  <2>7. /\ children'[p] = children[p] \cup {c}
        /\ \A q \in Procs \ {p} : children'[q] = children[q]
        /\ \A q \in Procs : children[q] \subseteq Procs
    BY <2>1 DEF TypeOK
  <2>8. \A q \in Procs : pc'[q] = "none" => children'[q] = {}
    BY <2>1, <2>4, <2>7 DEF CloneOK
  <2>9. \A q \in Procs : \A d \in children'[q] : pc'[d] # "none"
    BY <2>4, <2>7 DEF CloneOK
  <2>10. \A q \in Procs : parent'[q] \in Procs => pc'[parent'[q]] # "none"
    BY <2>1, <2>4 DEF CloneOK
  <2>11. \A q \in Procs : pc'[q] \in ExitLabels /\ arg'[q] \in Procs => pc'[arg'[q]] # "none"
    <3>1. \A q \in Procs : pc'[q] \in ExitLabels => pc[q] \in ExitLabels /\ arg'[q] = arg[q]
      BY <2>1 DEF ExitLabels
    <3> QED BY <2>4, <3>1 DEF CloneOK
  <2> QED BY <2>5, <2>6, <2>8, <2>9, <2>10, <2>11 DEF CloneOK
<1>5. ASSUME NEW p \in Procs, ExitFamily(p) PROVE CloneOK'
  <2>1. PICK q \in Procs : q = arg[p] /\ q # p /\ pc[q] # "none"
    BY <1>5 DEF ExitFamily, ParentOk, Locked, CloneOK, ExitLabels
  <2>2. /\ pc[p] = "exit_family" /\ pc' = [pc EXCEPT ![p] = "exit_signal"] /\ arg' = arg
        /\ children' = [children EXCEPT ![p] = {}, ![q] = @ \cup (children[p] \ dead)]
        /\ parent' = [c \in Procs |-> IF c \in children[p] THEN NoProc ELSE parent[c]]
        /\ alloc' = [c \in Procs |-> IF c \in children[p] \cap dead THEN "freed" ELSE alloc[c]]
    BY <1>5, <2>1 DEF ExitFamily, Orphan, HandOver, Release
  <2>3. \A c \in Procs : InClone(c)' <=> InClone(c)
    BY <2>2 DEF InClone, TypeOK
  <2>4. \A c \in children[p] : pc[c] # "none" /\ alloc[c] # "unused" /\ ~InClone(c)
    BY DEF CloneOK, FamilyTree, TypeOK
  <2>5. \A c \in Procs : pc'[c] = "none" <=> alloc'[c] = "unused" \/ InClone(c)'
    BY <2>2, <2>3, <2>4 DEF CloneOK, TypeOK
  <2>6. \A r \in Procs : pc'[r] \in Cloning => alloc'[arg'[r]] = "used" /\ parent'[arg'[r]] = r
    BY <2>2, <2>4 DEF CloneOK, InClone, TypeOK, RegistersFit
  <2>7. /\ \A r \in Procs : pc'[r] = "none" => children'[r] = {}
        /\ \A r \in Procs : \A c \in children'[r] : pc'[c] # "none"
    <3>1. /\ children'[p] = {} /\ children'[q] = children[q] \cup (children[p] \ dead)
          /\ \A r \in Procs \ {p, q} : children'[r] = children[r]
      BY <2>1, <2>2 DEF TypeOK
    <3>2. \A r \in Procs : pc'[r] = "none" <=> pc[r] = "none"
      BY <2>2 DEF TypeOK
    <3>3. \A r \in Procs : children[r] \subseteq Procs
      BY DEF TypeOK
    <3> QED BY <2>1, <3>1, <3>2, <3>3 DEF CloneOK
  <2>8. /\ \A r \in Procs : parent'[r] \in Procs => pc'[parent'[r]] # "none"
        /\ \A r \in Procs : pc'[r] \in ExitLabels /\ arg'[r] \in Procs => pc'[arg'[r]] # "none"
    <3>1. \A r \in Procs :
             /\ pc'[r] = "none" <=> pc[r] = "none"
             /\ pc'[r] \in ExitLabels => pc[r] \in ExitLabels
      <4>1. /\ pc[p] = "exit_family" /\ pc'[p] = "exit_signal"
            /\ \A r \in Procs \ {p} : pc'[r] = pc[r]
        BY <2>2 DEF TypeOK
      <4> QED BY <4>1 DEF ExitLabels
    <3>2. \A r \in Procs : parent'[r] \in Procs => parent'[r] = parent[r]
      BY <2>2
    <3> QED BY <2>2, <3>1, <3>2 DEF CloneOK
  <2> QED BY <2>5, <2>6, <2>7, <2>8 DEF CloneOK
<1> QED BY <1>1, <1>2, <1>3, <1>4, <1>5, Effects

-----------------------------------------------------------------------------
\* The family

(* Every step keeps the child lists disjoint, alive and complete.           *)
LEMMA FamilyStep == TypeOK /\ CloneOK /\ FamilyTree /\ [Next]_vars => FamilyTree'
<1> SUFFICES ASSUME TypeOK, CloneOK, FamilyTree, [Next]_vars PROVE FamilyTree'
  OBVIOUS
<1>1. ASSUME Quiet PROVE FamilyTree'
  <2>1. QuietLabels /\ UNCHANGED <<alloc, pids, parent, children>>
    BY <1>1 DEF Quiet
  <2>2. \A c \in Procs : InClone(c)' <=> InClone(c)
    BY <2>1 DEF QuietLabels, InClone
  <2>3. \A q \in Procs : GivenAway(q)' <=> GivenAway(q)
    BY <2>1 DEF QuietLabels
  <2> QED BY <2>1, <2>2, <2>3 DEF FamilyTree
<1>2. ASSUME NEW p \in Procs, NEW c \in Procs, Removes(p, c) PROVE FamilyTree'
  <2>1. \A q \in Procs : InClone(q) => InClone(q)'
    BY <1>2 DEF Removes, QuietLabels, InClone
  <2> QED BY <1>2, <2>1, SMTT(30) DEF Removes, QuietLabels, FamilyTree, TypeOK
<1>3. ASSUME NEW p \in Procs, NEW c \in Procs, NewProc(p, c) PROVE FamilyTree'
  <2>1. \A q \in Procs : InClone(q)' <=> q = c \/ InClone(q)
    BY <1>3 DEF NewProc, InClone, TypeOK
  <2> QED BY <1>3, <2>1 DEF NewProc, FamilyTree, GivenAway, TypeOK
<1>4. ASSUME NEW p \in Procs, StartChild(p) PROVE FamilyTree'
  <2>1. PICK c \in Procs :
             /\ c = arg[p] /\ c # p /\ pc[p] = "clone" /\ pc[c] = "none"
             /\ alloc[c] = "used" /\ parent[c] = p
             /\ children' = [children EXCEPT ![p] = @ \cup {c}]
             /\ pc'[p] = "trap_end" /\ pc'[c] = "user" /\ arg'[p] = NoProc
             /\ \A q \in Procs \ {p, c} : pc'[q] = pc[q]
             /\ \A q \in Procs \ {p} : arg'[q] = arg[q]
             /\ UNCHANGED <<alloc, dead, pids, parent, pending>>
    BY <1>4, CloneEffect
  <2>2. \A q \in Procs \ {c} : InClone(q) => InClone(q)'
    BY <2>1 DEF InClone
  <2>3. \A q \in Procs : c \notin children[q]
    BY <2>1 DEF CloneOK
  <2>4. \A q \in Procs : GivenAway(q)' <=> GivenAway(q)
    BY <2>1 DEF GivenAway
  <2>5. /\ children'[p] = children[p] \cup {c}
        /\ \A q \in Procs \ {p} : children'[q] = children[q]
    BY <2>1 DEF TypeOK
  <2> QED BY <2>1, <2>2, <2>3, <2>4, <2>5 DEF FamilyTree, GivenAway
<1>5. ASSUME NEW p \in Procs, ExitFamily(p) PROVE FamilyTree'
  <2>1. PICK q \in Procs : q = arg[p] /\ q # p
    BY <1>5 DEF ExitFamily, ParentOk, Locked, ExitLabels
  <2>2. /\ pc[p] = "exit_family" /\ pc' = [pc EXCEPT ![p] = "exit_signal"] /\ arg' = arg
        /\ children' = [children EXCEPT ![p] = {}, ![q] = @ \cup (children[p] \ dead)]
        /\ parent' = [c \in Procs |-> IF c \in children[p] THEN NoProc ELSE parent[c]]
        /\ alloc' = [c \in Procs |-> IF c \in children[p] \cap dead THEN "freed" ELSE alloc[c]]
        /\ GivenAway(q) => children[p] \subseteq dead
    BY <1>5, <2>1 DEF ExitFamily, Orphan, HandOver, Release
  <2>3. /\ children'[p] = {} /\ children'[q] = children[q] \cup (children[p] \ dead)
        /\ \A r \in Procs \ {p, q} : children'[r] = children[r]
    BY <2>1, <2>2 DEF TypeOK
  <2>4. \A c \in Procs : InClone(c)' <=> InClone(c)
    BY <2>2 DEF InClone, TypeOK
  <2>5. \A r \in Procs : GivenAway(r)' <=> r = p \/ GivenAway(r)
    BY <2>2 DEF GivenAway, TypeOK
  <2>6. \A r, t \in Procs : r # t => children'[r] \cap children'[t] = {}
    BY <2>1, <2>3 DEF FamilyTree
  <2>7. \A r \in Procs : \A c \in children'[r] :
           alloc'[c] = "used" /\ parent'[c] \in {r, NoProc}
    <3>1. SUFFICES ASSUME NEW r \in Procs, NEW c \in children'[r]
                   PROVE  alloc'[c] = "used" /\ parent'[c] \in {r, NoProc}
      OBVIOUS
    <3>2. CASE c \in children[p]
      <4>1. r = q /\ c \notin dead
        BY <2>1, <2>3, <3>2 DEF FamilyTree
      <4> QED BY <2>2, <3>2, <4>1 DEF FamilyTree, TypeOK
    <3>3. CASE c \notin children[p]
      <4>1. c \in children[r] /\ c \in Procs
        BY <2>3, <3>3 DEF TypeOK
      <4> QED BY <2>2, <3>3, <4>1 DEF FamilyTree
    <3> QED BY <3>2, <3>3
  <2>8. \A c \in Procs \ {Idle} :
           alloc'[c] = "used" => InClone(c)' \/ \E r \in Procs : c \in children'[r]
    <3>1. SUFFICES ASSUME NEW c \in Procs \ {Idle}, alloc'[c] = "used", ~InClone(c)
                   PROVE  \E r \in Procs : c \in children'[r]
      BY <2>4
    <3>2. PICK r \in Procs : c \in children[r]
      BY <2>2, <3>1 DEF FamilyTree
    <3>3. CASE r = p
      BY <2>2, <2>3, <3>1, <3>2, <3>3
    <3>4. CASE r # p
      BY <2>3, <3>2, <3>4
    <3> QED BY <3>3, <3>4
  <2>9. \A r \in Procs : GivenAway(r)' => children'[r] = {}
    <3>1. GivenAway(q) => children'[q] = children[q]
      BY <2>2, <2>3
    <3> QED BY <2>3, <2>5, <3>1 DEF FamilyTree
  <2> QED BY <2>6, <2>7, <2>8, <2>9 DEF FamilyTree
<1> QED BY <1>1, <1>2, <1>3, <1>4, <1>5, Effects

-----------------------------------------------------------------------------
\* Pids

(* Process 0 stays what it is.                                              *)
LEMMA IdleStep == TypeOK /\ IdleOK /\ [Next]_vars => IdleOK'
<1> SUFFICES ASSUME TypeOK, IdleOK, [Next]_vars PROVE IdleOK'
  OBVIOUS
<1>1. Idle \notin dead'
  <2>1. ASSUME NEW p \in Procs, Exit(p) PROVE Idle \notin dead'
    BY <2>1 DEF Exit, IdleOK
  <2>2. (\E p \in Procs : Exit(p)) \/ dead' = dead
    BY ZenonT(60) DEF Next, Kernel, Program, Trap, HandleSignal, ReturnToUser, NewProc, CloneHangs,
           StartChild, Wait4, PollReport, PollNothing, WaitP, WaitSleep, Resume,
           WaitReport, WaitAgain, OrphanExit, ExitFamily, ExitSignal, ExitPost,
           ExitWake, ExitMove, Corrupt, vars
  <2> QED BY <2>1, <2>2 DEF IdleOK
<1>2. pids'[0] = Idle
  <2>1. 0 \in Pids
    OBVIOUS
  <2>2. CASE UNCHANGED pids
    BY <2>2 DEF IdleOK
  <2>3. ASSUME NEW cs, FreePids(cs) PROVE pids'[0] = Idle
    BY <2>1, <2>3 DEF FreePids, IdleOK
  <2>4. ASSUME NEW p \in Procs, NEW c \in Procs, NewProc(p, c) PROVE pids'[0] = Idle
    BY <2>1, <2>4 DEF NewProc, FreePid, IdleOK, TypeOK
  <2>5. ASSUME NEW p \in Procs, StartChild(p) \/ ExitFamily(p) PROVE pids'[0] = Idle
    BY <2>2, <2>3, <2>5 DEF StartChild, ExitFamily, Release
  <2> QED BY <2>2, <2>3, <2>4, <2>5, Effects DEF Quiet, Removes
<1> QED BY <1>1, <1>2 DEF IdleOK

(* The two steps that release pids: the blocks that leave the table are     *)
(* those that leave the state "used".                                       *)
LEMMA FreePidsKeeps ==
    ASSUME TypeOK, PidTable, IdleOK, NEW cs \in SUBSET dead, FreePids(cs),
           \A q \in Procs : alloc'[q] = IF q \in cs THEN "freed" ELSE alloc[q]
    PROVE  PidTable'
<1>1. \A i \in Pids : pids'[i] = IF pids[i] \in cs THEN NoProc ELSE pids[i]
  BY DEF FreePids, IdleOK
<1>2. \A i \in Pids : pids'[i] # NoProc => alloc'[pids'[i]] = "used"
  BY <1>1 DEF PidTable, TypeOK
<1>3. ASSUME NEW q \in Procs, alloc'[q] = "used"
      PROVE  \E i \in Pids : pids'[i] = q /\ \A j \in Pids : pids'[j] = q => i = j
  <2>1. q \notin cs /\ alloc[q] = "used"
    BY <1>3
  <2>2. \A i \in Pids : pids'[i] = q <=> pids[i] = q
    BY <1>1, <2>1
  <2> QED BY <2>1, <2>2 DEF PidTable
<1> QED BY <1>2, <1>3 DEF PidTable

(* Every step keeps the pid table.                                          *)
LEMMA PidStep == TypeOK /\ CloneOK /\ IdleOK /\ PidTable /\ [Next]_vars => PidTable'
<1> SUFFICES ASSUME TypeOK, CloneOK, IdleOK, PidTable, [Next]_vars PROVE PidTable'
  OBVIOUS
<1>1. CASE UNCHANGED <<alloc, pids>>
  BY <1>1 DEF PidTable
<1>2. ASSUME NEW p \in Procs, NEW c \in Procs, Removes(p, c) PROVE PidTable'
  <2>1. {c} \in SUBSET dead /\ FreePids({c})
    BY <1>2 DEF Removes
  <2>2. \A q \in Procs : alloc'[q] = IF q \in {c} THEN "freed" ELSE alloc[q]
    BY <1>2 DEF Removes, TypeOK
  <2> QED BY <2>1, <2>2, FreePidsKeeps
<1>3. ASSUME NEW p \in Procs, NEW c \in Procs, NewProc(p, c) PROVE PidTable'
  <2>1. PICK k \in Pids : pids[k] = NoProc /\ pids' = [pids EXCEPT ![k] = c]
    BY <1>3 DEF NewProc, FreePid
  <2>2. alloc[c] = "unused" /\ alloc' = [alloc EXCEPT ![c] = "used"]
    BY <1>3 DEF NewProc
  <2>3. \A i \in Pids : pids'[i] = IF i = k THEN c ELSE pids[i]
    BY <2>1 DEF TypeOK
  <2>4. \A q \in Procs : alloc'[q] = IF q = c THEN "used" ELSE alloc[q]
    BY <2>2 DEF TypeOK
  <2>5. \A i \in Pids : pids[i] # c
    BY <2>2 DEF PidTable
  <2>6. ASSUME NEW i \in Pids, pids'[i] # NoProc PROVE alloc'[pids'[i]] = "used"
    <3>1. CASE i = k
      BY <2>3, <2>4, <3>1
    <3>2. CASE i # k
      <4>1. PICK q \in Procs : q = pids[i] /\ pids'[i] = q
        BY <2>3, <2>6, <3>2 DEF TypeOK
      <4> QED BY <2>4, <4>1 DEF PidTable
    <3> QED BY <3>1, <3>2
  <2>7. \A q \in Procs \ {c} : \A i \in Pids : pids'[i] = q <=> pids[i] = q
    BY <2>1, <2>3
  <2>8. \A i \in Pids : pids'[i] = c <=> i = k
    BY <2>3, <2>5
  <2>9. ASSUME NEW q \in Procs, alloc'[q] = "used"
        PROVE  \E i \in Pids : pids'[i] = q /\ \A j \in Pids : pids'[j] = q => i = j
    BY <2>4, <2>7, <2>8, <2>9 DEF PidTable
  <2> QED BY <2>6, <2>9 DEF PidTable
<1>4. ASSUME NEW p \in Procs, ExitFamily(p) PROVE PidTable'
  <2>1. children[p] \cap dead \in SUBSET dead /\ FreePids(children[p] \cap dead)
    BY <1>4 DEF ExitFamily, Release
  <2>2. \A q \in Procs : alloc'[q] = IF q \in children[p] \cap dead THEN "freed" ELSE alloc[q]
    BY <1>4 DEF ExitFamily, Release
  <2> QED BY <2>1, <2>2, FreePidsKeeps
<1> QED BY <1>1, <1>2, <1>3, <1>4, Effects DEF Quiet, StartChild

-----------------------------------------------------------------------------
\* Parents

(* A process in sys_exit reads parent once; to lose it afterwards is to be  *)
(* freed.                                                                   *)
LEMMA ParentReadStep == TypeOK /\ CloneOK /\ ParentRead /\ [Next]_vars => ParentRead'
<1> SUFFICES ASSUME TypeOK, CloneOK, ParentRead, [Next]_vars PROVE ParentRead'
  OBVIOUS
<1>1. ASSUME QuietLabels, UNCHANGED parent,
             \A q \in Procs : alloc'[q] = "used" => alloc[q] = "used"
      PROVE  ParentRead'
  <2>1. ASSUME NEW q \in Procs, pc'[q] \in ExitLabels, alloc'[q] = "used"
        PROVE  parent'[q] = arg'[q]
    BY <1>1, <2>1 DEF QuietLabels, ParentRead
  <2>2. ASSUME NEW q \in Procs, pc'[q] = "gone", alloc'[q] = "used"
        PROVE  parent'[q] \in Procs
    <3>1. GivenAway(q) /\ alloc[q] = "used"
      BY <1>1, <2>2 DEF QuietLabels, GivenAway
    <3>2. CASE pc[q] = "gone"
      BY <1>1, <3>1, <3>2 DEF ParentRead
    <3>3. CASE pc[q] # "gone"
      BY <1>1, <3>1, <3>3 DEF ParentRead, GivenAway, TypeOK, RegistersFit, ExitLabels
    <3> QED BY <3>2, <3>3
  <2> QED BY <2>1, <2>2 DEF ParentRead
<1>2. ASSUME NEW p \in Procs, NEW c \in Procs, NewProc(p, c) PROVE ParentRead'
  BY <1>2 DEF NewProc, CloneOK, ParentRead, TypeOK, ExitLabels
<1>3. ASSUME NEW p \in Procs, StartChild(p) PROVE ParentRead'
  <2>1. \A q \in Procs :
           /\ pc'[q] \in ExitLabels => pc[q] \in ExitLabels /\ arg'[q] = arg[q]
           /\ pc'[q] = "gone" => pc[q] = "gone"
    BY <1>3, CloneEffect DEF ExitLabels
  <2>2. UNCHANGED <<alloc, parent>>
    BY <1>3 DEF StartChild
  <2> QED BY <2>1, <2>2 DEF ParentRead
<1>4. ASSUME NEW p \in Procs, ExitFamily(p) PROVE ParentRead'
  <2>1. /\ arg' = arg /\ pc[p] = "exit_family" /\ pc'[p] = "exit_signal"
        /\ \A q \in Procs \ {p} : pc'[q] = pc[q]
        /\ \A q \in Procs : parent'[q] = IF q \in children[p] THEN NoProc ELSE parent[q]
        /\ \A q \in Procs :
              alloc'[q] = IF q \in children[p] \cap dead THEN "freed" ELSE alloc[q]
    BY <1>4 DEF ExitFamily, Orphan, Release, TypeOK
  <2>2. ASSUME NEW q \in Procs, alloc'[q] = "used", pc[q] \in ExitLabels \cup {"gone"}
        PROVE  alloc[q] = "used" /\ parent'[q] = parent[q]
    BY <2>1, <2>2 DEF TypeOK, RegistersFit
  <2> QED BY <2>1, <2>2 DEF ParentRead, ExitLabels
<1>5. ASSUME NEW p \in Procs, NEW c \in Procs, Removes(p, c) PROVE ParentRead'
  BY <1>1, <1>5 DEF Removes, TypeOK
<1> QED BY <1>1, <1>2, <1>3, <1>4, <1>5, Effects DEF Quiet

(* A process in sys_exit is still on the list of the parent it read.        *)
LEMMA OnListOfParent ==
    ASSUME TypeOK, CloneOK, FamilyTree, ParentRead, IdleOK, NEW q \in Procs,
           pc[q] = "exit_family", alloc[q] = "used", arg[q] \in Procs
    PROVE  q \in children[arg[q]]
<1>1. parent[q] = arg[q]
  BY DEF ParentRead, ExitLabels
<1>2. q # Idle /\ ~InClone(q)
  BY DEF TypeOK, RegistersFit, ExitLabels, IdleOK, CloneOK
<1>3. PICK r \in Procs : q \in children[r]
  BY <1>2 DEF FamilyTree
<1>4. parent[q] \in {r, NoProc}
  BY <1>3 DEF FamilyTree
<1> QED BY <1>1, <1>3, <1>4

(* No step closes a circle of parents: the only new pointer is that of a    *)
(* new process, to which nobody points.                                     *)
LEMMA AcyclicStep == TypeOK /\ CloneOK /\ Acyclic /\ [Next]_vars => Acyclic'
<1> SUFFICES ASSUME TypeOK, CloneOK, Acyclic, [Next]_vars,
                    NEW S \in SUBSET Procs, S # {}
             PROVE  \E p \in S : parent'[p] \notin S /\ (pc'[p] \in ExitLabels => arg'[p] \notin S)
  BY DEF Acyclic
<1>1. PICK r \in S : parent[r] \notin S /\ (pc[r] \in ExitLabels => arg[r] \notin S)
  BY DEF Acyclic
<1>2. ASSUME QuietLabels, UNCHANGED parent
      PROVE  parent'[r] \notin S /\ (pc'[r] \in ExitLabels => arg'[r] \notin S)
  BY <1>1, <1>2 DEF QuietLabels
<1>3. ASSUME NEW p \in Procs, NEW c \in Procs, NewProc(p, c)
      PROVE  \E q \in S : parent'[q] \notin S /\ (pc'[q] \in ExitLabels => arg'[q] \notin S)
  <2>1. /\ pc[c] = "none" /\ p # c /\ pc[p] = "user"
        /\ parent'[c] = p /\ pc'[c] = "none" /\ pc'[p] = "clone"
        /\ \A q \in Procs \ {c} : parent'[q] = parent[q]
        /\ \A q \in Procs \ {p} : pc'[q] = pc[q] /\ arg'[q] = arg[q]
    BY <1>3 DEF NewProc, CloneOK, TypeOK
  <2>2. CASE S = {c}
    BY <2>1, <2>2 DEF ExitLabels
  <2>3. CASE S # {c}
    <3>1. S \ {c} \in SUBSET Procs /\ S \ {c} # {}
      BY <2>3
    <3>2. PICK q \in S \ {c} :
            parent[q] \notin S \ {c} /\ (pc[q] \in ExitLabels => arg[q] \notin S \ {c})
      BY <3>1 DEF Acyclic
    <3>3. parent[q] # c /\ (pc[q] \in ExitLabels => arg[q] # c)
      BY <2>1, <3>2 DEF CloneOK
    <3> QED BY <2>1, <3>2, <3>3 DEF ExitLabels
  <2> QED BY <2>2, <2>3
<1>4. ASSUME NEW p \in Procs, StartChild(p)
      PROVE  parent'[r] \notin S /\ (pc'[r] \in ExitLabels => arg'[r] \notin S)
  <2>1. pc'[r] \in ExitLabels => pc[r] \in ExitLabels /\ arg'[r] = arg[r]
    BY <1>4, CloneEffect DEF ExitLabels
  <2>2. parent' = parent
    BY <1>4 DEF StartChild
  <2> QED BY <1>1, <2>1, <2>2
<1>5. ASSUME NEW p \in Procs, ExitFamily(p)
      PROVE  parent'[r] \notin S /\ (pc'[r] \in ExitLabels => arg'[r] \notin S)
  <2>1. /\ arg' = arg /\ pc[p] = "exit_family"
        /\ \A q \in Procs \ {p} : pc'[q] = pc[q]
        /\ \A q \in Procs : parent'[q] \in {parent[q], NoProc}
    BY <1>5 DEF ExitFamily, Orphan, TypeOK
  <2> QED BY <1>1, <2>1 DEF ExitLabels
<1> QED BY <1>2, <1>3, <1>4, <1>5, Effects DEF Quiet, Removes

(* Nor does any step close a circle of child lists: a process that starts   *)
(* has no children, and who hands children over is kept by the one who gets *)
(* them.                                                                    *)
LEMMA KeptStep ==
    TypeOK /\ CloneOK /\ FamilyTree /\ ParentRead /\ IdleOK /\ KeptFromOutside /\ [Next]_vars
        => KeptFromOutside'
<1> SUFFICES ASSUME TypeOK, CloneOK, FamilyTree, ParentRead, IdleOK, KeptFromOutside,
                    [Next]_vars, NEW S \in SUBSET Procs, S # {}
             PROVE  \E c \in S : \A p \in S : c \notin children'[p]
  BY DEF KeptFromOutside
<1>1. PICK r \in S : \A p \in S : r \notin children[p]
  BY DEF KeptFromOutside
<1>2. CASE \A p \in Procs : children'[p] \subseteq children[p]
  BY <1>1, <1>2
<1>3. ASSUME NEW q \in Procs, StartChild(q)
      PROVE  \E c \in S : \A p \in S : c \notin children'[p]
  <2>1. PICK n \in Procs : /\ pc[q] = "clone" /\ pc[n] = "none" /\ n # q
                           /\ children' = [children EXCEPT ![q] = @ \cup {n}]
    BY <1>3, CloneEffect
  <2>2. /\ children[n] = {} /\ children'[n] = {} /\ children'[q] = children[q] \cup {n}
        /\ \A p \in Procs \ {q} : children'[p] = children[p]
    BY <2>1 DEF CloneOK, TypeOK
  <2>3. CASE S = {n}
    BY <2>2, <2>3
  <2>4. CASE S # {n}
    <3>1. S \ {n} \in SUBSET Procs /\ S \ {n} # {}
      BY <2>4
    <3>2. PICK c \in S \ {n} : \A p \in S \ {n} : c \notin children[p]
      BY <3>1 DEF KeptFromOutside
    <3> QED BY <2>2, <3>2
  <2> QED BY <2>3, <2>4
<1>4. ASSUME NEW q \in Procs, ExitFamily(q)
      PROVE  \E c \in S : \A p \in S : c \notin children'[p]
  <2>1. PICK t \in Procs : t = arg[q] /\ t # q
    BY <1>4 DEF ExitFamily, ParentOk, Locked, ExitLabels
  <2>2. /\ children'[q] = {} /\ children'[t] = children[t] \cup (children[q] \ dead)
        /\ \A p \in Procs \ {q, t} : children'[p] = children[p]
        /\ pc[q] = "exit_family" /\ alloc[q] = "used"
    BY <1>4, <2>1 DEF ExitFamily, HandOver, TypeOK
  <2>3. q \in children[t]
    BY <2>1, <2>2, OnListOfParent
  <2>4. CASE t \notin S
    <3>1. \A p \in S : children'[p] \subseteq children[p]
      BY <2>2, <2>4
    <3> QED BY <1>1, <3>1
  <2>5. CASE t \in S
    <3>1. S \cup {q} \in SUBSET Procs /\ S \cup {q} # {}
      OBVIOUS
    <3>2. PICK c \in S \cup {q} : \A p \in S \cup {q} : c \notin children[p]
      BY <3>1 DEF KeptFromOutside
    <3>3. c # q /\ c \in S /\ c \notin children[q]
      BY <2>3, <2>5, <3>2
    <3>4. \A p \in S : c \notin children'[p]
      BY <2>2, <3>2, <3>3
    <3> QED BY <3>3, <3>4
  <2> QED BY <2>4, <2>5
<1>5. ASSUME NEW q \in Procs, NEW n \in Procs, Removes(q, n) \/ NewProc(q, n)
      PROVE  \A p \in Procs : children'[p] \subseteq children[p]
  <2>1. children \in [Procs -> SUBSET Procs]
    BY DEF TypeOK
  <2>2. CASE Removes(q, n)
    <3>1. children' = [children EXCEPT ![q] = @ \ {n}]
      BY <2>2 DEF Removes
    <3> QED BY <2>1, <3>1
  <2>3. CASE NewProc(q, n)
    <3>1. children' = children
      BY <2>3 DEF NewProc
    <3> QED BY <3>1
  <2> QED BY <1>5, <2>2, <2>3
<1> QED BY <1>2, <1>3, <1>4, <1>5, Effects DEF Quiet

(* Waiting for the lock of a parent follows parent pointers.                *)
LEMMA AcyclicLocks == TypeOK /\ Acyclic => NoLockCycle
<1> SUFFICES ASSUME Acyclic, NEW S \in SUBSET {p \in Procs : Spinning(p)}, S # {}
             PROVE  \E p \in S : arg[p] \notin S
  BY DEF NoLockCycle
<1>1. S \in SUBSET Procs
  OBVIOUS
<1>2. PICK p \in S : pc[p] \in ExitLabels => arg[p] \notin S
  BY <1>1 DEF Acyclic
<1> QED BY <1>2 DEF Spinning, ExitLabels

-----------------------------------------------------------------------------
\* Announcements

(* The exit of c has sent its SIGCHLD.                                      *)
Announced(c) == GivenAway(c) /\ pc[c] # "exit_signal"

(* A block that stays in use keeps its pid.                                 *)
LEMMA PidKept ==
    ASSUME PidTable, PidTable', NEW c \in Procs, alloc[c] = "used", alloc'[c] = "used",
           \A i \in Pids : pids[i] = c => pids'[i] = c
    PROVE  Pid(c)' = Pid(c)
<1>1. PICK i \in Pids : pids[i] = c /\ \A j \in Pids : pids[j] = c => i = j
  BY DEF PidTable
<1>2. PICK k \in Pids : pids'[k] = c /\ \A j \in Pids : pids'[j] = c => k = j
  BY DEF PidTable
<1>3. i = k
  BY <1>1, <1>2
<1>4. Pid(c) = i
  BY <1>1 DEF Pid
<1>5. Pid(c)' = i
  BY <1>2, <1>3 DEF Pid
<1> QED BY <1>4, <1>5

(* A step that brings no new obligation and takes no signal that is needed. *)
LEMMA DeadKept ==
    ASSUME TypeOK, FamilyTree, FamilyTree', PidTable, PidTable', DeadAnnounced,
           \A q \in Procs : \A c \in Procs :
              c \in children'[q] /\ Announced(c)' /\ parent'[c] = q =>
                /\ c \in children[q] /\ Announced(c) /\ parent[c] = q
                /\ \A i \in Pids : pids[i] = c => pids'[i] = c
                /\ Pid(c) \in Range(pending[q]) => Pid(c) \in Range(pending'[q]),
           children' \in [Procs -> SUBSET Procs]
    PROVE  DeadAnnounced'
<1> SUFFICES ASSUME NEW q \in Procs, NEW c \in children'[q], Announced(c)', parent'[c] = q
             PROVE  Pid(c)' \in Range(pending'[q])
  BY DEF DeadAnnounced, Announced
<1>1. c \in Procs
  OBVIOUS
<1>2. /\ c \in children[q] /\ Announced(c) /\ parent[c] = q
      /\ \A i \in Pids : pids[i] = c => pids'[i] = c
      /\ Pid(c) \in Range(pending[q]) => Pid(c) \in Range(pending'[q])
  BY <1>1
<1>3. Pid(c) \in Range(pending[q])
  BY <1>2 DEF DeadAnnounced, Announced
<1>4. alloc[c] = "used" /\ alloc'[c] = "used"
  BY <1>2 DEF FamilyTree
<1>5. Pid(c)' = Pid(c)
  BY <1>1, <1>2, <1>4, PidKept
<1> QED BY <1>2, <1>3, <1>5

(* What a list holds besides its first element is in its tail.              *)
LEMMA TailRange ==
    ASSUME NEW T, NEW s \in Seq(T), s # <<>>, NEW x \in Range(s), x # Head(s)
    PROVE  x \in Range(Tail(s))
<1>1. PICK i \in 1 .. Len(s) : s[i] = x
  BY DEF Range
<1>2. i # 1
  BY <1>1
<1>3. i - 1 \in 1 .. Len(Tail(s)) /\ Tail(s)[i - 1] = x
  BY <1>1, <1>2
<1>4. DOMAIN Tail(s) = 1 .. Len(Tail(s))
  OBVIOUS
<1> QED BY <1>3, <1>4 DEF Range

(* A pid that is sent joins the signals, and none leaves.                   *)
LEMMA AppendRange ==
    ASSUME NEW T, NEW s \in Seq(T), NEW x \in T
    PROVE  x \in Range(Append(s, x)) /\ Range(s) \subseteq Range(Append(s, x))
<1>1. DOMAIN Append(s, x) = 1 .. Len(s) + 1 /\ DOMAIN s = 1 .. Len(s)
  OBVIOUS
<1>2. Append(s, x)[Len(s) + 1] = x /\ Len(s) + 1 \in 1 .. Len(s) + 1
  OBVIOUS
<1>3. \A i \in 1 .. Len(s) : Append(s, x)[i] = s[i] /\ i \in 1 .. Len(s) + 1
  OBVIOUS
<1> QED BY <1>1, <1>2, <1>3 DEF Range

(* A child that wait4 or dfl_sigchld frees takes only its own pid along.    *)
LEMMA ReapKeepsPids ==
    ASSUME TypeOK, NEW p \in Procs, NEW c \in children[p] \cap dead, Reap(p, c)
    PROVE  /\ \A q \in Procs : children'[q] \subseteq children[q] /\ c \notin children'[p]
           /\ \A d \in Procs \ {c} : \A i \in Pids : pids[i] = d => pids'[i] = d
  BY DEF Reap, Release, FreePids, TypeOK

(* Every step keeps a dead child announced until it is freed.               *)
LEMMA DeadStep == IInv /\ [Next]_vars => DeadAnnounced'
<1> SUFFICES ASSUME IInv, [Next]_vars PROVE DeadAnnounced'
  OBVIOUS
<1>0. TypeOK /\ CloneOK /\ FamilyTree /\ IdleOK /\ PidTable /\ ParentRead /\ DeadAnnounced
  BY DEF IInv
<1>t. TypeOK' /\ FamilyTree' /\ PidTable'
  BY <1>0, TypeStep, FamilyStep, PidStep
<1>c. children' \in [Procs -> SUBSET Procs]
  BY <1>t DEF TypeOK
<1> USE DEF Labels, KernelLabels, ExitLabels, WaitLabels
<1>1. ASSUME UNCHANGED <<pids, parent, children, pending>>,
             \A c \in Procs : Announced(c)' => Announced(c)
      PROVE  DeadAnnounced'
  BY <1>0, <1>t, <1>c, <1>1, DeadKept
<1>2. ASSUME NEW p \in Procs, HandleSignal(p) PROVE DeadAnnounced'
  <2>1. /\ pending[p] # <<>> /\ pending' = [pending EXCEPT ![p] = Tail(@)]
        /\ parent' = parent /\ pc[p] = "trap_end" /\ pc'[p] \in {"user", "trap_end"}
        /\ \A q \in Procs \ {p} : pc'[q] = pc[q]
        /\ pending[p] \in Seq(Pids)
    BY <1>0, <1>2 DEF HandleSignal, TypeOK
  <2>2. \A c \in Procs : Announced(c)' <=> Announced(c)
    BY <2>1 DEF Announced, GivenAway
  <2>3. /\ pending'[p] = Tail(pending[p])
        /\ \A q \in Procs \ {p} : pending'[q] = pending[q]
    BY <1>0, <2>1 DEF TypeOK
  <2>4. \A c \in Procs : c \in children[p] /\ Announced(c) /\ c \notin SignalledChild(p)
                            => Pid(c) # Head(pending[p])
    <3>1. SUFFICES ASSUME NEW c \in Procs, c \in children[p], Announced(c),
                          Pid(c) = Head(pending[p])
                   PROVE  c \in SignalledChild(p)
      OBVIOUS
    <3>2. c \in dead /\ alloc[c] = "used"
      BY <1>0, <3>1 DEF Announced, GivenAway, TypeOK, RegistersFit, FamilyTree
    <3>3. pids[Pid(c)] = c
      BY <1>0, <3>2 DEF PidTable, Pid
    <3> QED BY <2>1, <3>1, <3>2, <3>3 DEF SignalledChild
  <2>5. CASE SignalledChild(p) = {} /\ UNCHANGED <<alloc, pids, children, deadList>>
    <3>1. ASSUME NEW q \in Procs, NEW c \in Procs,
                 c \in children'[q], Announced(c)', parent'[c] = q
          PROVE  /\ c \in children[q] /\ Announced(c) /\ parent[c] = q
                 /\ \A i \in Pids : pids[i] = c => pids'[i] = c
                 /\ Pid(c) \in Range(pending[q]) => Pid(c) \in Range(pending'[q])
      <4>1. c \in children[q] /\ Announced(c) /\ parent[c] = q /\ pids' = pids
        BY <2>1, <2>2, <2>5, <3>1
      <4>2. Pid(c) \in Range(pending[q]) => Pid(c) \in Range(pending'[q])
        <5>1. CASE q = p
          BY <2>1, <2>3, <2>4, <2>5, <4>1, <5>1, TailRange
        <5>2. CASE q # p
          BY <2>3, <5>2
        <5> QED BY <5>1, <5>2
      <4> QED BY <4>1, <4>2
    <3> QED BY <1>0, <1>t, <1>c, <3>1, DeadKept
  <2>6. ASSUME NEW k \in SignalledChild(p), Reap(p, k) PROVE DeadAnnounced'
    <3>1. k \in children[p] \cap dead /\ pids[Head(pending[p])] = k
      BY <2>6 DEF SignalledChild
    <3>2. /\ \A q \in Procs : children'[q] \subseteq children[q] /\ k \notin children'[p]
          /\ \A d \in Procs \ {k} : \A i \in Pids : pids[i] = d => pids'[i] = d
      BY <1>0, <2>6, <3>1, ReapKeepsPids
    <3>3. ASSUME NEW q \in Procs, NEW c \in Procs,
                 c \in children'[q], Announced(c)', parent'[c] = q
          PROVE  /\ c \in children[q] /\ Announced(c) /\ parent[c] = q
                 /\ \A i \in Pids : pids[i] = c => pids'[i] = c
                 /\ Pid(c) \in Range(pending[q]) => Pid(c) \in Range(pending'[q])
      <4>1. c \in children[q] /\ Announced(c) /\ parent[c] = q
        BY <2>1, <2>2, <3>2, <3>3
      <4>2. c # k
        BY <1>0, <3>1, <3>2, <3>3, <4>1 DEF FamilyTree
      <4>3. \A i \in Pids : pids[i] = c => pids'[i] = c
        BY <3>2, <4>2
      <4>4. Pid(c) \in Range(pending[q]) => Pid(c) \in Range(pending'[q])
        <5>1. CASE q = p
          <6>1. c \notin SignalledChild(p)
            BY <3>1, <4>2 DEF SignalledChild
          <6> QED BY <2>1, <2>3, <2>4, <4>1, <5>1, <6>1, TailRange
        <5>2. CASE q # p
          BY <2>3, <5>2
        <5> QED BY <5>1, <5>2
      <4> QED BY <4>1, <4>3, <4>4
    <3> QED BY <1>0, <1>t, <1>c, <3>3, DeadKept
  <2> QED BY <1>2, <2>5, <2>6 DEF HandleSignal
<1>3. ASSUME NEW p \in Procs, PollReport(p) \/ WaitReport(p) PROVE DeadAnnounced'
  <2>1. PICK k \in WantedChild(p) : Reap(p, k)
    BY <1>3 DEF PollReport, WaitReport, ReportChild
  <2>2. k \in children[p] \cap dead
    BY <2>1 DEF WantedChild
  <2>3. /\ \A q \in Procs : children'[q] \subseteq children[q] /\ k \notin children'[p]
        /\ \A d \in Procs \ {k} : \A i \in Pids : pids[i] = d => pids'[i] = d
    BY <1>0, <2>1, <2>2, ReapKeepsPids
  <2>4. /\ pc[p] \in {"poll", "wait_scan"} /\ pc' = [pc EXCEPT ![p] = "trap_end"]
        /\ UNCHANGED <<parent, pending>>
    BY <1>3 DEF PollReport, WaitReport, ReportChild
  <2>5. \A c \in Procs : Announced(c)' => Announced(c)
    BY <1>0, <2>4 DEF Announced, GivenAway, TypeOK
  <2>6. ASSUME NEW q \in Procs, NEW c \in Procs,
               c \in children'[q], Announced(c)', parent'[c] = q
        PROVE  /\ c \in children[q] /\ Announced(c) /\ parent[c] = q
               /\ \A i \in Pids : pids[i] = c => pids'[i] = c
               /\ Pid(c) \in Range(pending[q]) => Pid(c) \in Range(pending'[q])
    <3>1. c \in children[q] /\ Announced(c) /\ parent[c] = q
      BY <2>3, <2>4, <2>5, <2>6
    <3>2. c # k
      BY <1>0, <2>2, <2>3, <2>6, <3>1 DEF FamilyTree
    <3> QED BY <2>3, <2>4, <3>1, <3>2
  <2> QED BY <1>0, <1>t, <1>c, <2>6, DeadKept
<1>4. ASSUME NEW p \in Procs, NEW n \in Procs, NewProc(p, n) PROVE DeadAnnounced'
  <2>1. PICK k \in Pids : pids[k] = NoProc /\ pids' = [pids EXCEPT ![k] = n]
    BY <1>4 DEF NewProc, FreePid
  <2>2. /\ parent' = [parent EXCEPT ![n] = p] /\ alloc[n] = "unused"
        /\ pc[p] = "user" /\ pc' = [pc EXCEPT ![p] = "clone"]
        /\ UNCHANGED <<children, pending>>
    BY <1>4 DEF NewProc
  <2>3. \A c \in Procs : Announced(c)' => Announced(c)
    BY <1>0, <2>2 DEF Announced, GivenAway, TypeOK
  <2>4. \A q \in Procs : n \notin children[q]
    BY <1>0, <2>2 DEF FamilyTree
  <2>5. \A c \in Procs, i \in Pids : pids[i] = c => pids'[i] = c
    BY <1>0, <2>1 DEF TypeOK
  <2>6. \A c \in Procs \ {n} : parent'[c] = parent[c]
    BY <1>0, <2>2 DEF TypeOK
  <2> QED BY <1>0, <1>t, <1>c, <2>2, <2>3, <2>4, <2>5, <2>6, DeadKept
<1>5. ASSUME NEW p \in Procs, StartChild(p) PROVE DeadAnnounced'
  <2>1. PICK n \in Procs :
             /\ pc'[p] = "trap_end" /\ pc'[n] = "user"
             /\ children' = [children EXCEPT ![p] = @ \cup {n}]
             /\ \A q \in Procs \ {p, n} : pc'[q] = pc[q]
             /\ UNCHANGED <<pids, parent, pending>>
    BY <1>0, <1>5, CloneEffect
  <2>2. \A c \in Procs : Announced(c)' => c # n /\ Announced(c)
    BY <2>1 DEF Announced, GivenAway
  <2>3. \A q \in Procs : \A c \in children'[q] : c = n \/ c \in children[q]
    BY <1>0, <2>1 DEF TypeOK
  <2> QED BY <1>0, <1>t, <1>c, <2>1, <2>2, <2>3, DeadKept
<1>6. ASSUME NEW p \in Procs, ExitFamily(p) PROVE DeadAnnounced'
  <2>1. PICK q \in Procs : q = arg[p] /\ q # p
    BY <1>6 DEF ExitFamily, ParentOk, Locked
  <2>2. /\ pc[p] = "exit_family" /\ pc' = [pc EXCEPT ![p] = "exit_signal"]
        /\ children' = [children EXCEPT ![p] = {}, ![q] = @ \cup (children[p] \ dead)]
        /\ parent' = [c \in Procs |-> IF c \in children[p] THEN NoProc ELSE parent[c]]
        /\ pending' = [pending EXCEPT ![p] = <<>>]
        /\ FreePids(children[p] \cap dead)
    BY <1>6, <2>1 DEF ExitFamily, Orphan, HandOver, Release
  <2>3. \A c \in Procs : Announced(c)' => Announced(c)
    BY <1>0, <2>2 DEF Announced, GivenAway, TypeOK
  <2>4. /\ children'[p] = {} /\ children'[q] = children[q] \cup (children[p] \ dead)
        /\ \A r \in Procs \ {p, q} : children'[r] = children[r]
        /\ \A r \in Procs \ {p} : pending'[r] = pending[r]
    BY <1>0, <2>1, <2>2 DEF TypeOK
  <2>5. ASSUME NEW r \in Procs, NEW c \in Procs,
               c \in children'[r], Announced(c)', parent'[c] = r
        PROVE  /\ c \in children[r] /\ Announced(c) /\ parent[c] = r
               /\ \A i \in Pids : pids[i] = c => pids'[i] = c
               /\ Pid(c) \in Range(pending[r]) => Pid(c) \in Range(pending'[r])
    <3>1. c \notin children[p] /\ parent[c] = r
      BY <2>2, <2>5
    <3>2. r # p /\ c \in children[r]
      BY <2>1, <2>4, <2>5, <3>1
    <3>3. \A i \in Pids : pids[i] = c => pids'[i] = c
      BY <2>2, <3>1 DEF FreePids
    <3> QED BY <2>3, <2>4, <2>5, <3>1, <3>2, <3>3
  <2> QED BY <1>0, <1>t, <1>c, <2>5, DeadKept
<1>7. ASSUME NEW p \in Procs, ExitSignal(p) PROVE DeadAnnounced'
  <2>1. PICK q \in Procs : q = arg[p]
    BY <1>7 DEF ExitSignal, ParentOk
  <2>2. /\ pc[p] = "exit_signal" /\ pc' = [pc EXCEPT ![p] = "exit_post"]
        /\ pending' = [pending EXCEPT ![q] = Append(@, Pid(p))]
        /\ UNCHANGED <<alloc, pids, parent, children>>
        /\ alloc[p] = "used"
    BY <1>7, <2>1 DEF ExitSignal, Announce
  <2>3. Pid(p) \in Pids
    BY <1>0, <2>2 DEF PidTable, Pid
  <2>4. /\ pending'[q] = Append(pending[q], Pid(p)) /\ pending[q] \in Seq(Pids)
        /\ \A r \in Procs \ {q} : pending'[r] = pending[r]
    BY <1>0, <2>2 DEF TypeOK
  <2>5. \A r \in Procs : Range(pending[r]) \subseteq Range(pending'[r])
    BY <2>3, <2>4, AppendRange
  <2>6. Pid(p) \in Range(pending'[q])
    BY <2>3, <2>4, AppendRange
  <2>7. \A c \in Procs \ {p} : Announced(c)' => Announced(c)
    BY <1>0, <2>2 DEF Announced, GivenAway, TypeOK
  <2>8. \A c \in Procs : Pid(c)' = Pid(c)
    BY <2>2 DEF Pid
  <2>9. SUFFICES ASSUME NEW r \in Procs, NEW c \in children[r], Announced(c)', parent[c] = r
                 PROVE  Pid(c) \in Range(pending'[r])
    <3>1. \A r \in Procs : children[r] \subseteq Procs
      BY <1>0 DEF TypeOK
    <3> QED BY <2>2, <2>8, <3>1 DEF DeadAnnounced, Announced
  <2>10. CASE c = p
    <3>1. parent[p] = q
      BY <1>0, <2>1, <2>2, <2>9, <2>10 DEF ParentRead
    <3> QED BY <2>6, <2>9, <2>10, <3>1
  <2>11. CASE c # p
    <3>1. c \in Procs
      BY <1>0 DEF TypeOK
    <3> QED BY <1>0, <2>5, <2>7, <2>9, <2>11, <3>1 DEF DeadAnnounced, Announced
  <2> QED BY <2>10, <2>11
<1>8. ASSUME NEW p \in Procs,
             \/ Trap(p) \/ ReturnToUser(p) \/ CloneHangs(p) \/ PollNothing(p)
             \/ WaitP(p) \/ WaitSleep(p) \/ Resume(p) \/ WaitAgain(p)
      PROVE  DeadAnnounced'
  <2>1. /\ UNCHANGED <<pids, parent, children, pending>>
        /\ \A q \in Procs \ {p} : pc'[q] = pc[q]
        /\ pc'[p] \in {"trap_end", "user", "hung", "wait_scan", "wait_sleep", "asleep", "wait"}
    BY <1>0, <1>8 DEF Trap, ReturnToUser, CloneHangs, PollNothing, WaitP, WaitSleep,
                      Resume, WaitAgain, TypeOK
  <2> QED BY <1>1, <2>1 DEF Announced, GivenAway
<1>9. ASSUME NEW p \in Procs,
             \/ OrphanExit(p) \/ ExitPost(p) \/ ExitWake(p) \/ ExitMove(p)
             \/ Exit(p) \/ Corrupt(p)
      PROVE  DeadAnnounced'
  <2>1. /\ UNCHANGED <<pids, parent, children, pending>>
        /\ \A q \in Procs \ {p} :
              pc'[q] = pc[q] \/ (pc[q] = "asleep" /\ pc'[q] = "woken")
        /\ \/ pc'[p] \in {"stuck", "exit_family"}
           \/ pc[p] \in {"exit_post", "exit_wake", "exit_move"}
           \/ pc'[p] = pc[p]
    BY <1>0, <1>9 DEF OrphanExit, ExitPost, ExitWake, ExitMove, Exit, Corrupt, TypeOK
  <2> QED BY <1>1, <2>1 DEF Announced, GivenAway
<1>10. ASSUME NEW p \in Procs, NEW c \in children[p] \cup {AnyChild},
              NEW how \in {"poll", "wait"}, Wait4(p, c, how)
       PROVE  DeadAnnounced'
  <2>1. /\ UNCHANGED <<pids, parent, children, pending>>
        /\ \A q \in Procs \ {p} : pc'[q] = pc[q]
        /\ pc'[p] \in {"poll", "wait"}
    BY <1>0, <1>10 DEF Wait4, TypeOK
  <2> QED BY <1>1, <2>1 DEF Announced, GivenAway
<1>11. CASE UNCHANGED vars
  BY <1>1, <1>11 DEF vars, Announced, GivenAway
<1> QED
  BY <1>2, <1>3, <1>4, <1>5, <1>6, <1>7, <1>8, <1>9, <1>10, <1>11
     DEF Next, Kernel, Program

-----------------------------------------------------------------------------
\* Harts

(* A process enters the kernel only on a free hart.                         *)
LEMMA HartsStep == TypeOK /\ HartsBounded /\ [Next]_vars => HartsBounded'
<1> SUFFICES ASSUME TypeOK, HartsBounded, [Next]_vars PROVE HartsBounded'
  OBVIOUS
<1> USE DEF Labels, KernelLabels, ExitLabels, WaitLabels
<1>1. IsFiniteSet(OnHart) /\ Cardinality(OnHart) \in Nat
  BY FS_Subset, FS_CardinalityType DEF OnHart
<1>2. ASSUME OnHart' \subseteq OnHart PROVE HartsBounded'
  <2>1. Cardinality(OnHart') <= Cardinality(OnHart) /\ IsFiniteSet(OnHart')
    BY <1>1, <1>2, FS_Subset
  <2>2. Cardinality(OnHart') \in Nat
    BY <2>1, FS_CardinalityType
  <2> QED BY <1>1, <2>1, <2>2 DEF HartsBounded
<1>3. ASSUME NEW p \in Procs, HartFree, \A q \in Procs \ {p} : pc'[q] = pc[q]
      PROVE  HartsBounded'
  <2>1. OnHart' \subseteq OnHart \cup {p}
    BY <1>3 DEF OnHart
  <2>2. /\ IsFiniteSet(OnHart \cup {p})
        /\ Cardinality(OnHart \cup {p}) <= Cardinality(OnHart) + 1
    <3>1. /\ IsFiniteSet(OnHart \cup {p})
          /\ Cardinality(OnHart \cup {p}) =
                IF p \in OnHart THEN Cardinality(OnHart) ELSE Cardinality(OnHart) + 1
      BY <1>1, FS_AddElement, Zenon
    <3> QED BY <1>1, <3>1
  <2>3. Cardinality(OnHart') <= Cardinality(OnHart \cup {p}) /\ IsFiniteSet(OnHart')
    BY <2>1, <2>2, FS_Subset
  <2>4. Cardinality(OnHart') \in Nat /\ Cardinality(OnHart \cup {p}) \in Nat
    BY <2>2, <2>3, FS_CardinalityType
  <2> QED BY <1>1, <1>3, <2>2, <2>3, <2>4 DEF HartsBounded, HartFree
<1>4. ASSUME NEW p \in Procs, Kernel(p) PROVE OnHart' \subseteq OnHart
  <2>1. CASE StartChild(p)
    BY <2>1 DEF StartChild, OnHart, TypeOK
  <2>2. CASE ExitWake(p)
    BY <2>2 DEF ExitWake, OnHart
  <2>3. CASE ~StartChild(p) /\ ~ExitWake(p)
    <3>1. pc[p] \in KernelLabels /\ \A q \in Procs \ {p} : pc'[q] = pc[q]
      BY <1>4, <2>3 DEF Kernel, HandleSignal, ReturnToUser, CloneHangs, PollReport,
           PollNothing, WaitP, WaitSleep, WaitReport, WaitAgain, ReportChild,
           OrphanExit, ExitFamily, ExitSignal, ExitPost, ExitMove, TypeOK
    <3> QED BY <3>1 DEF OnHart
  <2> QED BY <2>1, <2>2, <2>3
<1>5. ASSUME NEW p \in Procs, Program(p) \/ Trap(p) \/ Resume(p) PROVE HartsBounded'
  <2>1. HartFree /\ \A q \in Procs \ {p} : pc'[q] = pc[q]
    BY <1>5 DEF Program, NewProc, Wait4, Exit, Trap, Resume, TypeOK
  <2> QED BY <1>3, <2>1
<1>6. ASSUME UNCHANGED pc PROVE OnHart' \subseteq OnHart
  BY <1>6 DEF OnHart
<1> QED BY <1>2, <1>4, <1>5, <1>6 DEF Next, Corrupt, vars

(* With one hart, the process in the kernel is the only one there.          *)
LEMMA AloneOnHart ==
    ASSUME HartsBounded, CpuN = 1, NEW p \in OnHart, NEW q \in OnHart PROVE p = q
<1>1. IsFiniteSet(OnHart)
  BY FS_Subset DEF OnHart
<1>2. Cardinality({p, q}) <= 1 /\ IsFiniteSet({p, q})
  <2>1. {p, q} \in SUBSET OnHart
    OBVIOUS
  <2>2. /\ IsFiniteSet({p, q}) /\ Cardinality({p, q}) <= Cardinality(OnHart)
        /\ Cardinality(OnHart) \in Nat
    BY <1>1, <2>1, FS_Subset, FS_CardinalityType
  <2>3. Cardinality({p, q}) \in Nat
    BY <2>2, FS_CardinalityType
  <2> QED BY <2>2, <2>3 DEF HartsBounded
<1>3. SUFFICES ASSUME p # q PROVE FALSE
  OBVIOUS
<1>4. IsFiniteSet({p}) /\ Cardinality({p}) = 1
  BY FS_Singleton
<1>5. {p, q} = {p} \cup {q} /\ q \notin {p}
  BY <1>3
<1>6. Cardinality({p} \cup {q}) = Cardinality({p}) + 1
  BY <1>4, <1>5, FS_AddElement, Zenon
<1> QED BY <1>2, <1>4, <1>5, <1>6

(* What is freed is a dead child of a process that is in the kernel, not    *)
(* that process itself.                                                     *)
LEMMA FreedByKernel ==
    ASSUME IInv, [Next]_vars, NEW c \in Procs, alloc'[c] = "freed", alloc[c] # "freed"
    PROVE  \E p \in OnHart : p # c /\ c \in children[p] \cap dead /\ pc'[c] = pc[c]
<1> USE DEF KernelLabels, ExitLabels
<1>0. TypeOK /\ FamilyTree /\ ParentRead /\ CloneOK
  BY DEF IInv
<1>1. ASSUME NEW p \in Procs, HandleSignal(p)
      PROVE  p \in OnHart /\ p # c /\ c \in children[p] \cap dead /\ pc'[c] = pc[c]
  <2>1. PICK k \in SignalledChild(p) : Reap(p, k)
    BY <1>1 DEF HandleSignal
  <2>2. k = c /\ c \in children[p] \cap dead
    BY <1>0, <2>1 DEF Reap, Release, SignalledChild, TypeOK
  <2>3. pc[p] = "trap_end" /\ p \notin dead /\ \A q \in Procs \ {p} : pc'[q] = pc[q]
    BY <1>0, <1>1 DEF HandleSignal, TypeOK, RegistersFit
  <2> QED BY <2>2, <2>3 DEF OnHart
<1>2. ASSUME NEW p \in Procs, PollReport(p) \/ WaitReport(p)
      PROVE  p \in OnHart /\ p # c /\ c \in children[p] \cap dead /\ pc'[c] = pc[c]
  <2>1. PICK k \in WantedChild(p) : Reap(p, k)
    BY <1>2 DEF PollReport, WaitReport, ReportChild
  <2>2. k = c /\ c \in children[p] \cap dead
    BY <1>0, <2>1 DEF Reap, Release, WantedChild, TypeOK
  <2>3. pc[p] \in {"poll", "wait_scan"} /\ \A q \in Procs \ {p} : pc'[q] = pc[q]
    BY <1>0, <1>2 DEF PollReport, WaitReport, ReportChild, TypeOK
  <2>4. p \notin dead
    BY <1>0, <2>3 DEF TypeOK, RegistersFit
  <2> QED BY <2>2, <2>3, <2>4 DEF OnHart
<1>3. ASSUME NEW p \in Procs, ExitFamily(p)
      PROVE  p \in OnHart /\ p # c /\ c \in children[p] \cap dead /\ pc'[c] = pc[c]
  <2>1. /\ pc[p] = "exit_family" /\ alloc[p] = "used"
        /\ c \in children[p] \cap dead
        /\ arg[p] \in Procs /\ arg[p] # p
        /\ \A q \in Procs \ {p} : pc'[q] = pc[q]
    BY <1>0, <1>3 DEF ExitFamily, Release, ParentOk, Locked, TypeOK
  <2>2. parent[p] = arg[p]
    BY <1>0, <2>1 DEF ParentRead
  <2>3. p \notin children[p]
    BY <1>0, <2>1, <2>2 DEF FamilyTree
  <2> QED BY <2>1, <2>3 DEF OnHart
<1>4. ASSUME NEW p \in Procs, NEW k \in Procs, NewProc(p, k) PROVE FALSE
  BY <1>0, <1>4 DEF NewProc, TypeOK
<1>5. \/ alloc' = alloc
      \/ \E p \in Procs : HandleSignal(p) \/ PollReport(p) \/ WaitReport(p) \/ ExitFamily(p)
      \/ \E p, k \in Procs : NewProc(p, k)
  BY DEF Next, Kernel, Program, Trap, ReturnToUser, CloneHangs, StartChild, Wait4,
         PollNothing, WaitP, WaitSleep, Resume, WaitAgain, OrphanExit, Exit,
         ExitSignal, ExitPost, ExitWake, ExitMove, Corrupt, vars
<1> QED BY <1>1, <1>2, <1>3, <1>4, <1>5

(* A process that is gone stays so.                                         *)
LEMMA GoneStays ==
    ASSUME TypeOK, CloneOK, [Next]_vars, NEW c \in Procs, pc[c] = "gone"
    PROVE  pc'[c] = "gone"
<1>1. ASSUME NEW p \in Procs, StartChild(p) PROVE pc'[c] = "gone"
  BY <1>1, CloneEffect
<1>2. ASSUME NEW p \in Procs, ExitWake(p) PROVE pc'[c] = "gone"
  BY <1>2 DEF ExitWake
<1>3. ASSUME UNCHANGED vars \/ \E p \in Procs : Corrupt(p) PROVE pc'[c] = "gone"
  BY <1>3 DEF vars, Corrupt
<1>4. ASSUME NEW p \in Procs, Kernel(p), ~StartChild(p), ~ExitWake(p) PROVE pc'[c] = "gone"
  <2>1. pc[p] # "gone" /\ \A q \in Procs \ {p} : pc'[q] = pc[q]
    BY <1>4 DEF Kernel, HandleSignal, ReturnToUser, CloneHangs, PollReport,
         PollNothing, WaitP, WaitSleep, WaitReport, WaitAgain, ReportChild,
         OrphanExit, ExitFamily, ExitSignal, ExitPost, ExitMove, TypeOK
  <2> QED BY <2>1
<1>5. ASSUME NEW p \in Procs, Program(p) \/ Trap(p) \/ Resume(p) PROVE pc'[c] = "gone"
  <2>1. pc[p] # "gone" /\ \A q \in Procs \ {p} : pc'[q] = pc[q]
    BY <1>5 DEF Program, NewProc, Wait4, Exit, Trap, Resume, TypeOK
  <2> QED BY <2>1
<1> QED BY <1>1, <1>2, <1>3, <1>4, <1>5 DEF Next

(* On one hart nobody is freed before it is gone.                           *)
LEMMA FreedStep ==
    ASSUME CpuN = 1, IInv, FreedIsDone, [Next]_vars PROVE FreedIsDone'
<1> SUFFICES ASSUME NEW c \in Procs, alloc'[c] = "freed" PROVE pc'[c] = "gone"
  BY DEF FreedIsDone
<1>0. TypeOK /\ CloneOK /\ HartsBounded
  BY DEF IInv
<1>1. CASE alloc[c] = "freed"
  BY <1>0, <1>1, GoneStays DEF FreedIsDone
<1>2. CASE alloc[c] # "freed"
  <2>1. PICK p \in OnHart : p # c /\ c \in children[p] \cap dead /\ pc'[c] = pc[c]
    BY <1>2, FreedByKernel
  <2>2. c \notin OnHart
    BY <1>0, <2>1, AloneOnHart
  <2> QED BY <1>0, <2>1, <2>2 DEF OnHart, KernelLabels, TypeOK, RegistersFit
<1> QED BY <1>1, <1>2

-----------------------------------------------------------------------------
\* The credits of wait4

(* Steps that move neither a credit nor a sleeper nor its waker.            *)
LEMMA CreditKept ==
    ASSUME TypeOK, CreditSign, WakeOwed, credit' = credit,
           \A q \in Procs : pc'[q] = "exit_wake" => pc[q] = "exit_wake" /\ arg'[q] = arg[q],
           \A q \in Procs : pc[q] \in Sleeping => pc'[q] \in Sleeping
    PROVE  CreditSign' /\ WakeOwed'
<1>1. CreditSign'
  BY DEF CreditSign
<1>2. \A q \in Procs : pc[q] = "exit_wake" => arg[q] \in Procs
  BY DEF TypeOK, RegistersFit, ExitLabels
<1> QED BY <1>1, <1>2 DEF WakeOwed

(* Every step keeps sleep_lock between its owner and the one waker.         *)
LEMMA CreditStep ==
    TypeOK /\ CloneOK /\ CreditSign /\ WakeOwed /\ [Next]_vars => CreditSign' /\ WakeOwed'
<1> SUFFICES ASSUME TypeOK, CloneOK, CreditSign, WakeOwed, [Next]_vars
             PROVE  CreditSign' /\ WakeOwed'
  OBVIOUS
<1> USE DEF Sleeping
<1>a. \A q \in Procs : pc[q] = "exit_wake" => arg[q] \in Procs
  BY DEF TypeOK, RegistersFit, ExitLabels
<1>1. ASSUME NEW p \in Procs,
             \/ HandleSignal(p) \/ ReturnToUser(p) \/ CloneHangs(p) \/ PollReport(p)
             \/ PollNothing(p) \/ WaitReport(p) \/ OrphanExit(p) \/ ExitFamily(p)
             \/ ExitSignal(p) \/ ExitMove(p) \/ Program(p) \/ Trap(p) \/ Resume(p)
      PROVE  CreditSign' /\ WakeOwed'
  <2>1. /\ credit' = credit
        /\ pc[p] \notin Sleeping /\ pc'[p] # "exit_wake"
        /\ \A q \in Procs \ {p} : pc'[q] = pc[q] /\ arg'[q] = arg[q]
    BY <1>1 DEF HandleSignal, ReturnToUser, CloneHangs, PollReport, PollNothing,
         WaitReport, ReportChild, OrphanExit, ExitFamily, ExitSignal, ExitMove, Program,
         NewProc, Wait4, Exit, Trap, Resume, TypeOK
  <2> QED BY <2>1, CreditKept
<1>2. ASSUME NEW p \in Procs, StartChild(p) PROVE CreditSign' /\ WakeOwed'
  <2>1. credit' = credit
    BY <1>2 DEF StartChild
  <2> QED BY <1>2, <2>1, CloneEffect, CreditKept
<1>3. ASSUME UNCHANGED vars \/ \E p \in Procs : Corrupt(p) PROVE CreditSign' /\ WakeOwed'
  BY <1>3, CreditKept DEF vars, Corrupt
<1>4. ASSUME NEW p \in Procs, WaitSleep(p) PROVE CreditSign' /\ WakeOwed'
  BY <1>4, CreditKept DEF WaitSleep, TypeOK
<1>5. ASSUME NEW p \in Procs, WaitP(p) PROVE CreditSign' /\ WakeOwed'
  <2>0. /\ pc[p] = "wait"
        /\ credit' = [credit EXCEPT ![p] = @ - 1] /\ arg' = arg
        /\ pc' = [pc EXCEPT ![p] = IF credit[p] > 0 THEN "wait_scan" ELSE "wait_sleep"]
    BY <1>5 DEF WaitP
  <2>1. credit[p] \in Int /\ credit[p] >= 0
    <3>1. credit[p] \in Int
      BY DEF TypeOK
    <3> QED BY <2>0, <3>1 DEF CreditSign
  <2>2. CreditSign'
    <3>1. SUFFICES ASSUME NEW q \in Procs
                   PROVE credit'[q] >= -1 /\ (credit'[q] < 0 => pc'[q] \in Sleeping)
      BY DEF CreditSign
    <3>2. CASE q = p
      BY <2>0, <2>1, <3>2 DEF TypeOK
    <3>3. CASE q # p
      BY <2>0, <2>1, <3>3 DEF CreditSign, TypeOK
    <3> QED BY <3>2, <3>3
  <2>3. WakeOwed'
    <3>1. \A q \in Procs : pc'[q] = "exit_wake" <=> pc[q] = "exit_wake"
      BY <2>0, <2>1 DEF TypeOK
    <3>2. \A q \in Procs : pc[q] = "exit_wake" => arg[q] # p
      BY <2>0, <2>1 DEF WakeOwed
    <3>3. \A q \in Procs \ {p} : credit'[q] = credit[q] /\ pc'[q] = pc[q]
      BY <2>0, <2>1 DEF TypeOK
    <3> QED BY <1>a, <2>0, <2>1, <3>1, <3>2, <3>3 DEF WakeOwed
  <2> QED BY <2>2, <2>3
<1>6. ASSUME NEW p \in Procs, WaitAgain(p) PROVE CreditSign' /\ WakeOwed'
  <2>1. /\ pc[p] = "wait_scan" /\ pc' = [pc EXCEPT ![p] = "wait"] /\ arg' = arg
        /\ credit' = credit \/ credit' = [credit EXCEPT ![p] = @ + 1]
    BY <1>6 DEF WaitAgain, GiveBack
  <2>2. \A q \in Procs : credit[q] \in Int /\ credit'[q] \in Int /\ credit'[q] >= credit[q]
    <3>1. credit \in [Procs -> Int]
      BY DEF TypeOK
    <3>2. CASE credit' = credit
      BY <3>1, <3>2
    <3>3. CASE credit' = [credit EXCEPT ![p] = @ + 1]
      BY <3>1, <3>3
    <3> QED BY <2>1, <3>2, <3>3
  <2>3. \A q \in Procs : /\ pc[q] \in Sleeping => pc'[q] \in Sleeping
                         /\ pc'[q] = "exit_wake" => pc[q] = "exit_wake"
    BY <2>1 DEF TypeOK
  <2>4. CreditSign'
    BY <2>2, <2>3 DEF CreditSign
  <2>5. WakeOwed'
    <3>1. ASSUME NEW q \in Procs, pc'[q] = "exit_wake"
          PROVE  credit'[arg'[q]] >= 0 /\ pc'[arg'[q]] \in Sleeping
      BY <1>a, <2>1, <2>2, <2>3, <3>1 DEF WakeOwed
    <3> QED BY <2>1, <2>3, <3>1 DEF WakeOwed
  <2> QED BY <2>4, <2>5
<1>7. ASSUME NEW p \in Procs, ExitPost(p) PROVE CreditSign' /\ WakeOwed'
  <2>1. PICK t \in Procs : t = arg[p]
    BY <1>7 DEF ExitPost, ParentOk
  <2>2. /\ pc[p] = "exit_post" /\ arg' = arg
        /\ credit' = [credit EXCEPT ![t] = @ + 1]
        /\ pc' = [pc EXCEPT ![p] = IF credit[t] < 0 THEN "exit_wake" ELSE "exit_move"]
        /\ \A q \in Procs : credit[q] \in Int /\ credit[q] >= -1
    BY <1>7, <2>1 DEF ExitPost, MustWake, CreditSign, TypeOK
  <2>3. /\ credit'[t] = credit[t] + 1 /\ \A q \in Procs \ {t} : credit'[q] = credit[q]
        /\ pc'[p] = IF credit[t] < 0 THEN "exit_wake" ELSE "exit_move"
        /\ \A q \in Procs \ {p} : pc'[q] = pc[q]
    BY <2>2 DEF TypeOK
  <2>4. CreditSign'
    BY <2>2, <2>3 DEF CreditSign
  <2>5. WakeOwed'
    <3>1. ASSUME NEW q \in Procs, pc'[q] = "exit_wake"
          PROVE  credit'[arg'[q]] >= 0 /\ pc'[arg'[q]] \in Sleeping
      <4>1. CASE q = p
        <5>1. credit[t] < 0 /\ pc[t] \in Sleeping /\ t # p
          BY <2>2, <2>3, <3>1, <4>1 DEF CreditSign
        <5> QED BY <2>1, <2>2, <2>3, <4>1, <5>1
      <4>2. CASE q # p
        <5>1. PICK u \in Procs : u = arg[q] /\ credit[u] >= 0 /\ pc[u] \in Sleeping
          BY <1>a, <2>3, <3>1, <4>2 DEF WakeOwed
        <5>2. u # p
          BY <2>2, <5>1
        <5> QED BY <2>2, <2>3, <5>1, <5>2
      <4> QED BY <4>1, <4>2
    <3>2. ASSUME NEW q \in Procs, NEW r \in Procs, q # r, arg[q] = arg[r],
                 pc'[q] = "exit_wake", pc'[r] = "exit_wake"
          PROVE  FALSE
      <4>1. CASE q # p /\ r # p
        BY <2>3, <3>2, <4>1 DEF WakeOwed
      <4>2. CASE q = p
        <5>1. credit[t] < 0 /\ pc[r] = "exit_wake" /\ arg[r] = t
          BY <2>1, <2>3, <3>2, <4>2
        <5> QED BY <2>2, <5>1 DEF WakeOwed
      <4>3. CASE r = p
        <5>1. credit[t] < 0 /\ pc[q] = "exit_wake" /\ arg[q] = t
          BY <2>1, <2>3, <3>2, <4>3
        <5> QED BY <2>2, <5>1 DEF WakeOwed
      <4> QED BY <4>1, <4>2, <4>3
    <3> QED BY <2>2, <3>1, <3>2 DEF WakeOwed
  <2> QED BY <2>4, <2>5
<1>8. ASSUME NEW p \in Procs, ExitWake(p) PROVE CreditSign' /\ WakeOwed'
  <2>1. PICK t \in Procs : t = arg[p] /\ credit[t] >= 0 /\ credit[t] \in Int
    BY <1>a, <1>8 DEF ExitWake, WakeOwed, TypeOK
  <2>2. /\ pc[p] = "exit_wake" /\ pc'[p] = "exit_move" /\ UNCHANGED <<arg, credit>>
        /\ \A q \in Procs \ {p, t} : pc'[q] = pc[q]
    BY <1>8, <2>1 DEF ExitWake
  <2>3. pc'[t] = "exit_wake" => pc[t] = "exit_wake" /\ t # p
    BY <1>8, <2>1 DEF ExitWake
  <2>4. CreditSign'
    <3>1. SUFFICES ASSUME NEW q \in Procs
                   PROVE  credit'[q] >= -1 /\ (credit'[q] < 0 => pc'[q] \in Sleeping)
      BY DEF CreditSign
    <3>2. CASE q = t
      BY <2>1, <2>2, <3>2
    <3>3. CASE q # t
      BY <2>2, <3>3 DEF CreditSign
    <3> QED BY <3>2, <3>3
  <2>5. WakeOwed'
    <3>1. \A q \in Procs : pc'[q] = "exit_wake" => q # p /\ pc[q] = "exit_wake" /\ arg[q] # t
      BY <2>1, <2>2, <2>3 DEF WakeOwed
    <3>2. ASSUME NEW q \in Procs, pc'[q] = "exit_wake"
          PROVE  credit'[arg'[q]] >= 0 /\ pc'[arg'[q]] \in Sleeping
      <4>1. PICK u \in Procs : u = arg[q] /\ credit[u] >= 0 /\ pc[u] \in Sleeping
        BY <1>a, <3>1, <3>2 DEF WakeOwed
      <4>2. u # p /\ u # t
        BY <2>1, <2>2, <3>1, <3>2, <4>1
      <4> QED BY <2>2, <4>1, <4>2
    <3> QED BY <2>2, <3>1, <3>2 DEF WakeOwed
  <2> QED BY <2>4, <2>5
<1> QED BY <1>1, <1>2, <1>3, <1>4, <1>5, <1>6, <1>7, <1>8 DEF Next, Kernel

(* A process that runs after it has been freed never runs on as if it had   *)
(* not: it takes no step, and nobody moves it.                              *)
LEMMA FreedRunsOn ==
    ASSUME TypeOK, CloneOK, [Next]_vars, NEW q \in Procs, RunsFreed(q)
    PROVE  RunsFreed(q)'
<1> USE DEF KernelLabels, ExitLabels
<1>1. pc[q] \in KernelLabels /\ alloc[q] = "freed"
  BY DEF RunsFreed, OnHart
<1>2. alloc'[q] = "freed"
  <2>1. ASSUME NEW p \in Procs, ExitFamily(p) PROVE alloc'[q] = "freed"
    BY <1>1, <2>1 DEF ExitFamily, Release
  <2>2. ASSUME NEW p \in Procs, NEW c \in Procs, Removes(p, c) \/ NewProc(p, c)
        PROVE  alloc'[q] = "freed"
    BY <1>1, <2>2 DEF Removes, NewProc, TypeOK
  <2> QED BY <1>1, <2>1, <2>2, Effects DEF Quiet, StartChild
<1>3. pc'[q] = pc[q]
  <2>1. ASSUME NEW p \in Procs, StartChild(p) PROVE pc'[q] = pc[q]
    <3>1. alloc[p] = "used"
      BY <2>1 DEF StartChild
    <3> QED BY <1>1, <2>1, <3>1, CloneEffect
  <2>2. ASSUME NEW p \in Procs, ExitWake(p) PROVE pc'[q] = pc[q]
    BY <1>1, <2>2 DEF ExitWake
  <2>3. ASSUME NEW p \in Procs,
               Kernel(p) \/ Program(p) \/ Trap(p) \/ Resume(p), ~StartChild(p), ~ExitWake(p)
        PROVE  pc'[q] = pc[q]
    <3>1. alloc[p] = "used" /\ \A r \in Procs \ {p} : pc'[r] = pc[r]
      BY <2>3 DEF Kernel, Program, HandleSignal, ReturnToUser, CloneHangs, PollReport,
           PollNothing, WaitP, WaitSleep, WaitReport, WaitAgain, ReportChild, OrphanExit,
           ExitFamily, ExitSignal, ExitPost, ExitMove, NewProc, Wait4, Exit, Trap, Resume,
           TypeOK
    <3> QED BY <1>1, <3>1
  <2> QED BY <2>1, <2>2, <2>3 DEF Next, Corrupt, vars
<1> QED BY <1>1, <1>2, <1>3 DEF RunsFreed, OnHart

Late == {"exit_wake", "exit_move", "gone"}

(* Every step leaves a credit, in the semaphore or in hand, for every       *)
(* child that can be reported.                                              *)
LEMMA ZombieStep == IInv /\ [Next]_vars => ZombiesHaveCredit'
<1> SUFFICES ASSUME IInv, [Next]_vars, \A q \in Procs : ~RunsFreed(q)', NEW r \in Procs
             PROVE  (credit[r] + InHand(r) >= Cardinality(Zombies(r)))'
  BY DEF ZombiesHaveCredit
<1> DEFINE Fine == credit[r] + InHand(r) >= Cardinality(Zombies(r))
<1> USE DEF WaitLabels
<1>0. /\ TypeOK /\ CloneOK /\ FamilyTree /\ ParentRead /\ CreditSign
      /\ ZombiesHaveCredit /\ TypeOK'
  BY TypeStep DEF IInv
<1>1. Fine
  <2>1. \A q \in Procs : ~RunsFreed(q)
    BY <1>0, FreedRunsOn
  <2> QED BY <1>0, <2>1 DEF ZombiesHaveCredit
<1>2. /\ IsFiniteSet(Zombies(r)) /\ Cardinality(Zombies(r)) \in Nat
      /\ IsFiniteSet(Zombies(r)') /\ Cardinality(Zombies(r)') \in Nat
  <2>1. Zombies(r) \in SUBSET Procs /\ Zombies(r)' \in SUBSET Procs
    BY <1>0 DEF Zombies, TypeOK
  <2>2. IsFiniteSet(Zombies(r)) /\ IsFiniteSet(Zombies(r)')
    BY <2>1, FS_Subset
  <2> QED BY <2>2, FS_CardinalityType
<1>3. /\ credit[r] \in Int /\ credit'[r] \in Int
      /\ InHand(r) \in {0, 1} /\ InHand(r)' \in {0, 1}
  BY <1>0 DEF TypeOK, InHand
<1>4. ASSUME Zombies(r)' \subseteq Zombies(r),
             credit'[r] + InHand(r)' >= credit[r] + InHand(r)
      PROVE  Fine'
  <2>1. Cardinality(Zombies(r)') <= Cardinality(Zombies(r))
    BY <1>2, <1>4, FS_Subset
  <2> QED BY <1>1, <1>2, <1>3, <1>4, <2>1
<1>5. ASSUME \A q \in Procs : pc'[q] \in Late => pc[q] \in Late,
             children'[r] \subseteq children[r],
             \A q \in children[r] : parent'[q] = parent[q]
      PROVE  Zombies(r)' \subseteq Zombies(r)
  <2>1. SUFFICES ASSUME NEW q \in Zombies(r)' PROVE q \in Zombies(r)
    OBVIOUS
  <2>2. q \in children'[r] /\ parent'[q] = r /\ pc'[q] \in Late /\ q \in Procs
    BY <1>0, <2>1 DEF Zombies, Late, TypeOK
  <2>3. q \in children[r] /\ parent[q] = r /\ pc[q] \in Late
    BY <1>5, <2>2
  <2>4. q \in dead
    BY <1>0, <2>2, <2>3 DEF Late, TypeOK, RegistersFit, ExitLabels
  <2> QED BY <2>3, <2>4 DEF Zombies, Late
<1>6. ASSUME NEW p \in Procs, UNCHANGED <<parent, credit>>,
             children'[r] \subseteq children[r],
             pc'[p] \in Late => pc[p] \in Late,
             pc'[p] \in WaitLabels \ {"wait"} <=> pc[p] \in WaitLabels \ {"wait"},
             \A q \in Procs \ {p} : pc'[q] = pc[q]
      PROVE  Fine'
  <2>1. Zombies(r)' \subseteq Zombies(r)
    BY <1>5, <1>6
  <2>2. InHand(r)' = InHand(r)
    BY <1>6 DEF InHand
  <2> QED BY <1>3, <1>4, <1>6, <2>1, <2>2
<1>7. ASSUME NEW p \in Procs,
             \/ ReturnToUser(p) \/ CloneHangs(p) \/ PollNothing(p) \/ WaitSleep(p)
             \/ OrphanExit(p) \/ ExitSignal(p) \/ ExitMove(p) \/ Trap(p) \/ Resume(p)
             \/ Exit(p) \/ Corrupt(p)
             \/ \E c \in children[p] \cup {AnyChild}, how \in {"poll", "wait"} : Wait4(p, c, how)
      PROVE  Fine'
  <2>1. UNCHANGED <<parent, children, credit>>
    BY <1>7 DEF ReturnToUser, CloneHangs, PollNothing, WaitSleep, OrphanExit, ExitSignal,
         ExitMove, Trap, Resume, Exit, Corrupt, Wait4
  <2>2. CASE Corrupt(p)
    BY <1>6, <2>1, <2>2 DEF Corrupt
  <2>3. CASE ~Corrupt(p)
    <3>1. PICK l \in Labels : pc' = [pc EXCEPT ![p] = l] /\ (l \in Late => pc[p] \in Late)
                   /\ (l \in WaitLabels \ {"wait"} <=> pc[p] \in WaitLabels \ {"wait"})
      BY <1>7, <2>3 DEF ReturnToUser, CloneHangs, PollNothing, WaitSleep, OrphanExit,
           ExitSignal, ExitMove, Trap, Resume, Exit, Wait4, Late, Labels, KernelLabels,
           ExitLabels
    <3>2. pc'[p] = l /\ \A q \in Procs \ {p} : pc'[q] = pc[q]
      BY <1>0, <3>1 DEF TypeOK
    <3> QED BY <1>6, <2>1, <3>1, <3>2
  <2> QED BY <2>2, <2>3
<1>8. ASSUME NEW p \in Procs, HandleSignal(p) PROVE Fine'
  <2>1. children'[r] \subseteq children[r] /\ UNCHANGED <<parent, credit>>
    <3>1. \/ children' = children
          \/ \E c \in SignalledChild(p) : children' = [children EXCEPT ![p] = @ \ {c}]
      BY <1>8 DEF HandleSignal, Reap
    <3>2. UNCHANGED <<parent, credit>>
      BY <1>8 DEF HandleSignal
    <3>3. ASSUME NEW c, children' = [children EXCEPT ![p] = @ \ {c}]
          PROVE  children'[r] \subseteq children[r]
      BY <1>0, <3>3 DEF TypeOK
    <3> QED BY <3>1, <3>2, <3>3
  <2>2. /\ pc[p] = "trap_end" /\ pc'[p] \in {"user", "trap_end"}
        /\ \A q \in Procs \ {p} : pc'[q] = pc[q]
    BY <1>0, <1>8 DEF HandleSignal, TypeOK
  <2> QED BY <1>6, <2>1, <2>2 DEF Late
<1>9. ASSUME NEW p \in Procs, PollReport(p) PROVE Fine'
  <2>1. children'[r] \subseteq children[r] /\ UNCHANGED <<parent, credit>>
    BY <1>0, <1>9 DEF PollReport, ReportChild, Reap, TypeOK
  <2>2. /\ pc[p] = "poll" /\ pc'[p] = "trap_end"
        /\ \A q \in Procs \ {p} : pc'[q] = pc[q]
    BY <1>0, <1>9 DEF PollReport, ReportChild, TypeOK
  <2> QED BY <1>6, <2>1, <2>2 DEF Late
<1>10. ASSUME NEW p \in Procs, NEW c \in Procs, NewProc(p, c) PROVE Fine'
  <2>1. /\ pc[p] = "user" /\ pc' = [pc EXCEPT ![p] = "clone"]
        /\ parent' = [parent EXCEPT ![c] = p] /\ alloc[c] = "unused"
        /\ UNCHANGED <<children, credit>>
    BY <1>10 DEF NewProc
  <2>2. c \notin children[r]
    BY <1>0, <2>1 DEF FamilyTree
  <2>3. Zombies(r)' \subseteq Zombies(r)
    BY <1>0, <1>5, <2>1, <2>2 DEF Late, TypeOK
  <2>4. InHand(r)' = InHand(r)
    BY <1>0, <2>1 DEF InHand, TypeOK
  <2> QED BY <1>3, <1>4, <2>1, <2>3, <2>4
<1>11. ASSUME NEW p \in Procs, StartChild(p) PROVE Fine'
  <2>1. PICK c \in Procs :
             /\ pc[p] = "clone" /\ pc[c] = "none"
             /\ children' = [children EXCEPT ![p] = @ \cup {c}]
             /\ pc'[p] = "trap_end" /\ pc'[c] = "user"
             /\ \A q \in Procs \ {p, c} : pc'[q] = pc[q]
             /\ UNCHANGED <<dead, parent>>
    BY <1>0, <1>11, CloneEffect
  <2>2. children'[r] \subseteq children[r] \cup {c} /\ credit' = credit
    BY <1>0, <1>11, <2>1 DEF StartChild, TypeOK
  <2>3. ASSUME NEW q \in Zombies(r)' PROVE q \in Zombies(r)
    <3>1. q \in children'[r] \cap dead /\ parent[q] = r /\ pc'[q] \in Late
      BY <2>1, <2>3 DEF Zombies, Late
    <3>2. q \in children[r] /\ q \in Procs /\ pc[q] \in Late
      BY <1>0, <2>1, <2>2, <3>1 DEF Late, TypeOK
    <3> QED BY <3>1, <3>2 DEF Zombies, Late
  <2>4. InHand(r)' = InHand(r)
    BY <2>1 DEF InHand
  <2> QED BY <1>3, <1>4, <2>2, <2>3, <2>4
<1>12. ASSUME NEW p \in Procs, WaitReport(p) PROVE Fine'
  <2>1. PICK c \in WantedChild(p) : Reap(p, c)
    BY <1>12 DEF WaitReport, ReportChild
  <2>2. /\ pc[p] = "wait_scan" /\ pc' = [pc EXCEPT ![p] = "trap_end"]
        /\ children' = [children EXCEPT ![p] = @ \ {c}]
        /\ UNCHANGED <<parent, credit>>
        /\ c \in children[p] \cap dead /\ c \in Procs
    BY <1>0, <1>12, <2>1 DEF WaitReport, ReportChild, Reap, WantedChild, TypeOK
  <2>3. CASE r # p
    <3>1. Zombies(r)' \subseteq Zombies(r)
      <4>1. children'[r] = children[r]
        BY <1>0, <2>2, <2>3 DEF TypeOK
      <4>2. \A q \in Procs : pc'[q] \in Late => pc[q] \in Late
        BY <1>0, <2>2 DEF Late, TypeOK
      <4> QED BY <1>5, <2>2, <4>1, <4>2
    <3>2. InHand(r)' = InHand(r)
      BY <1>0, <2>2, <2>3 DEF InHand, TypeOK
    <3> QED BY <1>3, <1>4, <2>2, <3>1, <3>2
  <2>4. CASE r = p
    <3>1. alloc[c] = "used" /\ alloc'[c] = "freed" /\ c # p
      BY <1>0, <2>1, <2>2 DEF Reap, Release, FamilyTree, TypeOK, RegistersFit, ExitLabels
    <3>2. pc[c] = "gone"
      <4>1. c \notin OnHart'
        BY <2>2, <3>1 DEF RunsFreed
      <4>2. pc'[c] = pc[c]
        BY <1>0, <2>2, <3>1 DEF TypeOK
      <4> QED BY <1>0, <2>2, <4>1, <4>2 DEF OnHart, KernelLabels, TypeOK, RegistersFit
    <3>3. parent[c] = p
      BY <1>0, <2>2, <3>1, <3>2 DEF ParentRead, FamilyTree
    <3>4. c \in Zombies(r)
      BY <2>2, <2>4, <3>2, <3>3 DEF Zombies
    <3>5. Zombies(r)' \subseteq Zombies(r) \ {c}
      <4>1. Zombies(r)' \subseteq Zombies(r)
        BY <1>0, <1>5, <2>2, <2>4 DEF Late, TypeOK
      <4>2. c \notin children'[r]
        BY <1>0, <2>2, <2>4 DEF TypeOK
      <4> QED BY <4>1, <4>2 DEF Zombies
    <3>6. /\ IsFiniteSet(Zombies(r) \ {c})
          /\ Cardinality(Zombies(r) \ {c}) = Cardinality(Zombies(r)) - 1
      BY <1>2, <3>4, FS_RemoveElement
    <3>7. Cardinality(Zombies(r)') <= Cardinality(Zombies(r) \ {c})
      BY <3>5, <3>6, FS_Subset
    <3>8. InHand(r) = 1 /\ InHand(r)' = 0
      BY <1>0, <2>2, <2>4 DEF InHand, TypeOK
    <3> QED BY <1>1, <1>2, <1>3, <2>2, <3>6, <3>7, <3>8
  <2> QED BY <2>3, <2>4
<1>13. ASSUME NEW p \in Procs, WaitP(p) PROVE Fine'
  <2>1. /\ pc[p] = "wait" /\ credit' = [credit EXCEPT ![p] = @ - 1]
        /\ \/ pc' = [pc EXCEPT ![p] = "wait_scan"]
           \/ pc' = [pc EXCEPT ![p] = "wait_sleep"]
        /\ UNCHANGED <<parent, children>>
    BY <1>13 DEF WaitP
  <2>2. Zombies(r)' \subseteq Zombies(r)
    BY <1>0, <1>5, <2>1 DEF Late, TypeOK
  <2>3. CASE r # p
    <3>1. credit'[r] = credit[r] /\ InHand(r)' = InHand(r)
      BY <1>0, <2>1, <2>3 DEF InHand, TypeOK
    <3> QED BY <1>3, <1>4, <2>2, <3>1
  <2>4. CASE r = p
    <3>1. InHand(r) = 0 /\ InHand(r)' = 1
      BY <1>0, <2>1, <2>4 DEF InHand, TypeOK
    <3>2. credit'[r] = credit[r] - 1
      BY <1>0, <2>1, <2>4 DEF TypeOK
    <3> QED BY <1>3, <1>4, <2>2, <3>1, <3>2
  <2> QED BY <2>3, <2>4
<1>14. ASSUME NEW p \in Procs, WaitAgain(p) PROVE Fine'
  <2>1. /\ pc[p] = "wait_scan" /\ pc' = [pc EXCEPT ![p] = "wait"]
        /\ WantedChild(p) = {}
        /\ IF arg[p] = AnyChild THEN credit' = credit
                                ELSE credit' = [credit EXCEPT ![p] = @ + 1]
        /\ UNCHANGED <<dead, parent, children>>
    BY <1>14 DEF WaitAgain, GiveBack
  <2>2. Zombies(r)' \subseteq Zombies(r)
    BY <1>0, <1>5, <2>1 DEF Late, TypeOK
  <2>3. CASE r # p
    <3>1. credit'[r] = credit[r] /\ InHand(r)' = InHand(r)
      BY <1>0, <2>1, <2>3, SMTT(30) DEF InHand, TypeOK
    <3> QED BY <1>3, <1>4, <2>2, <3>1
  <2>4. CASE r = p /\ arg[p] # AnyChild
    <3>1. InHand(r) = 1 /\ InHand(r)' = 0
      BY <1>0, <2>1, <2>4 DEF InHand, TypeOK
    <3>2. credit'[r] = credit[r] + 1
      BY <1>0, <2>1, <2>4 DEF TypeOK
    <3> QED BY <1>3, <1>4, <2>2, <3>1, <3>2
  <2>5. CASE r = p /\ arg[p] = AnyChild
    <3>1. Zombies(r)' = {}
      BY <2>1, <2>5 DEF Zombies, WantedChild
    <3>2. credit'[r] >= 0
      BY <1>3, <1>0, <2>1, <2>5 DEF CreditSign, Sleeping
    <3>3. Cardinality(Zombies(r)') = 0
      BY <3>1, FS_EmptySet
    <3> QED BY <1>3, <3>2, <3>3
  <2> QED BY <2>3, <2>4, <2>5
<1>15. ASSUME NEW p \in Procs, ExitFamily(p) PROVE Fine'
  <2>1. PICK q \in Procs : q = arg[p] /\ q # p
    BY <1>15 DEF ExitFamily, ParentOk, Locked, ExitLabels
  <2>2. /\ pc[p] = "exit_family" /\ pc' = [pc EXCEPT ![p] = "exit_signal"]
        /\ children' = [children EXCEPT ![p] = {}, ![q] = @ \cup (children[p] \ dead)]
        /\ parent' = [c \in Procs |-> IF c \in children[p] THEN NoProc ELSE parent[c]]
        /\ UNCHANGED <<dead, credit>>
    BY <1>15, <2>1 DEF ExitFamily, Orphan, HandOver
  <2>3. InHand(r)' = InHand(r)
    BY <1>0, <2>2 DEF InHand, TypeOK
  <2>4. CASE r = p
    <3>1. Zombies(r)' = {} /\ Cardinality(Zombies(r)') = 0
      <4>1. children'[r] = {}
        BY <1>0, <2>1, <2>2, <2>4 DEF TypeOK
      <4>2. Zombies(r)' = {}
        BY <4>1 DEF Zombies
      <4> QED BY <4>2, FS_EmptySet
    <3>2. credit'[r] >= 0
      BY <1>3, <1>0, <2>2, <2>4 DEF CreditSign, Sleeping
    <3> QED BY <1>3, <3>1, <3>2
  <2>5. CASE r # p
    <3>1. children'[r] \subseteq children[r] \cup (children[p] \ dead)
      BY <1>0, <2>1, <2>2, <2>5 DEF TypeOK
    <3>2. ASSUME NEW c \in Zombies(r)' PROVE c \in Zombies(r)
      <4>1. /\ c \in children'[r] \cap dead /\ c \in Procs
            /\ parent'[c] = r /\ pc'[c] \in Late
        BY <1>0, <2>2, <3>2 DEF Zombies, Late, TypeOK
      <4>2. c \in children[r] /\ parent[c] = r
        BY <2>2, <3>1, <4>1
      <4>3. pc[c] \in Late
        BY <1>0, <2>2, <4>1 DEF Late, TypeOK
      <4> QED BY <4>1, <4>2, <4>3 DEF Zombies, Late
    <3> QED BY <1>3, <1>4, <2>2, <2>3, <3>2
  <2> QED BY <2>4, <2>5
<1>16. ASSUME NEW p \in Procs, ExitPost(p) PROVE Fine'
  <2>1. PICK t \in Procs : t = arg[p]
    BY <1>16 DEF ExitPost, ParentOk
  <2>2. /\ pc[p] = "exit_post" /\ alloc[p] = "used"
        /\ credit' = [credit EXCEPT ![t] = @ + 1]
        /\ pc'[p] \in {"exit_wake", "exit_move"}
        /\ \A q \in Procs \ {p} : pc'[q] = pc[q]
        /\ UNCHANGED <<dead, parent, children>>
    BY <1>0, <1>16, <2>1 DEF ExitPost, TypeOK
  <2>3. parent[p] = t /\ InHand(r)' = InHand(r)
    BY <1>0, <2>1, <2>2 DEF ParentRead, ExitLabels, InHand
  <2>4. CASE r # t
    <3>1. ASSUME NEW q \in Zombies(r)' PROVE q \in Zombies(r)
      <4>1. q \in children[r] \cap dead /\ q \in Procs /\ parent[q] = r /\ pc'[q] \in Late
        BY <1>0, <2>2, <3>1 DEF Zombies, Late, TypeOK
      <4>2. q # p
        BY <1>0, <2>1, <2>3, <2>4, <4>1
      <4> QED BY <2>2, <4>1, <4>2 DEF Zombies, Late
    <3>2. credit'[r] = credit[r]
      BY <1>0, <2>2, <2>4 DEF TypeOK
    <3> QED BY <1>3, <1>4, <2>3, <3>1, <3>2
  <2>5. CASE r = t
    <3>1. ASSUME NEW q \in Zombies(r)' PROVE q \in Zombies(r) \cup {p}
      <4>1. q \in children[r] \cap dead /\ q \in Procs /\ parent[q] = r /\ pc'[q] \in Late
        BY <1>0, <2>2, <3>1 DEF Zombies, Late, TypeOK
      <4> QED BY <2>2, <4>1 DEF Zombies, Late
    <3>2. /\ IsFiniteSet(Zombies(r) \cup {p})
          /\ Cardinality(Zombies(r) \cup {p}) <= Cardinality(Zombies(r)) + 1
      <4>1. /\ IsFiniteSet(Zombies(r) \cup {p})
            /\ Cardinality(Zombies(r) \cup {p}) =
                 IF p \in Zombies(r) THEN Cardinality(Zombies(r))
                                     ELSE Cardinality(Zombies(r)) + 1
        BY <1>2, FS_AddElement, Zenon
      <4> QED BY <1>2, <4>1
    <3>3. /\ Cardinality(Zombies(r)') <= Cardinality(Zombies(r) \cup {p})
          /\ Cardinality(Zombies(r) \cup {p}) \in Nat
      BY <3>1, <3>2, FS_Subset, FS_CardinalityType
    <3>4. credit'[r] = credit[r] + 1
      BY <1>0, <2>2, <2>5 DEF TypeOK
    <3> QED BY <1>1, <1>2, <1>3, <2>3, <3>2, <3>3, <3>4
  <2> QED BY <2>4, <2>5
<1>17. ASSUME NEW p \in Procs, ExitWake(p) PROVE Fine'
  <2>1. /\ pc[p] = "exit_wake" /\ pc'[p] = "exit_move"
        /\ \A q \in Procs \ {p} :
              pc'[q] = pc[q] \/ (pc[q] = "asleep" /\ pc'[q] = "woken")
        /\ UNCHANGED <<parent, children, credit>>
    BY <1>17 DEF ExitWake
  <2>2. Zombies(r)' \subseteq Zombies(r)
    BY <1>5, <2>1 DEF Late
  <2>3. InHand(r)' = InHand(r)
    BY <2>1 DEF InHand
  <2> QED BY <1>3, <1>4, <2>1, <2>2, <2>3
<1>18. CASE UNCHANGED vars
  BY <1>1, <1>18 DEF vars, InHand, Zombies
<1> QED
  BY <1>7, <1>8, <1>9, <1>10, <1>11, <1>12, <1>13, <1>14, <1>15, <1>16, <1>17, <1>18
     DEF Next, Kernel, Program

(* Who has been freed and does not run has given its children away.         *)
LEMMA NoneLost == TypeOK /\ CloneOK /\ FamilyTree => NobodyLost
<1> SUFFICES ASSUME TypeOK, CloneOK, FamilyTree, \A q \in Procs : ~RunsFreed(q),
                    NEW c \in Procs \ {Idle}, alloc[c] = "used", ~InClone(c)
             PROVE  \E p \in Procs : alloc[p] = "used" /\ c \in children[p]
  BY DEF NobodyLost
<1>1. PICK p \in Procs : c \in children[p]
  BY DEF FamilyTree
<1>2. alloc[p] # "unused" /\ pc[p] # "gone"
  BY <1>1 DEF CloneOK, FamilyTree, GivenAway
<1>3. CASE alloc[p] = "freed"
  <2>1. pc[p] \in ExitLabels
    BY <1>2, <1>3 DEF TypeOK, RegistersFit
  <2> QED BY <1>3, <2>1 DEF RunsFreed, OnHart, KernelLabels
<1> QED BY <1>1, <1>2, <1>3 DEF TypeOK

(* On one hart a child posts while its parent is asleep, and not on its way *)
(* to it.                                                                   *)
LEMMA SleepStep ==
    ASSUME CpuN = 1, IInv, SleepOwed, [Next]_vars PROVE SleepOwed'
<1> USE DEF KernelLabels, ExitLabels
<1>0. TypeOK /\ CloneOK /\ HartsBounded /\ CreditSign
  BY DEF IInv
<1>1. ASSUME UNCHANGED credit,
             \A q \in Procs : pc[q] = "exit_wake" => pc'[q] = "exit_wake" /\ arg'[q] = arg[q],
             \A q \in Procs : pc'[q] \in Sleeping => pc[q] = pc'[q]
      PROVE  SleepOwed'
  BY <1>1 DEF SleepOwed, Waker, Sleeping
<1>2. ASSUME NEW p \in Procs,
             \/ HandleSignal(p) \/ ReturnToUser(p) \/ CloneHangs(p) \/ PollReport(p)
             \/ PollNothing(p) \/ WaitReport(p) \/ OrphanExit(p) \/ ExitFamily(p)
             \/ ExitSignal(p) \/ ExitMove(p) \/ Program(p) \/ Trap(p) \/ Resume(p)
      PROVE  SleepOwed'
  <2>1. /\ credit' = credit
        /\ pc[p] # "exit_wake" /\ pc'[p] \notin Sleeping
        /\ \A q \in Procs \ {p} : pc'[q] = pc[q] /\ arg'[q] = arg[q]
    <3>1. /\ pc \in [Procs -> Labels]
          /\ arg \in [Procs -> Procs \cup {NoProc, AnyChild}]
      BY <1>0 DEF TypeOK
    <3>2. CASE HandleSignal(p) \/ ReturnToUser(p) \/ CloneHangs(p) \/ PollNothing(p)
      BY <3>1, <3>2 DEF HandleSignal, ReturnToUser, CloneHangs, PollNothing, Sleeping
    <3>3. CASE PollReport(p) \/ WaitReport(p)
      BY <3>1, <3>3 DEF PollReport, WaitReport, ReportChild, Sleeping
    <3>4. CASE OrphanExit(p) \/ ExitFamily(p) \/ ExitSignal(p) \/ ExitMove(p)
      BY <3>1, <3>4 DEF OrphanExit, ExitFamily, ExitSignal, ExitMove, Sleeping
    <3>5. CASE Program(p)
      BY <3>1, <3>5 DEF Program, NewProc, Wait4, Exit, Sleeping
    <3>6. CASE Trap(p) \/ Resume(p)
      BY <3>1, <3>6 DEF Trap, Resume, Sleeping
    <3> QED BY <1>2, <3>2, <3>3, <3>4, <3>5, <3>6
  <2>2. \A q \in Procs : pc[q] = "exit_wake" => pc'[q] = "exit_wake" /\ arg'[q] = arg[q]
    BY <2>1
  <2>3. \A q \in Procs : pc'[q] \in Sleeping => pc[q] = pc'[q]
    BY <2>1
  <2> QED BY <1>1, <2>1, <2>2, <2>3
<1>3. ASSUME NEW p \in Procs, StartChild(p) PROVE SleepOwed'
  <2>1. credit' = credit
    BY <1>3 DEF StartChild
  <2>2. PICK c \in Procs :
             /\ pc[p] = "clone" /\ pc[c] = "none"
             /\ pc'[p] = "trap_end" /\ pc'[c] = "user"
             /\ \A q \in Procs \ {p, c} : pc'[q] = pc[q]
             /\ \A q \in Procs \ {p} : arg'[q] = arg[q]
    BY <1>0, <1>3, CloneEffect
  <2>3. \A q \in Procs : pc[q] = "exit_wake" => pc'[q] = "exit_wake" /\ arg'[q] = arg[q]
    BY <2>2
  <2>4. \A q \in Procs : pc'[q] \in Sleeping => pc[q] = pc'[q]
    BY <2>2 DEF Sleeping
  <2> QED BY <1>1, <2>1, <2>3, <2>4
<1>4. ASSUME UNCHANGED vars \/ \E p \in Procs : Corrupt(p) PROVE SleepOwed'
  BY <1>1, <1>4 DEF vars, Corrupt
<1>5. ASSUME NEW p \in Procs, WaitSleep(p) PROVE SleepOwed'
  <2>1. /\ pc[p] = "wait_sleep" /\ pc' = [pc EXCEPT ![p] = "asleep"]
        /\ UNCHANGED <<credit, arg>>
    BY <1>5 DEF WaitSleep
  <2>2. \A q \in Procs : Waker(q) => Waker(q)'
    BY <1>0, <2>1 DEF Waker, TypeOK
  <2> QED BY <1>0, <2>1, <2>2 DEF SleepOwed, TypeOK
<1>6. ASSUME NEW p \in Procs, WaitP(p) \/ WaitAgain(p) PROVE SleepOwed'
  <2>1. /\ pc[p] \in {"wait", "wait_scan"} /\ arg' = arg
        /\ \A q \in Procs \ {p} : pc'[q] = pc[q] /\ credit'[q] = credit[q]
    BY <1>0, <1>6 DEF WaitP, WaitAgain, GiveBack, TypeOK
  <2>2. pc'[p] \in {"wait", "wait_scan"} \/ (pc'[p] = "wait_sleep" /\ credit'[p] = -1)
    <3>1. CASE WaitAgain(p)
      BY <1>0, <3>1 DEF WaitAgain, TypeOK
    <3>2. CASE WaitP(p)
      <4>1. credit[p] \in Int /\ credit \in [Procs -> Int] /\ pc \in [Procs -> Labels]
        BY <1>0 DEF TypeOK
      <4>2. pc[p] = "wait"
        BY <3>2 DEF WaitP
      <4>3. credit[p] >= 0
        BY <1>0, <4>1, <4>2 DEF CreditSign, Sleeping
      <4> QED BY <3>2, <4>1, <4>3 DEF WaitP
    <3> QED BY <1>6, <3>1, <3>2
  <2>3. \A q \in Procs : Waker(q) => Waker(q)'
    BY <2>1 DEF Waker
  <2> QED BY <2>1, <2>2, <2>3 DEF SleepOwed
<1>7. ASSUME NEW p \in Procs, ExitPost(p) PROVE SleepOwed'
  <2>1. PICK t \in Procs : t = arg[p]
    BY <1>7 DEF ExitPost, ParentOk
  <2>2. /\ pc[p] = "exit_post" /\ arg' = arg
        /\ \A q \in Procs \ {t} : credit'[q] = credit[q]
        /\ pc'[p] = IF credit[t] < 0 THEN "exit_wake" ELSE "exit_move"
        /\ \A q \in Procs \ {p} : pc'[q] = pc[q]
    BY <1>0, <1>7, <2>1 DEF ExitPost, MustWake, TypeOK
  <2>3. \A q \in Procs : pc[q] # "wait_sleep"
    <3>1. p \in OnHart /\ \A q \in Procs : pc[q] = "wait_sleep" => q \in OnHart
      BY <2>2 DEF OnHart
    <3> QED BY <1>0, <2>2, <3>1, AloneOnHart
  <2>4. \A q \in Procs : Waker(q) => Waker(q)'
    BY <2>2 DEF Waker
  <2>5. credit[t] < 0 => Waker(t)'
    BY <2>1, <2>2 DEF Waker
  <2> QED BY <2>2, <2>3, <2>4, <2>5 DEF SleepOwed
<1>8. ASSUME NEW p \in Procs, ExitWake(p) PROVE SleepOwed'
  <2>1. PICK t \in Procs : t = arg[p]
    BY <1>0, <1>8 DEF ExitWake, TypeOK, RegistersFit
  <2>2. /\ pc[p] = "exit_wake" /\ pc'[p] = "exit_move" /\ UNCHANGED <<arg, credit>>
        /\ \A q \in Procs \ {p, t} : pc'[q] = pc[q]
        /\ pc'[t] # "asleep" /\ (pc'[t] # pc[t] => pc[t] = "asleep" \/ t = p)
        /\ pc'[t] = "wait_sleep" => pc[t] = "wait_sleep"
    BY <1>8, <2>1 DEF ExitWake
  <2>3. \A q \in Procs \ {t} : Waker(q) => Waker(q)'
    BY <2>1, <2>2 DEF Waker
  <2> QED BY <2>2, <2>3 DEF SleepOwed
<1> QED BY <1>2, <1>3, <1>4, <1>5, <1>6, <1>7, <1>8 DEF Next, Kernel

-----------------------------------------------------------------------------
\* The family as its users see it

St(p) == IF alloc[p] # "used" \/ InClone(p) THEN "absent"
         ELSE IF p \in dead THEN "zombie" ELSE "alive"
TreeState == [p \in Procs |-> St(p)]
TreeKeeper == [p \in Procs |-> Keeper(p)]

(* The refinement mapping is made of these two.                             *)
LEMMA TreeView ==
    /\ TreeState = [p \in Procs |->
          IF alloc[p] # "used" \/ InClone(p) THEN "absent"
          ELSE IF p \in dead THEN "zombie" ELSE "alive"]
    /\ TreeKeeper = [p \in Procs |-> Keeper(p)]
BY DEF TreeState, TreeKeeper, St

(* On disjoint lists the keeper of a process is the one whose list it is    *)
(* on, before and after a step.                                             *)
KeeperIn(f, c) == IF \E p \in Procs : c \in f[p]
                  THEN CHOOSE p \in Procs : c \in f[p] ELSE NoProc
LEMMA KeeperOnList ==
    ASSUME NEW f, \A p, q \in Procs : p # q => f[p] \cap f[q] = {}, NEW c \in Procs
    PROVE  /\ KeeperIn(f, c) \in Procs \cup {NoProc}
           /\ \A p \in Procs : KeeperIn(f, c) = p <=> c \in f[p]
<1>1. CASE \E p \in Procs : c \in f[p]
  <2>1. KeeperIn(f, c) \in Procs /\ c \in f[KeeperIn(f, c)]
    BY <1>1 DEF KeeperIn
  <2> QED BY <2>1
<1>2. CASE ~\E p \in Procs : c \in f[p]
  BY <1>2 DEF KeeperIn
<1> QED BY <1>1, <1>2

LEMMA Keepers ==
    ASSUME FamilyTree, FamilyTree', NEW c \in Procs
    PROVE  /\ Keeper(c) \in Procs \cup {NoProc}
           /\ Keeper(c)' \in Procs \cup {NoProc}
           /\ \A p \in Procs : Keeper(c) = p <=> c \in children[p]
           /\ \A p \in Procs : Keeper(c)' = p <=> c \in children'[p]
<1>1. /\ \A p, q \in Procs : p # q => children[p] \cap children[q] = {}
      /\ \A p, q \in Procs : p # q => children'[p] \cap children'[q] = {}
  BY DEF FamilyTree
<1>2. Keeper(c) = KeeperIn(children, c) /\ Keeper(c)' = KeeperIn(children', c)
  BY DEF Keeper, KeeperIn
<1> QED BY <1>1, <1>2, KeeperOnList

(* Two keepers that agree about every process are the same, or none.        *)
LEMMA SameKeeper ==
    ASSUME FamilyTree, FamilyTree', NEW c \in Procs,
           \A p \in Procs : c \in children'[p] <=> c \in children[p]
    PROVE  Keeper(c)' = Keeper(c)
BY Keepers

(* Who has started is seen according to alloc and dead.                     *)
LEMMA Shown ==
    ASSUME CloneOK, NEW p \in Procs, pc[p] # "none"
    PROVE  St(p) = IF alloc[p] # "used" THEN "absent"
                   ELSE IF p \in dead THEN "zombie" ELSE "alive"
BY DEF CloneOK, St

(* Only sys_exit marks a process dead.                                      *)
LEMMA DeadOnlyExits == ASSUME [Next]_vars PROVE dead' = dead \/ \E p \in Procs : Exit(p)
BY ZenonT(60) DEF Next, Kernel, Program, Trap, HandleSignal, ReturnToUser, NewProc, CloneHangs,
       StartChild, Wait4, PollReport, PollNothing, WaitP, WaitSleep, Resume,
       WaitReport, WaitAgain, OrphanExit, ExitFamily, ExitSignal, ExitPost,
       ExitWake, ExitMove, Corrupt, vars

(* The moment a child is linked is its creation.                            *)
LEMMA CreateStep ==
    ASSUME TypeOK, CloneOK, FamilyTree, FamilyTree', NEW p \in Procs, StartChild(p)
    PROVE  \E c \in Procs : Abstract!Create(p, c)
<1>1. PICK c \in Procs :
         /\ c = arg[p] /\ c # p /\ pc[p] = "clone" /\ pc[c] = "none"
         /\ alloc[c] = "used" /\ parent[c] = p
         /\ children' = [children EXCEPT ![p] = @ \cup {c}]
         /\ pc'[p] = "trap_end" /\ pc'[c] = "user" /\ arg'[p] = NoProc
         /\ \A q \in Procs \ {p, c} : pc'[q] = pc[q]
         /\ \A q \in Procs \ {p} : arg'[q] = arg[q]
         /\ UNCHANGED <<alloc, dead, pids, parent, pending>>
  BY CloneEffect
<1>2. p \notin dead /\ c \notin dead /\ alloc[p] = "used" /\ InClone(c)
  BY <1>1 DEF StartChild, TypeOK, RegistersFit, ExitLabels, InClone
<1>3. St(p) = "alive" /\ St(c) = "absent"
  BY <1>1, <1>2, Shown DEF St
<1>4. \A q \in Procs : InClone(q)' <=> q # c /\ InClone(q)
  <2>1. \A q \in Procs \ {p} : pc[q] \in Cloning => arg[q] # c
    BY <1>1 DEF CloneOK
  <2> QED BY <1>1, <2>1 DEF InClone
<1>5. \A q \in Procs : St(q)' = IF q = c THEN "alive" ELSE St(q)
  BY <1>1, <1>2, <1>4 DEF St
<1>6. /\ children'[p] = children[p] \cup {c}
      /\ \A q \in Procs \ {p} : children'[q] = children[q]
  BY <1>1 DEF TypeOK
<1>7. \A q \in Procs : Keeper(q)' = IF q = c THEN p ELSE Keeper(q)
  <2>1. \A q \in Procs \ {c} : Keeper(q)' = Keeper(q)
    BY <1>6, SameKeeper
  <2>2. Keeper(c)' = p
    BY <1>6, Keepers
  <2> QED BY <2>1, <2>2
<1>8. TreeState' = [TreeState EXCEPT ![c] = "alive"]
  BY <1>5 DEF TreeState
<1>9. TreeKeeper' = [TreeKeeper EXCEPT ![c] = p]
  BY <1>7 DEF TreeKeeper
<1>10. TreeState[p] = "alive" /\ TreeState[c] = "absent"
  BY <1>3 DEF TreeState
<1> QED BY <1>8, <1>9, <1>10, TreeView DEF Abstract!Create, TreeState, TreeKeeper, St

(* To be marked dead is to die, although the process still runs.            *)
LEMMA DieStep ==
    ASSUME TypeOK, CloneOK, NEW p \in Procs, Exit(p) PROVE Abstract!Die(p)
<1>1. /\ p # Idle /\ pc[p] = "user" /\ alloc[p] = "used" /\ dead' = dead \cup {p}
      /\ pc' = [pc EXCEPT ![p] = "exit_family"] /\ arg' = [arg EXCEPT ![p] = parent[p]]
      /\ UNCHANGED <<alloc, children>>
  BY DEF Exit
<1>2. p \notin dead
  BY <1>1 DEF TypeOK, RegistersFit, ExitLabels
<1>3. St(p) = "alive"
  BY <1>1, <1>2, Shown
<1>4. \A q \in Procs : InClone(q)' <=> InClone(q)
  BY <1>1 DEF InClone, TypeOK
<1>5. ~InClone(p)
  BY <1>1 DEF CloneOK
<1>6. \A q \in Procs : St(q)' = IF q = p THEN "zombie" ELSE St(q)
  BY <1>1, <1>4, <1>5 DEF St
<1>7. TreeState' = [TreeState EXCEPT ![p] = "zombie"] /\ TreeState[p] = "alive"
  BY <1>3, <1>6 DEF TreeState
<1>8. TreeKeeper' = TreeKeeper
  BY <1>1 DEF TreeKeeper, Keeper
<1> QED BY <1>1, <1>7, <1>8, TreeView DEF Abstract!Die, TreeState, TreeKeeper, St

(* A child that is freed by its parent is removed by its keeper.            *)
LEMMA RemoveStep ==
    ASSUME TypeOK, CloneOK, FamilyTree, FamilyTree', NEW p \in Procs, NEW c \in Procs,
           Removes(p, c)
    PROVE  Abstract!Remove(p, c)
<1>1. /\ alloc[p] = "used" /\ p \notin dead /\ c \in children[p] \cap dead
      /\ alloc' = [alloc EXCEPT ![c] = "freed"]
      /\ children' = [children EXCEPT ![p] = @ \ {c}]
      /\ dead' = dead /\ QuietLabels
  BY DEF Removes
<1>2. pc[p] # "none" /\ pc[c] # "none" /\ alloc[c] = "used"
  BY <1>1 DEF CloneOK, FamilyTree
<1>3. St(p) = "alive" /\ St(c) = "zombie"
  BY <1>1, <1>2, Shown
<1>4. \A q \in Procs : InClone(q)' <=> InClone(q)
  BY <1>1 DEF QuietLabels, InClone
<1>5. \A q \in Procs : St(q)' = IF q = c THEN "absent" ELSE St(q)
  BY <1>1, <1>4 DEF St, TypeOK
<1>6. /\ children'[p] = children[p] \ {c}
      /\ \A q \in Procs \ {p} : children'[q] = children[q]
  BY <1>1 DEF TypeOK
<1>7. \A q \in Procs : Keeper(q)' = IF q = c THEN NoProc ELSE Keeper(q)
  <2>1. \A q \in Procs \ {c} : Keeper(q)' = Keeper(q)
    BY <1>6, SameKeeper
  <2>2. \A q \in Procs : c \notin children'[q]
    BY <1>1, <1>6 DEF FamilyTree
  <2> QED BY <2>1, <2>2, Keepers
<1>8. Keeper(c) = p
  BY <1>1, Keepers
<1>9. TreeState' = [TreeState EXCEPT ![c] = "absent"]
  BY <1>5 DEF TreeState
<1>10. TreeKeeper' = [TreeKeeper EXCEPT ![c] = NoProc]
  BY <1>7 DEF TreeKeeper
<1>11. TreeState[p] = "alive" /\ TreeState[c] = "zombie" /\ TreeKeeper[c] = p
  BY <1>3, <1>8 DEF TreeState, TreeKeeper
<1> QED BY <1>9, <1>10, <1>11, TreeView DEF Abstract!Remove, TreeState, TreeKeeper, St

(* A process in sys_exit is still on the list of the parent it read, so the *)
(* children it hands over come to its own keeper.                           *)
LEMMA BequeathStep ==
    ASSUME TypeOK, CloneOK, FamilyTree, FamilyTree', ParentRead, IdleOK,
           NEW p \in Procs, ExitFamily(p)
    PROVE  Abstract!Bequeath(p)
<1>1. PICK q \in Procs : q = arg[p] /\ q # p
  BY DEF ExitFamily, ParentOk, Locked, ExitLabels
<1>2. /\ pc[p] = "exit_family" /\ pc' = [pc EXCEPT ![p] = "exit_signal"] /\ arg' = arg
      /\ alloc[p] = "used" /\ dead' = dead
      /\ children' = [children EXCEPT ![p] = {}, ![q] = @ \cup (children[p] \ dead)]
      /\ alloc' = [c \in Procs |-> IF c \in children[p] \cap dead THEN "freed" ELSE alloc[c]]
  BY <1>1 DEF ExitFamily, HandOver, Release
<1>3. p \in dead /\ p # Idle /\ ~InClone(p)
  BY <1>2 DEF TypeOK, RegistersFit, ExitLabels, IdleOK, CloneOK
<1>4. p \in children[q]
  BY <1>1, <1>2, OnListOfParent
<1>5. St(p) = "zombie" /\ Keeper(p) = q
  BY <1>2, <1>3, <1>4, Keepers DEF St
<1>6. \A c \in children[p] : alloc[c] = "used" /\ pc[c] # "none" /\ c \in Procs
  BY DEF FamilyTree, CloneOK, TypeOK
<1>7. \A c \in children[p] : St(c) = "zombie" <=> c \in dead
  BY <1>6, Shown
<1>8. \A c \in Procs : InClone(c)' <=> InClone(c)
  BY <1>2 DEF InClone, TypeOK
<1>9. \A c \in Procs : St(c)' = IF c \in children[p] \cap dead THEN "absent" ELSE St(c)
  BY <1>2, <1>8 DEF St
<1>10. /\ children'[p] = {} /\ children'[q] = children[q] \cup (children[p] \ dead)
       /\ \A r \in Procs \ {p, q} : children'[r] = children[r]
  BY <1>1, <1>2 DEF TypeOK
<1>11. ASSUME NEW c \in Procs
       PROVE  Keeper(c)' = IF Keeper(c) # p THEN Keeper(c)
                           ELSE IF St(c) = "zombie" THEN NoProc ELSE Keeper(p)
  <2>1. CASE c \notin children[p]
    <3>1. Keeper(c)' = Keeper(c)
      BY <1>10, <2>1, SameKeeper
    <3> QED BY <2>1, <3>1, Keepers
  <2>2. CASE c \in children[p] \ dead
    BY <1>5, <1>7, <1>10, <2>2, Keepers
  <2>3. CASE c \in children[p] \cap dead
    <3>1. \A r \in Procs : c \notin children'[r]
      BY <1>1, <1>10, <2>3 DEF FamilyTree
    <3> QED BY <1>7, <2>3, <3>1, Keepers
  <2> QED BY <2>1, <2>2, <2>3
<1>12. ASSUME NEW c \in Procs
       PROVE  St(c)' = IF Keeper(c) = p /\ St(c) = "zombie" THEN "absent" ELSE St(c)
  BY <1>7, <1>9, Keepers
<1>13. TreeState[p] = "zombie"
  BY <1>5 DEF TreeState
<1>14. TreeKeeper' = [c \in Procs |->
          IF TreeKeeper[c] # p THEN TreeKeeper[c]
          ELSE IF TreeState[c] = "zombie" THEN NoProc ELSE TreeKeeper[p]]
  BY <1>11 DEF TreeKeeper, TreeState
<1>15. TreeState' = [c \in Procs |->
          IF TreeKeeper[c] = p /\ TreeState[c] = "zombie" THEN "absent" ELSE TreeState[c]]
  BY <1>12 DEF TreeKeeper, TreeState
<1> QED BY <1>13, <1>14, <1>15, TreeView DEF Abstract!Bequeath, TreeState, TreeKeeper, St

(* Every other step is not seen.                                            *)
LEMMA HiddenStep ==
    ASSUME TypeOK, CloneOK, FamilyTree, dead' = dead,
           Quiet \/ \E p, c \in Procs : NewProc(p, c)
    PROVE  UNCHANGED <<TreeState, TreeKeeper>>
<1>1. CASE Quiet
  <2>1. \A q \in Procs : InClone(q)' <=> InClone(q)
    BY <1>1 DEF Quiet, QuietLabels, InClone
  <2> QED BY <1>1, <2>1 DEF Quiet, TreeState, St, TreeKeeper, Keeper
<1>2. ASSUME NEW p \in Procs, NEW c \in Procs, NewProc(p, c)
      PROVE  UNCHANGED <<TreeState, TreeKeeper>>
  <2>1. /\ alloc[c] = "unused" /\ alloc' = [alloc EXCEPT ![c] = "used"]
        /\ pc[p] = "user" /\ pc' = [pc EXCEPT ![p] = "clone"]
        /\ arg' = [arg EXCEPT ![p] = c] /\ children' = children
    BY <1>2 DEF NewProc
  <2>2. \A q \in Procs : InClone(q)' <=> q = c \/ InClone(q)
    BY <2>1 DEF InClone, TypeOK
  <2>3. \A q \in Procs : St(q)' = St(q)
    BY <2>1, <2>2 DEF St, TypeOK
  <2> QED BY <2>1, <2>3 DEF TreeState, TreeKeeper, Keeper
<1> QED BY <1>1, <1>2

(* What a step of the code is to the users of the family.                   *)
LEMMA TreeStep == IInv /\ [Next]_vars => [Abstract!Next]_(Abstract!vars)
<1> SUFFICES ASSUME IInv, [Next]_vars PROVE [Abstract!Next]_(Abstract!vars)
  OBVIOUS
<1>0. TypeOK /\ CloneOK /\ FamilyTree /\ FamilyTree' /\ ParentRead /\ IdleOK
  BY FamilyStep DEF IInv
<1>1. CASE \E p \in Procs : Exit(p)
  BY <1>0, <1>1, DieStep DEF Abstract!Next
<1>2. CASE dead' = dead
  <2>1. ASSUME Quiet \/ \E p, c \in Procs : NewProc(p, c) PROVE UNCHANGED Abstract!vars
    <3>1. UNCHANGED <<TreeState, TreeKeeper>>
      BY <1>0, <1>2, <2>1, HiddenStep
    <3> QED BY <3>1 DEF Abstract!vars, TreeState, TreeKeeper, St
  <2>2. ASSUME NEW p \in Procs, NEW c \in Procs, Removes(p, c) PROVE Abstract!Next
    BY <1>0, <2>2, RemoveStep DEF Abstract!Next
  <2>3. ASSUME NEW p \in Procs, StartChild(p) PROVE Abstract!Next
    BY <1>0, <2>3, CreateStep DEF Abstract!Next
  <2>4. ASSUME NEW p \in Procs, ExitFamily(p) PROVE Abstract!Next
    BY <1>0, <2>4, BequeathStep DEF Abstract!Next
  <2> QED BY <1>0, <2>1, <2>2, <2>3, <2>4, Effects
<1> QED BY <1>1, <1>2, DeadOnlyExits

(* Process 0 and process 1 are the whole family at the start.               *)
LEMMA TreeInit == Init => Abstract!Init
<1> SUFFICES ASSUME Init PROVE Abstract!Init
  OBVIOUS
<1>1. \A p \in Procs : ~InClone(p)
  BY DEF Init, InClone
<1>2. \A p \in Procs : St(p) = IF p \in {Idle, First} THEN "alive" ELSE "absent"
  BY <1>1 DEF Init, St
<1>3. \A c \in Procs : Keeper(c) = IF c = First THEN Idle ELSE NoProc
  <2>1. \A c, p \in Procs : c \in children[p] <=> c = First /\ p = Idle
    BY DEF Init
  <2> QED BY <2>1 DEF Keeper
<1> QED BY <1>2, <1>3 DEF Abstract!Init, St

-----------------------------------------------------------------------------
\* The theorems

(* The initial states satisfy the invariant.                                *)
LEMMA LifeInit == Init => IInv
<1> SUFFICES ASSUME Init PROVE IInv
  OBVIOUS
<1> USE DEF Init
<1>0. 0 \in Pids /\ 1 \in Pids
  OBVIOUS
<1>1. TypeOK
  <2>1. \A p \in Procs : RegistersFit(p)
    BY DEF RegistersFit, ExitLabels, KernelLabels, WaitLabels
  <2>2. pending \in [Procs -> Seq(Pids)] /\ deadList \in Seq(Procs)
    OBVIOUS
  <2>3. pc \in [Procs -> Labels] /\ children \in [Procs -> SUBSET Procs]
    BY DEF Labels
  <2>4. /\ alloc \in [Procs -> {"unused", "used", "freed"}]
        /\ pids \in [Pids -> Procs \cup {NoProc}]
        /\ parent \in [Procs -> Procs \cup {NoProc}]
        /\ credit \in [Procs -> Int]
        /\ arg \in [Procs -> Procs \cup {NoProc, AnyChild}]
        /\ dead \subseteq Procs
    OBVIOUS
  <2>5. wild \in BOOLEAN
    OBVIOUS
  <2> QED BY <2>1, <2>2, <2>3, <2>4, <2>5 DEF TypeOK
<1>2. CloneOK
  BY DEF CloneOK, InClone, ExitLabels
<1>3. FamilyTree
  BY DEF FamilyTree, GivenAway
<1>4. IdleOK
  BY <1>0 DEF IdleOK
<1>5. PidTable
  <2>1. \A i \in Pids : pids[i] = IF i = 0 THEN Idle ELSE IF i = 1 THEN First ELSE NoProc
    OBVIOUS
  <2>2. \A p \in Procs : alloc[p] = "used" <=> p \in {Idle, First}
    OBVIOUS
  <2> QED BY <1>0, <2>1, <2>2 DEF PidTable
<1>6. Acyclic
  BY DEF Acyclic, ExitLabels
<1>7. ParentRead
  BY DEF ParentRead, ExitLabels
<1>8. DeadAnnounced
  BY DEF DeadAnnounced, GivenAway
<1>9. CreditSign /\ WakeOwed
  BY DEF CreditSign, WakeOwed
<1>10. OnHart = {} /\ \A p \in Procs : Zombies(p) = {} /\ InHand(p) = 0
  BY DEF OnHart, Zombies, InHand, KernelLabels, ExitLabels, WaitLabels
<1>11. ZombiesHaveCredit
  <2>1. \A p \in Procs : Cardinality(Zombies(p)) = 0 /\ InHand(p) = 0
    BY <1>10, FS_EmptySet, Zenon
  <2>2. \A p \in Procs : credit[p] = 0
    OBVIOUS
  <2> QED BY <2>1, <2>2 DEF ZombiesHaveCredit
<1>12. HartsBounded
  BY <1>10, FS_EmptySet DEF HartsBounded
<1>13. KeptFromOutside
  <2>1. SUFFICES ASSUME NEW S \in SUBSET Procs, S # {}
                 PROVE  \E c \in S : \A p \in S : c \notin children[p]
    BY DEF KeptFromOutside
  <2>2. \A c, p \in Procs : c \in children[p] => c = First /\ p = Idle
    OBVIOUS
  <2>3. CASE \E c \in S : c # First
    BY <2>2, <2>3
  <2>4. CASE \A c \in S : c = First
    <3>1. PICK c \in S : c = First
      BY <2>1, <2>4
    <3>2. \A p \in S : c \notin children[p]
      BY <2>2, <2>4, <3>1
    <3> QED BY <3>1, <3>2
  <2> QED BY <2>3, <2>4
<1> QED BY <1>1, <1>2, <1>3, <1>4, <1>5, <1>6, <1>7, <1>8, <1>9, <1>11, <1>12, <1>13 DEF IInv

(* IInv is an inductive invariant: FamilyTree needs to know what sys_clone  *)
(* has not linked yet, PidTable that process 0 is never freed,              *)
(* DeadAnnounced that pids are unique and that a process in sys_exit        *)
(* announces itself to the parent whose list it is on, ZombiesHaveCredit    *)
(* that only a sleeper has a negative credit and that only what is gone is  *)
(* freed.                                                                   *)
THEOREM LifeInvariant == Spec => []IInv
<1>1. IInv /\ [Next]_vars => IInv'
  BY TypeStep, CloneStep, FamilyStep, IdleStep, PidStep, AcyclicStep, ParentReadStep,
     DeadStep, CreditStep, ZombieStep, HartsStep, KeptStep DEF IInv
<1> QED BY <1>1, LifeInit, PTL DEF Spec

(* Every variable of the process code keeps its type.                       *)
THEOREM LifeTypeCorrect == Spec => []TypeOK
<1>1. IInv => TypeOK
  BY DEF IInv
<1> QED BY <1>1, LifeInvariant, PTL

(* Fork, exit, wait4 and SIGCHLD keep every control block in use on exactly *)
(* one child list, and no freed one on any.                                 *)
THEOREM FamilyKept == Spec => []FamilyTree
<1>1. IInv => FamilyTree
  BY DEF IInv
<1> QED BY <1>1, LifeInvariant, PTL

(* Every control block in use has exactly one pid, and no pid leads to a    *)
(* freed block.                                                             *)
THEOREM PidsUnique == Spec => []PidTable
<1>1. IInv => PidTable
  BY DEF IInv
<1> QED BY <1>1, LifeInvariant, PTL

(* As long as a parent has a dead child that has announced its exit, the    *)
(* SIGCHLD is pending.                                                      *)
THEOREM ZombiesAnnounced == Spec => []DeadAnnounced
<1>1. IInv => DeadAnnounced
  BY DEF IInv
<1> QED BY <1>1, LifeInvariant, PTL

(* The child lists are the edges of a tree: on each of them, clone, exit    *)
(* and wait4 leave everybody below process 0 and nobody below himself.      *)
THEOREM FamilyIsTree == Spec => [](KeptFromOutside /\ NobodyLost)
<1>1. IInv => KeptFromOutside /\ NobodyLost
  BY NoneLost DEF IInv
<1> QED BY <1>1, LifeInvariant, PTL

(* The child-to-parent lock order of sys_exit cannot deadlock among any     *)
(* number of exiting processes.                                             *)
THEOREM LocksAcyclic == Spec => []NoLockCycle
<1>1. IInv => NoLockCycle
  BY AcyclicLocks DEF IInv
<1> QED BY <1>1, LifeInvariant, PTL

(* For every child that wait4 could report there is a credit, as long as no *)
(* process runs after it has been freed: P does not turn its parent away.   *)
THEOREM ZombiesCredited == Spec => []ZombiesHaveCredit
<1>1. IInv => ZombiesHaveCredit
  BY DEF IInv
<1> QED BY <1>1, LifeInvariant, PTL

(* The kernel is entered only on a free hart, whatever is freed or woken.   *)
THEOREM HartsHold == Spec => []HartsBounded
<1>1. IInv => HartsBounded
  BY DEF IInv
<1> QED BY <1>1, LifeInvariant, PTL

(* On one hart a control block is freed only after its process has left     *)
(* sys_exit: while the parent frees it, nobody else is in the kernel.       *)
THEOREM FreedAfterExit == CpuN = 1 => (Spec => []FreedIsDone)
<1> SUFFICES ASSUME CpuN = 1 PROVE Spec => []FreedIsDone
  OBVIOUS
<1>1. Init => FreedIsDone
  BY DEF Init, FreedIsDone
<1>2. IInv /\ FreedIsDone /\ [Next]_vars => FreedIsDone'
  BY FreedStep
<1> QED BY <1>1, <1>2, LifeInvariant, PTL DEF Spec

(* On one hart nobody runs who has been freed, so the premises above hold:  *)
(* every process is kept by one in use, and every child that wait4 could    *)
(* report has its credit.                                                   *)
THEOREM OneHartFamily ==
    CpuN = 1 => (Spec => [](\A q \in Procs :
        /\ ~RunsFreed(q)
        /\ q # Idle /\ alloc[q] = "used" /\ ~InClone(q) =>
              \E p \in Procs : alloc[p] = "used" /\ q \in children[p]
        /\ credit[q] + InHand(q) >= Cardinality(Zombies(q))))
<1> SUFFICES ASSUME CpuN = 1
             PROVE  Spec => [](\A q \in Procs :
                /\ ~RunsFreed(q)
                /\ q # Idle /\ alloc[q] = "used" /\ ~InClone(q) =>
                      \E p \in Procs : alloc[p] = "used" /\ q \in children[p]
                /\ credit[q] + InHand(q) >= Cardinality(Zombies(q)))
  OBVIOUS
<1>1. IInv /\ FreedIsDone => \A q \in Procs :
         /\ ~RunsFreed(q)
         /\ q # Idle /\ alloc[q] = "used" /\ ~InClone(q) =>
               \E p \in Procs : alloc[p] = "used" /\ q \in children[p]
         /\ credit[q] + InHand(q) >= Cardinality(Zombies(q))
  <2> SUFFICES ASSUME IInv, FreedIsDone
               PROVE  \A q \in Procs :
                 /\ ~RunsFreed(q)
                 /\ q # Idle /\ alloc[q] = "used" /\ ~InClone(q) =>
                       \E p \in Procs : alloc[p] = "used" /\ q \in children[p]
                 /\ credit[q] + InHand(q) >= Cardinality(Zombies(q))
    OBVIOUS
  <2>1. \A q \in Procs : ~RunsFreed(q)
    BY DEF FreedIsDone, RunsFreed, OnHart, KernelLabels, ExitLabels
  <2>2. NobodyLost /\ ZombiesHaveCredit
    BY NoneLost DEF IInv
  <2> QED BY <2>1, <2>2 DEF NobodyLost, ZombiesHaveCredit
<1> QED BY <1>1, LifeInvariant, FreedAfterExit, PTL

(* On one hart the wakeup of wait4 is never lost: this is what WaitReturns  *)
(* rests on, and what two harts break.                                      *)
THEOREM OneHartWakes == CpuN = 1 => (Spec => []NoChildOverslept)
<1> SUFFICES ASSUME CpuN = 1 PROVE Spec => []NoChildOverslept
  OBVIOUS
<1>1. Init => SleepOwed
  BY DEF Init, SleepOwed
<1>2. IInv /\ SleepOwed /\ [Next]_vars => SleepOwed'
  BY SleepStep
<1>3. IInv /\ FreedIsDone /\ SleepOwed => NoChildOverslept
  <2> SUFFICES ASSUME IInv, FreedIsDone, SleepOwed,
                      NEW p \in Procs, pc[p] = "asleep", ~Waker(p)
               PROVE  Zombies(p) = {}
    BY DEF NoChildOverslept
  <2>1. \A q \in Procs : ~RunsFreed(q)
    BY DEF FreedIsDone, RunsFreed, OnHart, KernelLabels, ExitLabels
  <2>2. credit[p] = -1 /\ InHand(p) = 1
    BY DEF SleepOwed, InHand, WaitLabels
  <2>3. credit[p] + InHand(p) >= Cardinality(Zombies(p))
    BY <2>1 DEF IInv, ZombiesHaveCredit
  <2>4. IsFiniteSet(Zombies(p))
    BY FS_Subset DEF Zombies, IInv, TypeOK
  <2>5. Cardinality(Zombies(p)) = 0
    BY <2>2, <2>3, <2>4, FS_CardinalityType
  <2> QED BY <2>4, <2>5, FS_EmptySet
<1> QED BY <1>1, <1>2, <1>3, LifeInvariant, FreedAfterExit, PTL DEF Spec

(* Fork, exit, wait4 and SIGCHLD are to their users what ProcessTree says:  *)
(* a process has one keeper, who alone removes it, and not before it is a   *)
(* zombie; one that leaves hands its living children to its own keeper.     *)
THEOREM LifeIsTree == Spec => ImplementsTree
<1>1. IInv /\ [Next]_vars => [Abstract!Next]_(Abstract!vars)
  BY TreeStep
<1> QED BY <1>1, TreeInit, LifeInvariant, PTL DEF Spec, ImplementsTree, Abstract!Spec
=============================================================================
