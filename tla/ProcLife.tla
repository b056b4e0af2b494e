------------------------------ MODULE ProcLife ------------------------------
(***************************************************************************)
(* The life of a process: sys_clone, sys_exit, sys_wait4, the default      *)
(* action of SIGCHLD at the end of a trap, the pid table and the release   *)
(* of the process control block (os/kernel/{process,procsyscall,signal}.c, *)
(* the signal loop of intr.c).                                             *)
(*                                                                         *)
(* The actors are the processes.  One of them is in the kernel from a trap *)
(* until it returns to user mode or sleeps in P, and it keeps a hart for   *)
(* all that time, so at most CpuN processes are in the kernel.  A step is  *)
(* the code between two acquisitions of p->lock; only sys_exit keeps a     *)
(* lock, its own, across steps.  list_lock, pid_lock and the semaphore's   *)
(* lock protect sections that are one step.                                *)
(*                                                                         *)
(* A control block gets a new name when it is allocated again: what tells  *)
(* a dangling pointer from a good one is alloc.  The first use of a        *)
(* dangling pointer, a write outside an array and a data race on dead_list *)
(* have no defined outcome: wild becomes TRUE and the model stops.         *)
(***************************************************************************)
EXTENDS Integers, Sequences, SequencesExt, FiniteSets

CONSTANTS
    CpuN,       \* CPU_N, the number of harts
    Procs,      \* the control blocks that are ever allocated
    Idle,       \* process 0 (init_pid0)
    First,      \* process 1 (init_process)
    PidN,       \* PROC_N, the size of pids[]
    NoProc, AnyChild

ASSUME CpuAssumption == CpuN \in Nat \ {0}
ASSUME PidAssumption == PidN \in Nat /\ PidN >= 2
ASSUME ProcsAssumption ==
    /\ IsFiniteSet(Procs)
    /\ Idle \in Procs /\ First \in Procs /\ Idle # First
    /\ NoProc \notin Procs /\ AnyChild \notin Procs /\ NoProc # AnyChild

VARIABLES
    alloc,      \* alloc[p]: "unused", "used" or "freed" (kmalloc, kfree)
    dead,       \* processes with status PROC_DEAD
    pids,       \* pids[i]
    parent,     \* p->parent
    children,   \* the processes on p->child_list_head
    credit,     \* p->sleep_lock.value
    pending,    \* p->signal_list_head: the sender pids of pending SIGCHLDs
    deadList,   \* dead_list
    pc,         \* what p does next
    arg,        \* the child in sys_clone and sys_wait4, the variable parent of
                \* sys_exit
    wild        \* memory has been corrupted

vars == <<alloc, dead, pids, parent, children, credit, pending, deadList, pc,
          arg, wild>>

Pids == 0 .. PidN - 1
Pid(p) == CHOOSE i \in Pids : pids[i] = p

Init ==
    /\ alloc = [p \in Procs |-> IF p \in {Idle, First} THEN "used" ELSE "unused"]
    /\ dead = {}
    /\ pids = [i \in Pids |-> IF i = 0 THEN Idle ELSE IF i = 1 THEN First ELSE NoProc]
    /\ parent = [p \in Procs |-> IF p = First THEN Idle ELSE NoProc]
    /\ children = [p \in Procs |-> IF p = Idle THEN {First} ELSE {}]
    /\ credit = [p \in Procs |-> 0]
    /\ pending = [p \in Procs |-> <<>>]
    /\ deadList = <<>>
    /\ pc = [p \in Procs |-> IF p \in {Idle, First} THEN "user" ELSE "none"]
    /\ arg = [p \in Procs |-> NoProc]
    /\ wild = FALSE

ExitLabels == {"exit_family", "exit_signal", "exit_post", "exit_wake", "exit_move",
               "stuck"}
KernelLabels == ExitLabels \cup
    {"clone", "hung", "poll", "wait", "wait_sleep", "wait_scan", "trap_end"}
OnHart == {p \in Procs : pc[p] \in KernelLabels}

\* sys_exit takes p->lock first; _move_switch gives it back at the very end.
Locked(p) == pc[p] \in ExitLabels
HartFree == Cardinality(OnHart) < CpuN

\* The code of p runs on with its control block intact.
At(p, label) == ~wild /\ pc[p] = label /\ alloc[p] = "used"
Goto(p, label) == pc' = [pc EXCEPT ![p] = label]

-----------------------------------------------------------------------------
\* Traps, and signals at their end

(* A timer interrupt, or a system call that changes nothing here: wait4      *)
(* without children, or with WNOHANG and nothing to report.                 *)
Trap(p) ==
    /\ At(p, "user") /\ HartFree
    /\ Goto(p, "trap_end")
    /\ UNCHANGED <<alloc, dead, pids, parent, children, credit, pending,
                   deadList, arg, wild>>

(* del_list of both nodes and free_process_struct.  The child need not be   *)
(* on dead_list yet.  A freed neighbour there: see BadDeadList.  The        *)
(* variant of FreePids forgets free_pid.                                    *)
Neighbours(c, d) ==
    \E i \in 1 .. Len(deadList) - 1 : {c, d} = {deadList[i], deadList[i + 1]}
DanglingNeighbour(c) ==
    \E d \in Range(deadList) : Neighbours(c, d) /\ alloc[d] = "freed"
Unlink(c) ==
    /\ ~DanglingNeighbour(c)
    /\ \/ \E i \in DOMAIN deadList :
            deadList[i] = c /\ deadList' = RemoveAt(deadList, i)
       \/ c \notin Range(deadList) /\ UNCHANGED deadList
KeepPids(cs) == UNCHANGED pids
FreePids(cs) ==
    pids' = [i \in Pids |-> IF i # 0 /\ pids[i] \in cs THEN NoProc ELSE pids[i]]
Release(cs) ==
    /\ alloc' = [q \in Procs |-> IF q \in cs THEN "freed" ELSE alloc[q]]
    /\ FreePids(cs)
Reap(p, c) ==
    /\ children' = [children EXCEPT ![p] = @ \ {c}]
    /\ Unlink(c)
    /\ Release({c})

(* Children that the code of p at its present place would take and free;    *)
(* the variant of the second does not look at the status.                   *)
SignalledChild(p) ==
    {c \in children[p] \cap dead : pending[p] # <<>> /\ pids[Head(pending[p])] = c}
WantedAlive(p) == {c \in children[p] : arg[p] \in {c, AnyChild}}
WantedChild(p) ==
    {c \in children[p] \cap dead : arg[p] \in {c, AnyChild}}

(* dfl_sigchld for the first pending signal: the child that sent it is      *)
(* freed if it is dead and still there.  The trap goes on to the signal     *)
(* that was next when this one was taken from the list; after the last one  *)
(* it ends, and a signal that comes meanwhile waits for the next trap.      *)
HandleSignal(p) ==
    /\ At(p, "trap_end")
    /\ pending[p] # <<>>
    /\ pending' = [pending EXCEPT ![p] = Tail(@)]
    /\ \/ \E c \in SignalledChild(p) : Reap(p, c)
       \/ SignalledChild(p) = {} /\ UNCHANGED <<alloc, pids, children, deadList>>
    /\ Goto(p, IF Len(pending[p]) = 1 THEN "user" ELSE "trap_end")
    /\ UNCHANGED <<dead, parent, credit, arg, wild>>

ReturnToUser(p) ==
    /\ At(p, "trap_end")
    /\ pending[p] = <<>>
    /\ Goto(p, "user")
    /\ UNCHANGED <<alloc, dead, pids, parent, children, credit, pending,
                   deadList, arg, wild>>

-----------------------------------------------------------------------------
\* sys_clone

(* new_proc: get_pid takes the lowest free entry.  With none left it        *)
(* returns -1 and new_proc writes pids[-1].                                 *)
FreePid == {i \in Pids : pids[i] = NoProc}
NewProc(p, c) ==
    /\ At(p, "user") /\ HartFree
    /\ p # Idle
    /\ alloc[c] = "unused"
    /\ alloc' = [alloc EXCEPT ![c] = "used"]
    /\ \E i \in FreePid :
          /\ \A j \in FreePid : i <= j
          /\ pids' = [pids EXCEPT ![i] = c]
    /\ parent' = [parent EXCEPT ![c] = p]
    /\ arg' = [arg EXCEPT ![p] = c]
    /\ Goto(p, "clone")
    /\ UNCHANGED <<dead, children, credit, pending, deadList, wild>>

PidsExhausted(p) ==
    /\ At(p, "user") /\ HartFree
    /\ p # Idle
    /\ FreePid = {}
    /\ \E c \in Procs : alloc[c] = "unused"

(* The working directory cannot be opened again: sys_clone loops forever.   *)
CloneHangs(p) ==
    /\ At(p, "clone")
    /\ Goto(p, "hung")
    /\ UNCHANGED <<alloc, dead, pids, parent, children, credit, pending,
                   deadList, arg, wild>>

(* The child is linked under the parent's lock and starts in user mode.     *)
StartChild(p) ==
    /\ At(p, "clone")
    /\ children' = [children EXCEPT ![p] = @ \cup {arg[p]}]
    /\ pc' = [pc EXCEPT ![p] = "trap_end", ![arg[p]] = "user"]
    /\ arg' = [arg EXCEPT ![p] = NoProc]
    /\ UNCHANGED <<alloc, dead, pids, parent, credit, pending, deadList, wild>>

-----------------------------------------------------------------------------
\* sys_wait4

Wait4(p, c, label) ==
    /\ At(p, "user") /\ HartFree
    /\ p # Idle
    /\ children[p] # {}
    /\ c \in children[p] \cup {AnyChild}
    /\ arg' = [arg EXCEPT ![p] = c]
    /\ Goto(p, label)
    /\ UNCHANGED <<alloc, dead, pids, parent, children, credit, pending,
                   deadList, wild>>

ReportChild(p) ==
    /\ \E c \in WantedChild(p) : Reap(p, c)
    /\ Goto(p, "trap_end")
    /\ arg' = [arg EXCEPT ![p] = NoProc]

(* WNOHANG: one scan.  A scan without a result is a Trap.                    *)
PollReport(p) ==
    /\ At(p, "poll")
    /\ ReportChild(p)
    /\ UNCHANGED <<dead, parent, credit, pending, wild>>

PollNothing(p) ==
    /\ At(p, "poll")
    /\ WantedChild(p) = {}
    /\ Goto(p, "trap_end")
    /\ arg' = [arg EXCEPT ![p] = NoProc]
    /\ UNCHANGED <<alloc, dead, pids, parent, children, credit, pending,
                   deadList, wild>>

(* P(&proc->sleep_lock): the value is decremented, then sleep() enters      *)
(* sleep_list; in between the semaphore is not locked.                      *)
WaitP(p) ==
    /\ At(p, "wait")
    /\ credit' = [credit EXCEPT ![p] = @ - 1]
    /\ Goto(p, IF credit[p] > 0 THEN "wait_scan" ELSE "wait_sleep")
    /\ UNCHANGED <<alloc, dead, pids, parent, children, pending, deadList, arg,
                   wild>>

WaitSleep(p) ==
    /\ At(p, "wait_sleep")
    /\ Goto(p, "asleep")
    /\ UNCHANGED <<alloc, dead, pids, parent, children, credit, pending,
                   deadList, arg, wild>>

(* A woken process is dispatched and returns from P.                        *)
Resume(p) ==
    /\ At(p, "woken") /\ HartFree
    /\ Goto(p, "wait_scan")
    /\ UNCHANGED <<alloc, dead, pids, parent, children, credit, pending,
                   deadList, arg, wild>>

WaitReport(p) ==
    /\ At(p, "wait_scan")
    /\ ReportChild(p)
    /\ UNCHANGED <<dead, parent, credit, pending, wild>>

(* The child in question is alive: wait4(-1) calls P again, wait4(pid)      *)
(* gives the credit back first, which the variant forgets.                  *)
ForgetCredit(p) == UNCHANGED credit
GiveBack(p) == credit' = [credit EXCEPT ![p] = @ + 1]
WaitAgain(p) ==
    /\ At(p, "wait_scan")
    /\ WantedChild(p) = {}
    /\ IF arg[p] = AnyChild THEN UNCHANGED credit ELSE GiveBack(p)
    /\ Goto(p, "wait")
    /\ UNCHANGED <<alloc, dead, pids, parent, children, pending, deadList, arg,
                   wild>>

-----------------------------------------------------------------------------
\* sys_exit (and kill_current)

(* The process is marked dead while it still runs.                          *)
Exit(p) ==
    /\ At(p, "user") /\ HartFree
    /\ p # Idle
    /\ dead' = dead \cup {p}
    /\ arg' = [arg EXCEPT ![p] = parent[p]]
    /\ Goto(p, "exit_family")
    /\ UNCHANGED <<alloc, pids, parent, children, credit, pending, deadList, wild>>

(* Only the first process has a parent for good: the children of any other  *)
(* process that exits have parent NULL, and when they exit lock(NULL->lock) *)
(* faults.  The page fault handler sends the process a signal and spins on  *)
(* the lock the process itself holds.                                       *)
OrphanExit(p) ==
    /\ At(p, "exit_family")
    /\ arg[p] = NoProc
    /\ Goto(p, "stuck")
    /\ UNCHANGED <<alloc, dead, pids, parent, children, credit, pending,
                   deadList, arg, wild>>

(* A list head that has been given away: its exit is past this point.        *)
GivenAway(q) ==
    pc[q] \in {"exit_signal", "exit_post", "exit_wake", "exit_move", "gone"}
ParentOk(p) == arg[p] \in Procs /\ alloc[arg[p]] = "used"

(* Every child loses its parent; the variant takes the first of them for    *)
(* the new parent.  The live ones go to the list of the parent; the         *)
(* variants hand over the freed ones too, or none.                          *)
AdoptBySibling(cs) ==
    parent' = [c \in Procs |-> IF c \in cs THEN CHOOSE k \in cs : TRUE ELSE parent[c]]
Orphan(cs) == parent' = [c \in Procs |-> IF c \in cs THEN NoProc ELSE parent[c]]
HandOverAll(p, q) ==
    children' = [children EXCEPT ![p] = {}, ![q] = @ \cup children[p]]
HandOverNone(p, q) == children' = [children EXCEPT ![p] = {}]
HandOver(p, q) ==
    children' = [children EXCEPT ![p] = {}, ![q] = @ \cup (children[p] \ dead)]

(* All of it under the lock of the parent; a dead child is freed, but not   *)
(* unlinked from dead_list.  Then memory, files and pending signals are     *)
(* released.                                                                *)
ExitFamily(p) ==
    LET q == arg[p]
        kids == children[p]
    IN  /\ At(p, "exit_family")
        /\ ParentOk(p)
        /\ ~Locked(q)
        /\ GivenAway(q) => kids \subseteq dead
        /\ Orphan(kids)
        /\ HandOver(p, q)
        /\ Release(kids \cap dead)
        /\ pending' = [pending EXCEPT ![p] = <<>>]
        /\ Goto(p, "exit_signal")
        /\ UNCHANGED <<dead, credit, deadList, arg, wild>>

(* send_signal(parent, SIGCHLD); the variant keeps one pending signal.      *)
AnnounceOnce(p, q) ==
    pending' = [pending EXCEPT ![q] = IF @ = <<>> THEN <<Pid(p)>> ELSE @]
Announce(p, q) == pending' = [pending EXCEPT ![q] = Append(@, Pid(p))]
ExitSignal(p) ==
    /\ At(p, "exit_signal")
    /\ ParentOk(p)
    /\ ~Locked(arg[p])
    /\ Announce(p, arg[p])
    /\ Goto(p, "exit_post")
    /\ UNCHANGED <<alloc, dead, pids, parent, children, credit, deadList, arg, wild>>

(* V(&parent->sleep_lock): only the parent ever sleeps on it.  The variant   *)
(* of the test value <= 0 after the increment tests value < 0.              *)
MustWakeLate(q) == credit[q] < -1
MustWake(q) == credit[q] < 0
ExitPost(p) ==
    /\ At(p, "exit_post")
    /\ ParentOk(p)
    /\ credit' = [credit EXCEPT ![arg[p]] = @ + 1]
    /\ Goto(p, IF MustWake(arg[p]) THEN "exit_wake" ELSE "exit_move")
    /\ UNCHANGED <<alloc, dead, pids, parent, children, pending, deadList, arg,
                   wild>>

ExitWake(p) ==
    /\ At(p, "exit_wake")
    /\ pc' = [q \in Procs |-> IF q = p THEN "exit_move"
                              ELSE IF q = arg[p] /\ pc[q] = "asleep" THEN "woken"
                              ELSE pc[q]]
    /\ UNCHANGED <<alloc, dead, pids, parent, children, credit, pending,
                   deadList, arg, wild>>

DanglingTail == deadList # <<>> /\ alloc[Last(deadList)] = "freed"

(* move_switch2sched(proc, &dead_list)                                      *)
ExitMove(p) ==
    /\ At(p, "exit_move")
    /\ ~DanglingTail
    /\ deadList' = Append(deadList, p)
    /\ Goto(p, "gone")
    /\ arg' = [arg EXCEPT ![p] = NoProc]
    /\ UNCHANGED <<alloc, dead, pids, parent, children, credit, pending, wild>>

-----------------------------------------------------------------------------
\* Undefined behaviour

(* A process runs on although its control block has been freed.             *)
RunsFreed(p) == p \in OnHart /\ alloc[p] = "freed"

(* The parent pointer of sys_exit is NULL or dangles, or the list it would  *)
(* add a child to has been given away.                                      *)
BadParent(p) ==
    \/ /\ At(p, "exit_family") \/ At(p, "exit_signal") \/ At(p, "exit_post")
       /\ ~ParentOk(p)
    \/ /\ At(p, "exit_family")
       /\ ParentOk(p)
       /\ GivenAway(arg[p])
       /\ ~(children[p] \subseteq dead)

(* Children p would unlink from dead_list in its next step.                 *)
Unlinking(p) ==
    {c \in Range(deadList) :
        \/ At(p, "trap_end") /\ c \in SignalledChild(p)
        \/ (At(p, "poll") \/ At(p, "wait_scan")) /\ c \in WantedChild(p)}

(* The neighbour on dead_list that an insertion or removal writes to has    *)
(* been freed; or wait4 and dfl_sigchld, which do not take list_lock,       *)
(* change dead_list at the place another hart changes.                      *)
BadDeadList(p) ==
    \/ At(p, "exit_move") /\ DanglingTail
    \/ \E c \in Unlinking(p) :
        \/ DanglingNeighbour(c)
        \/ \E q \in Procs \ {p} :
            \/ At(q, "exit_move") /\ c = Last(deadList)
            \/ \E d \in Unlinking(q) : Neighbours(c, d)

Corrupt(p) ==
    /\ ~wild
    /\ RunsFreed(p) \/ BadParent(p) \/ BadDeadList(p) \/ PidsExhausted(p)
    /\ wild' = TRUE
    /\ UNCHANGED <<alloc, dead, pids, parent, children, credit, pending,
                   deadList, pc, arg>>

-----------------------------------------------------------------------------

Kernel(p) ==
    \/ HandleSignal(p) \/ ReturnToUser(p)
    \/ StartChild(p) \/ CloneHangs(p)
    \/ PollReport(p) \/ PollNothing(p)
    \/ WaitP(p) \/ WaitSleep(p) \/ WaitReport(p) \/ WaitAgain(p)
    \/ OrphanExit(p) \/ ExitFamily(p) \/ ExitSignal(p) \/ ExitPost(p)
    \/ ExitWake(p) \/ ExitMove(p)

Program(p) ==
    \/ \E c \in Procs : NewProc(p, c)
    \/ \E c \in children[p] \cup {AnyChild}, how \in {"poll", "wait"} : Wait4(p, c, how)
    \/ Exit(p)

Next == \E p \in Procs :
    Kernel(p) \/ Program(p) \/ Trap(p) \/ Resume(p) \/ Corrupt(p)

Spec == Init /\ [][Next]_vars

(* Kernel code runs to its next wait; a woken process is on ready_list and  *)
(* is dispatched in the end (ReadyRuns of Sched).                           *)
Fairness == \A p \in Procs : WF_vars(Kernel(p) \/ Corrupt(p)) /\ SF_vars(Resume(p))
FairSpec == Spec /\ Fairness

-----------------------------------------------------------------------------

Labels == KernelLabels \cup {"none", "user", "asleep", "woken", "gone"}
WaitLabels == {"wait", "wait_sleep", "asleep", "woken", "wait_scan"}

(* arg is the child in clone and wait4 and the parent in exit.              *)
RegistersFit(p) ==
    /\ p \in dead <=> pc[p] \in ExitLabels \cup {"gone"}
    /\ pc[p] \in {"clone", "hung"} => arg[p] \in Procs
    /\ pc[p] \in WaitLabels \cup {"poll"} => arg[p] \in children[p] \cup {AnyChild}
    /\ pc[p] \in ExitLabels => arg[p] # AnyChild
    /\ pc[p] \in ExitLabels \ {"exit_family", "stuck"} => arg[p] \in Procs
    /\ pc[p] \in {"none", "user", "trap_end", "gone"} => arg[p] = NoProc
    /\ alloc[p] = "freed" => p \in dead

(* Every variable has its type, and registers and labels fit together.      *)
TypeOK ==
    /\ alloc \in [Procs -> {"unused", "used", "freed"}]
    /\ dead \subseteq Procs
    /\ pids \in [Pids -> Procs \cup {NoProc}]
    /\ parent \in [Procs -> Procs \cup {NoProc}]
    /\ children \in [Procs -> SUBSET Procs]
    /\ credit \in [Procs -> Int]
    /\ pending \in [Procs -> Seq(Pids)]
    /\ deadList \in Seq(Procs)
    /\ pc \in [Procs -> Labels]
    /\ arg \in [Procs -> Procs \cup {NoProc, AnyChild}]
    /\ wild \in BOOLEAN
    /\ \A p \in Procs : RegistersFit(p)

InClone(c) == \E p \in Procs : pc[p] \in {"clone", "hung"} /\ arg[p] = c

(* Every control block that is in use, but process 0, is on the child list  *)
(* of exactly one process, which can therefore free it in the end; its      *)
(* parent pointer is that process or NULL; and no child list holds a block  *)
(* that has been freed.  sys_clone, sys_wait4, dfl_sigchld and the exits of *)
(* parent and grandparent all change these lists.                           *)
FamilyTree ==
    /\ \A p, q \in Procs : p # q => children[p] \cap children[q] = {}
    /\ \A p \in Procs : \A c \in children[p] :
          alloc[c] = "used" /\ parent[c] \in {p, NoProc}
    /\ \A c \in Procs \ {Idle} :
          alloc[c] = "used" => InClone(c) \/ \E p \in Procs : c \in children[p]
    /\ \A p \in Procs : GivenAway(p) => children[p] = {}

(* A pid belongs to one control block that is in use, and every such block  *)
(* has one, although pids are used again as soon as a child is freed.       *)
PidTable ==
    /\ \A i \in Pids : pids[i] # NoProc => alloc[pids[i]] = "used"
    /\ \A p \in Procs : alloc[p] = "used" =>
          \E i \in Pids : pids[i] = p /\ \A j \in Pids : pids[j] = p => i = j

(* A dead child is never forgotten: as long as its parent has not freed it, *)
(* its SIGCHLD is pending, also when an earlier owner of its pid has sent   *)
(* one that was handled when it was too late or too early.                  *)
DeadAnnounced ==
    \A p \in Procs : \A c \in children[p] :
        GivenAway(c) /\ pc[c] # "exit_signal" /\ parent[c] = p =>
            Pid(c) \in Range(pending[p])

(* P finds a credit for every child that is dead and can be reported, so    *)
(* wait4 does not turn away from one: credits are used up by scans that     *)
(* find nothing, but children freed by dfl_sigchld or WNOHANG leave theirs. *)
Zombies(p) ==
    {c \in children[p] \cap dead :
        parent[c] = p /\ pc[c] \in {"exit_wake", "exit_move", "gone"}}
InHand(p) == IF pc[p] \in WaitLabels \ {"wait"} THEN 1 ELSE 0
ZombiesHaveCredit ==
    (\A q \in Procs : ~RunsFreed(q)) =>
        \A p \in Procs : credit[p] + InHand(p) >= Cardinality(Zombies(p))

(* sys_exit holds the lock of the process while it takes the lock of the    *)
(* parent it read before: no set of exiting processes waits for itself.     *)
Spinning(p) == pc[p] \in {"exit_family", "exit_signal"} /\ arg[p] \in Procs /\ Locked(arg[p])
NoLockCycle ==
    \A S \in SUBSET {p \in Procs : Spinning(p)} :
        S # {} => \E p \in S : arg[p] \notin S

(* A control block is freed only after its process has left sys_exit for    *)
(* good.  True on one hart; false on two: the process is marked dead at the *)
(* beginning of sys_exit.                                                   *)
FreedIsDone == \A p \in Procs : alloc[p] = "freed" => pc[p] = "gone"

(* wait4(-1) on one hart returns once a child has exited, and system calls  *)
(* end, as long as nobody calls wait4 for a given pid.                      *)
NothingBroken == [](~wild /\ \A p \in Procs : pc[p] \notin {"stuck", "hung"})
NoWaitForPid == [](\A p \in Procs : pc[p] \in WaitLabels => arg[p] = AnyChild)
WaitReturns ==
    NothingBroken /\ NoWaitForPid =>
        \A p \in Procs :
            pc[p] \in WaitLabels /\ (\E c \in children[p] : pc[c] = "gone")
                ~> pc[p] \notin WaitLabels

(* The family of processes as its users see it.                             *)
Keeper(c) == IF \E p \in Procs : c \in children[p]
             THEN CHOOSE p \in Procs : c \in children[p] ELSE NoProc
Abstract == INSTANCE ProcessTree WITH
    Root <- Idle,
    state <- [p \in Procs |->
        IF alloc[p] # "used" \/ InClone(p) THEN "absent"
        ELSE IF p \in dead THEN "zombie" ELSE "alive"],
    keeper <- [p \in Procs |-> Keeper(p)]
ImplementsTree == Abstract!Spec
=============================================================================
