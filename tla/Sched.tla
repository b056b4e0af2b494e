------------------------------- MODULE Sched -------------------------------
(***************************************************************************)
(* The scheduler of the kernel: the harts that run scheduler(), the        *)
(* ready/wait/sleep lists under list_lock, the hand-over of a process to a *)
(* list by move_switch2sched/_move_switch, the counting semaphores P and V *)
(* built on sleep and wakeup, and set_next_time, which every trap from     *)
(* user mode runs before it returns (os/kernel/{sched,sem,timer}.c,        *)
(* switch.S, sys_sched_yield, sys_nanosleep, the last lines of sys_clone   *)
(* and of sys_execve, and the loops that keep a hart for ever).            *)
(*                                                                         *)
(* The other code that takes p->lock (exit, wait4, signals) is in ProcLife *)
(* and sys_kill, which moves a sleeper without a V, in Pipe.               *)
(*                                                                         *)
(* One step of a hart is the code between two acquisitions of a lock that  *)
(* is held across steps.  A critical section that acquires nothing else    *)
(* while it holds its lock is one step: so s->lck of a semaphore is no     *)
(* variable, and lock(&list_lock) ... unlock(&list_lock) around one list   *)
(* insertion is the guard listLock = NoHart.  The kernel is entered from   *)
(* user mode only and traps do not nest, so a hart runs its kernel code to *)
(* the end or to the next switch.                                          *)
(***************************************************************************)
EXTENDS Integers, Sequences, SequencesExt, FiniteSets

CONSTANTS
    Harts,      \* the CPU_N harts
    Procs,      \* the process control blocks
    Idle,       \* process 0 (init_pid0)
    First,      \* process 1 (init_process)
    Sems,       \* the semaphores
    MaxValue,   \* bound of the model: no V raises a value above it
    NoHart, NoProc, NoSem

ASSUME HartsAssumption == NoHart \notin Harts
ASSUME ProcsAssumption ==
    Idle \in Procs /\ First \in Procs /\ Idle # First /\ NoProc \notin Procs
ASSUME FiniteAssumption == IsFiniteSet(Harts) /\ IsFiniteSet(Procs)
ASSUME SemsAssumption == NoSem \notin Sems
ASSUME BoundAssumption == MaxValue \in Nat

VARIABLES
    listLock,   \* the hart that holds list_lock, or NoHart
    procLock,   \* procLock[p]: the hart that holds p->lock, or NoHart
    ready, wait, sleeping,  \* ready_list, wait_list, sleep_list
    status,     \* p->status
    data,       \* p->data: the semaphore p sleeps on
    resume,     \* p->pcontext.ra: where p goes on when it is dispatched
    due,        \* processes whose deadline (t_slice on a hart, t_wait on
                \* wait_list) has passed
    value,      \* s->value
    cur,        \* getcpu()->cur_proc
    pc,         \* what the hart does next
    picked,     \* the process scheduler() took from ready_list
    sem,        \* the semaphore of the sleep or wakeup in progress
    cursor,     \* position of a scan of sleep_list or wait_list
    stale       \* harts that still stand on the kernel stack of a process
                \* another hart has dispatched meanwhile

listVars == <<ready, wait, sleeping>>
procVars == <<status, data, resume, due>>
hartVars == <<cur, pc, picked, sem, cursor, stale>>
vars == <<listLock, procLock, ready, wait, sleeping, status, data, resume,
          due, value, cur, pc, picked, sem, cursor, stale>>

Init ==
    /\ listLock = NoHart
    /\ procLock = [p \in Procs |-> NoHart]
    /\ ready = <<Idle, First>>
    /\ wait = <<>>
    /\ sleeping = <<>>
    /\ status = [p \in Procs |-> IF p \in {Idle, First} THEN "READY" ELSE "NONE"]
    /\ data = [p \in Procs |-> NoSem]
    /\ resume = [p \in Procs |-> "user"]
    /\ due = {}
    /\ value = [s \in Sems |-> 0]
    /\ cur = [h \in Harts |-> NoProc]
    /\ pc = [h \in Harts |-> "sched"]
    /\ picked = [h \in Harts |-> NoProc]
    /\ sem = [h \in Harts |-> NoSem]
    /\ cursor = [h \in Harts |-> 1]
    /\ stale = {}

Goto(h, label) == pc' = [pc EXCEPT ![h] = label]

(* list.h: add_after(&list, node) links at the head, add_before at the      *)
(* tail, del_list unlinks.  The variant forgets to unlink.                  *)
AddAfter(l, p) == Cons(p, l)
AddBefore(l, p) == Append(l, p)
StillLinked(l, i) == l
DelList(l, i) == RemoveAt(l, i)

(* A scan has come back to the list head; the variant stops one node early. *)
NearEnd(h, l) == cursor[h] >= Len(l)
AtEnd(h, l) == cursor[h] > Len(l)

-----------------------------------------------------------------------------
\* scheduler()

(* Lines 32-46 up to lock(&p->lock): the head of ready_list, or the one     *)
(* after it when the head is process 0.  Only that second choice gets a     *)
(* slice that lies in the future; t_slice = get_time() has passed by the    *)
(* time set_next_time compares it.  With an empty list the hart releases    *)
(* list_lock, waits for an interrupt and tries again: no state changes.     *)
Pick(h) ==
    LET skip == Head(ready) = Idle /\ Len(ready) > 1
        i == IF skip THEN 2 ELSE 1
    IN  /\ pc[h] = "sched"
        /\ listLock = NoHart
        /\ ready # <<>>
        /\ listLock' = h
        /\ picked' = [picked EXCEPT ![h] = ready[i]]
        /\ ready' = DelList(ready, i)
        /\ due' = IF skip THEN due \ {ready[i]} ELSE due \cup {ready[i]}
        /\ Goto(h, "dispatch")
        /\ UNCHANGED <<procLock, wait, sleeping, status, data, resume, value,
                       cur, sem, cursor, stale>>

(* Lines 46-68.  A hart that is still between the two instructions of       *)
(* _move_switch that follow unlock(list_lock) now shares the kernel stack.  *)
Dispatch(h) ==
    LET p == picked[h] IN
    /\ pc[h] = "dispatch"
    /\ procLock[p] = NoHart
    /\ status' = [status EXCEPT ![p] = "RUN"]
    /\ cur' = [cur EXCEPT ![h] = p]
    /\ picked' = [picked EXCEPT ![h] = NoProc]
    /\ listLock' = NoHart
    /\ stale' = stale \cup {g \in Harts : pc[g] = "switch" /\ cur[g] = p}
    /\ Goto(h, resume[p])
    /\ UNCHANGED <<procLock, ready, wait, sleeping, data, resume, due, value,
                   sem, cursor>>

-----------------------------------------------------------------------------
\* move_switch2sched(proc, list): called with proc->lock held

(* The first half of every call: the caller takes its own lock and sets     *)
(* its status, which names the list it is to be appended to.                *)
GiveUp(h, st, where) ==
    /\ procLock[cur[h]] = NoHart
    /\ procLock' = [procLock EXCEPT ![cur[h]] = h]
    /\ status' = [status EXCEPT ![cur[h]] = st]
    /\ resume' = [resume EXCEPT ![cur[h]] = where]
    /\ Goto(h, "move")

(* switch.S 64-75: lock list_lock, append, unlock proc->lock, unlock        *)
(* list_lock.                                                               *)
MoveToList(h) ==
    LET p == cur[h] IN
    /\ pc[h] = "move"
    /\ listLock = NoHart
    /\ ready' = IF status[p] = "READY" THEN AddBefore(ready, p) ELSE ready
    /\ wait' = IF status[p] = "WAIT" THEN AddBefore(wait, p) ELSE wait
    /\ sleeping' = IF status[p] = "SLEEP" THEN AddBefore(sleeping, p) ELSE sleeping
    /\ procLock' = [procLock EXCEPT ![p] = NoHart]
    /\ Goto(h, "switch")
    /\ UNCHANGED <<listLock, procVars, value, cur, picked, sem, cursor, stale>>

(* cpu->cur_proc = 0, which the variant forgets.                            *)
KeepProcess(h) == UNCHANGED cur /\ stale' = stale \ {h}
LeaveProcess(h) == cur' = [cur EXCEPT ![h] = NoProc] /\ stale' = stale \ {h}

(* switch.S 78-95: the address of the scheduler context comes from the      *)
(* stack of the process, then scheduler() goes on and clears cur_proc.      *)
SwitchOut(h) ==
    /\ pc[h] = "switch"
    /\ LeaveProcess(h)
    /\ Goto(h, "sched")
    /\ UNCHANGED <<listLock, procLock, listVars, procVars, value, picked, sem,
                   cursor>>

(* The same load after another hart has run on that stack: what it reads    *)
(* may be anything, and the hart jumps to it.                               *)
SwitchWild(h) ==
    /\ pc[h] = "switch"
    /\ h \in stale
    /\ LeaveProcess(h)
    /\ Goto(h, "wild")
    /\ UNCHANGED <<listLock, procLock, listVars, procVars, value, picked, sem,
                   cursor>>

-----------------------------------------------------------------------------
\* Semaphores.  The code of a system call is a sequence of P and V calls
\* ("kernel"); an interrupt taken in user mode may call V (console_intr).

InSyscall(h) == pc[h] \in {"user", "kernel"} /\ cur[h] # Idle

(* P tests value < 0 after the decrement; the variant tests it before.      *)
AvailableEarly(s) == value[s] >= 0
Available(s) == value[s] > 0

(* P decrements and goes on: the value was positive.                        *)
PPass(h, s) ==
    /\ InSyscall(h)
    /\ Available(s)
    /\ value' = [value EXCEPT ![s] = @ - 1]
    /\ Goto(h, "kernel")
    /\ UNCHANGED <<listLock, procLock, listVars, procVars, cur, picked, sem,
                   cursor, stale>>

(* P releases s->lck before it calls sleep.                                 *)
PBlock(h, s) ==
    /\ InSyscall(h)
    /\ ~Available(s)
    /\ value' = [value EXCEPT ![s] = @ - 1]
    /\ sem' = [sem EXCEPT ![h] = s]
    /\ Goto(h, "sleep")
    /\ UNCHANGED <<listLock, procLock, listVars, procVars, cur, picked, cursor,
                   stale>>

(* sleep(s) up to move_switch2sched.                                        *)
SleepOn(h) ==
    /\ pc[h] = "sleep"
    /\ GiveUp(h, "SLEEP", "kernel")
    /\ data' = [data EXCEPT ![cur[h]] = sem[h]]
    /\ sem' = [sem EXCEPT ![h] = NoSem]
    /\ UNCHANGED <<listLock, listVars, due, value, cur, picked, cursor, stale>>

CanV(h, s) == (InSyscall(h) \/ pc[h] = "user") /\ value[s] < MaxValue

VPost(h, s) ==
    /\ CanV(h, s)
    /\ value[s] >= 0
    /\ value' = [value EXCEPT ![s] = @ + 1]
    /\ Goto(h, "kernel")
    /\ UNCHANGED <<listLock, procLock, listVars, procVars, cur, picked, sem,
                   cursor, stale>>

VWake(h, s) ==
    /\ CanV(h, s)
    /\ value[s] < 0
    /\ value' = [value EXCEPT ![s] = @ + 1]
    /\ sem' = [sem EXCEPT ![h] = s]
    /\ Goto(h, "wakeup")
    /\ UNCHANGED <<listLock, procLock, listVars, procVars, cur, picked, cursor,
                   stale>>

(* wakeup(s): scan sleep_list from its head under list_lock.                *)
WakeupBegin(h) ==
    /\ pc[h] = "wakeup"
    /\ listLock = NoHart
    /\ listLock' = h
    /\ Goto(h, "wakeup_scan")
    /\ UNCHANGED <<procLock, listVars, procVars, value, cur, picked, sem,
                   cursor, stale>>

(* The end of wakeup; the variant forgets unlock(&list_lock).               *)
WakeupDoneLocked(h) ==
    /\ sem' = [sem EXCEPT ![h] = NoSem]
    /\ cursor' = [cursor EXCEPT ![h] = 1]
    /\ Goto(h, "kernel")
    /\ UNCHANGED listLock
WakeupDone(h) ==
    /\ listLock' = NoHart
    /\ sem' = [sem EXCEPT ![h] = NoSem]
    /\ cursor' = [cursor EXCEPT ![h] = 1]
    /\ Goto(h, "kernel")

(* What wakeup sets in the process; the variant forgets its status.         *)
ClearData(p) == data' = [data EXCEPT ![p] = NoSem] /\ UNCHANGED status
MakeReady(p) ==
    /\ data' = [data EXCEPT ![p] = NoSem]
    /\ status' = [status EXCEPT ![p] = "READY"]

(* The first process that sleeps on s goes to the head of ready_list.       *)
WakeupHit(h) ==
    LET p == sleeping[cursor[h]] IN
    /\ pc[h] = "wakeup_scan"
    /\ cursor[h] <= Len(sleeping)
    /\ procLock[p] = NoHart
    /\ data[p] = sem[h]
    /\ MakeReady(p)
    /\ sleeping' = DelList(sleeping, cursor[h])
    /\ ready' = AddAfter(ready, p)
    /\ WakeupDone(h)
    /\ UNCHANGED <<procLock, wait, resume, due, value, cur, picked, stale>>

WakeupSkip(h) ==
    LET p == sleeping[cursor[h]] IN
    /\ pc[h] = "wakeup_scan"
    /\ cursor[h] <= Len(sleeping)
    /\ procLock[p] = NoHart
    /\ data[p] # sem[h]
    /\ cursor' = [cursor EXCEPT ![h] = @ + 1]
    /\ UNCHANGED <<listLock, procLock, listVars, procVars, value, cur, pc,
                   picked, sem, stale>>

WakeupMiss(h) ==
    /\ pc[h] = "wakeup_scan"
    /\ AtEnd(h, sleeping)
    /\ WakeupDone(h)
    /\ UNCHANGED <<procLock, listVars, procVars, value, cur, picked, stale>>

-----------------------------------------------------------------------------
\* System calls that give up the hart or add a process

Yield(h) ==
    /\ pc[h] = "user"
    /\ cur[h] # Idle
    /\ GiveUp(h, "READY", "tick")
    /\ UNCHANGED <<listLock, listVars, data, due, value, cur, picked, sem,
                   cursor, stale>>

(* sys_nanosleep and sys_clock_nanosleep: the deadline starts to run.       *)
Nanosleep(h) ==
    /\ pc[h] = "user"
    /\ cur[h] # Idle
    /\ GiveUp(h, "WAIT", "tick")
    /\ due' = due \ {cur[h]}
    /\ UNCHANGED <<listLock, listVars, data, value, cur, picked, sem, cursor,
                   stale>>

(* The end of sys_clone: the new process goes to the head of ready_list.    *)
Clone(h, p) ==
    /\ pc[h] = "user"
    /\ cur[h] # Idle
    /\ status[p] = "NONE"
    /\ listLock = NoHart
    /\ status' = [status EXCEPT ![p] = "READY"]
    /\ ready' = AddAfter(ready, p)
    /\ Goto(h, "tick")
    /\ UNCHANGED <<listLock, procLock, wait, sleeping, data, resume, due, value,
                   cur, picked, sem, cursor, stale>>

(* The end of sys_execve writes PROC_READY into the process that runs, and  *)
(* gives it a new slice.                                                    *)
Execve(h) ==
    /\ pc[h] = "user"
    /\ cur[h] # Idle
    /\ status' = [status EXCEPT ![cur[h]] = "READY"]
    /\ due' = due \ {cur[h]}
    /\ Goto(h, "tick")
    /\ UNCHANGED <<listLock, procLock, listVars, data, resume, value, cur, picked,
                   sem, cursor, stale>>

(* sys_times takes p->lock and walks the list of the children without ever  *)
(* going on to the next one: a process with a child stays there.  Whether   *)
(* it has one is not part of this module's state.                           *)
Times(h) ==
    /\ pc[h] = "user"
    /\ cur[h] # Idle
    /\ procLock[cur[h]] = NoHart
    /\ procLock' = [procLock EXCEPT ![cur[h]] = h]
    /\ Goto(h, "times")
    /\ UNCHANGED <<listLock, listVars, procVars, value, cur, picked, sem, cursor,
                   stale>>

-----------------------------------------------------------------------------
\* Traps and set_next_time

(* The timer interrupt; intr_handler does nothing for it, and trap_handler   *)
(* calls set_next_time.                                                     *)
TimerTrap(h) ==
    /\ pc[h] = "user"
    /\ Goto(h, "tick")
    /\ UNCHANGED <<listLock, procLock, listVars, procVars, value, cur, picked,
                   sem, cursor, stale>>

(* A system call or an interrupt handler that called P or V returns.         *)
HandlerReturns(h) ==
    /\ pc[h] = "kernel"
    /\ Goto(h, "tick")
    /\ UNCHANGED <<listLock, procLock, listVars, procVars, value, cur, picked,
                   sem, cursor, stale>>

(* t < last_timer[hartid], or not: then the next interrupt is programmed.   *)
NoTick(h) ==
    /\ pc[h] = "tick"
    /\ Goto(h, "slice")
    /\ UNCHANGED <<listLock, procLock, listVars, procVars, value, cur, picked,
                   sem, cursor, stale>>

Tick(h) ==
    /\ pc[h] = "tick"
    /\ Goto(h, "timer")
    /\ UNCHANGED <<listLock, procLock, listVars, procVars, value, cur, picked,
                   sem, cursor, stale>>

(* while(1) {}: of set_next_time when cnt reaches 16500 before process 1    *)
(* has exited, of sys_clone without a working directory, of a breakpoint.   *)
Hang(h) ==
    /\ pc[h] \in {"user", "kernel", "tick"}
    /\ Goto(h, "hung")
    /\ UNCHANGED <<listLock, procLock, listVars, procVars, value, cur, picked,
                   sem, cursor, stale>>

(* One more turn of such a loop.                                            *)
Stuck == {"times", "hung"}
Spin(h) == pc[h] \in Stuck /\ UNCHANGED vars

WaitScanBegin(h) ==
    /\ pc[h] = "timer"
    /\ listLock = NoHart
    /\ listLock' = h
    /\ Goto(h, "wait_scan")
    /\ UNCHANGED <<procLock, listVars, procVars, value, cur, picked, sem,
                   cursor, stale>>

(* One turn of the loop over wait_list: a process whose t_wait has passed   *)
(* goes to the tail of ready_list.  Its status stays PROC_WAIT.             *)
WaitScan(h) ==
    LET i == cursor[h] IN
    /\ pc[h] = "wait_scan"
    /\ i <= Len(wait)
    /\ IF wait[i] \in due
       THEN /\ wait' = DelList(wait, i)
            /\ ready' = AddBefore(ready, wait[i])
            /\ UNCHANGED cursor
       ELSE /\ cursor' = [cursor EXCEPT ![h] = i + 1]
            /\ UNCHANGED <<wait, ready>>
    /\ UNCHANGED <<listLock, procLock, sleeping, procVars, value, cur, pc,
                   picked, sem, stale>>

WaitScanEnd(h) ==
    /\ pc[h] = "wait_scan"
    /\ AtEnd(h, wait)
    /\ listLock' = NoHart
    /\ cursor' = [cursor EXCEPT ![h] = 1]
    /\ Goto(h, "slice")
    /\ UNCHANGED <<procLock, listVars, procVars, value, cur, picked, sem, stale>>

SliceSpent(h) ==
    /\ pc[h] = "slice"
    /\ cur[h] \in due
    /\ GiveUp(h, "READY", "user")
    /\ UNCHANGED <<listLock, listVars, data, due, value, cur, picked, sem,
                   cursor, stale>>

SliceLeft(h) ==
    /\ pc[h] = "slice"
    /\ cur[h] \notin due
    /\ procLock[cur[h]] = NoHart
    /\ Goto(h, "user")
    /\ UNCHANGED <<listLock, procLock, listVars, procVars, value, cur, picked,
                   sem, cursor, stale>>

(* Time passes the t_slice or the t_wait of p.  RUN and WAIT are all that    *)
(* have one that is compared, but for a process that has called sys_execve. *)
DeadlinePasses(p) ==
    /\ \/ status[p] \in {"RUN", "WAIT"}
       \/ \E h \in Harts : cur[h] = p /\ pc[h] \notin {"move", "switch"}
    /\ p \notin due
    /\ due' = due \cup {p}
    /\ UNCHANGED <<listLock, procLock, listVars, status, data, resume, value,
                   hartVars>>

-----------------------------------------------------------------------------

(* What a hart does without a choice of the program it runs.                *)
Kernel(h) ==
    \/ Pick(h) \/ Dispatch(h)
    \/ MoveToList(h) \/ SwitchOut(h) \/ SwitchWild(h)
    \/ SleepOn(h)
    \/ WakeupBegin(h) \/ WakeupHit(h) \/ WakeupSkip(h) \/ WakeupMiss(h)
    \/ NoTick(h) \/ Tick(h)
    \/ WaitScanBegin(h) \/ WaitScan(h) \/ WaitScanEnd(h)
    \/ SliceSpent(h) \/ SliceLeft(h)

Program(h) ==
    \/ \E s \in Sems : PPass(h, s) \/ PBlock(h, s) \/ VPost(h, s) \/ VWake(h, s)
    \/ \E p \in Procs : Clone(h, p)
    \/ Yield(h) \/ Nanosleep(h) \/ Execve(h)
    \/ TimerTrap(h) \/ HandlerReturns(h)
    \/ Times(h) \/ Hang(h) \/ Spin(h)

Next ==
    \/ \E h \in Harts : Kernel(h) \/ Program(h)
    \/ \E p \in Procs : DeadlinePasses(p)

Spec == Init /\ [][Next]_vars

(* A hart keeps executing, but a spinning lock() may lose every race for a  *)
(* lock that is released and taken again, so the kernel steps are only      *)
(* weakly fair.  The timer fires again and again on a hart in user mode and *)
(* time passes every deadline; a handler that does not stay in the kernel   *)
(* for ever (Times, Hang) makes finitely many P and V calls; and            *)
(* last_timer[hart] is passed again and again on a hart that goes on.       *)
Fairness ==
    /\ \A h \in Harts :
        /\ WF_vars(Kernel(h))
        /\ WF_vars(TimerTrap(h))
        /\ SF_vars(HandlerReturns(h))
        /\ SF_vars(Tick(h))
    /\ \A p \in Procs : WF_vars(DeadlinePasses(p))

FairSpec == Spec /\ Fairness

-----------------------------------------------------------------------------

Labels == {"sched", "dispatch", "move", "switch", "wild", "sleep", "wakeup",
           "wakeup_scan", "user", "kernel", "tick", "timer", "wait_scan",
           "slice", "times", "hung"}
ListLabels == {"dispatch", "wakeup_scan", "wait_scan"}
OwnerLabels == {"user", "kernel", "sleep", "wakeup", "wakeup_scan", "tick",
                "timer", "wait_scan", "slice", "move", "times", "hung"}

(* Every variable has its type; a hart has a current process from Dispatch  *)
(* to SwitchOut, a picked one only in between Pick and Dispatch, and a      *)
(* semaphore only during sleep and wakeup.                                  *)
TypeOK ==
    /\ listLock \in Harts \cup {NoHart}
    /\ procLock \in [Procs -> Harts \cup {NoHart}]
    /\ ready \in Seq(Procs) /\ wait \in Seq(Procs) /\ sleeping \in Seq(Procs)
    /\ status \in [Procs -> {"NONE", "RUN", "READY", "WAIT", "SLEEP"}]
    /\ data \in [Procs -> Sems \cup {NoSem}]
    /\ resume \in [Procs -> {"user", "kernel", "tick"}]
    /\ due \subseteq Procs
    /\ value \in [Sems -> Int]
    /\ cur \in [Harts -> Procs \cup {NoProc}]
    /\ pc \in [Harts -> Labels]
    /\ picked \in [Harts -> Procs \cup {NoProc}]
    /\ sem \in [Harts -> Sems \cup {NoSem}]
    /\ cursor \in [Harts -> Nat \ {0}]
    /\ stale \subseteq Harts
    /\ \A h \in Harts :
        /\ cur[h] \in Procs <=> pc[h] \in OwnerLabels \cup {"switch"}
        /\ picked[h] \in Procs <=> pc[h] = "dispatch"
        /\ sem[h] \in Sems <=> pc[h] \in {"sleep", "wakeup", "wakeup_scan"}

(* spinlock.c has no owner check in unlock(): only this discipline keeps a  *)
(* hart from releasing a lock another one holds.  list_lock is held exactly *)
(* by the hart that is inside one of the three sections that keep it across *)
(* steps, and p->lock exactly by the hart that is handing p over, or stays  *)
(* in sys_times with it.                                                    *)
LockDiscipline ==
    /\ \A h \in Harts : listLock = h <=> pc[h] \in ListLabels
    /\ \A h \in Harts, p \in Procs :
          procLock[p] = h <=> pc[h] \in {"move", "times"} /\ cur[h] = p

Holds(h, p) == picked[h] = p \/ (cur[h] = p /\ pc[h] \in OwnerLabels)
OnList(p) == p \in Range(ready) \cup Range(wait) \cup Range(sleeping)

(* A process is linked into at most one list, once, or runs on one hart,    *)
(* never both and never on two; and a process that exists is somewhere.     *)
(* status_list_node is one node that four pieces of code move about.        *)
Ownership ==
    /\ IsInjective(ready) /\ IsInjective(wait) /\ IsInjective(sleeping)
    /\ Range(ready) \cap Range(wait) = {}
    /\ Range(ready) \cap Range(sleeping) = {}
    /\ Range(wait) \cap Range(sleeping) = {}
    /\ \A h \in Harts, p \in Procs : Holds(h, p) => ~OnList(p)
    /\ \A g, h \in Harts, p \in Procs : Holds(g, p) /\ Holds(h, p) => g = h
    /\ \A p \in Procs :
          status[p] # "NONE" <=> OnList(p) \/ \E h \in Harts : Holds(h, p)

(* The status and the data of a process agree with where it is linked, so   *)
(* that a scan of sleep_list can find it and no other code takes it for a   *)
(* sleeper.  WAIT on ready_list is a process set_next_time moved there, and *)
(* READY on a hart one that has called sys_execve since its dispatch.       *)
StatusMatches ==
    /\ \A p \in Range(ready) : status[p] \in {"READY", "WAIT"}
    /\ \A p \in Range(wait) : status[p] = "WAIT"
    /\ \A p \in Range(sleeping) : status[p] = "SLEEP"
    /\ \A h \in Harts : pc[h] = "dispatch" => status[picked[h]] \in {"READY", "WAIT"}
    /\ \A h \in Harts : pc[h] = "move" => status[cur[h]] \in {"READY", "WAIT", "SLEEP"}
    /\ \A h \in Harts :
          pc[h] \in OwnerLabels \ {"move"} => status[cur[h]] \in {"RUN", "READY"}
    /\ \A p \in Procs : data[p] \in Sems <=> status[p] = "SLEEP"

(* Every process that P turned away from s and no wakeup has served yet,    *)
(* and every V of s that still has its wakeup to do.                        *)
Waiters(s) ==
    {p \in Procs : \/ data[p] = s
                   \/ \E h \in Harts : pc[h] = "sleep" /\ cur[h] = p /\ sem[h] = s}
Wakers(s) == {h \in Harts : pc[h] \in {"wakeup", "wakeup_scan"} /\ sem[h] = s}

(* A negative value is the number of waiters that no V answers yet; there   *)
(* may be more of them (a lost wakeup) but never fewer: a process gets past *)
(* P only on the credit of a V of its own.                                  *)
CreditNeverForged ==
    \A s \in Sems :
        /\ Cardinality(Waiters(s)) - Cardinality(Wakers(s)) >= -value[s]
        /\ Cardinality(Waiters(s)) >= Cardinality(Wakers(s))

(* Nobody gets in front of a process on sleep_list, and of two processes    *)
(* that sleep on one semaphore the one in front is woken first: so it is    *)
(* first in, first out for every semaphore.                                 *)
Before(p, q) ==
    \E i, j \in DOMAIN sleeping : i < j /\ sleeping[i] = p /\ sleeping[j] = q
WakeInOrder ==
    [][\A p, q \in Procs :
         /\ p \in Range(sleeping) /\ Before(q, p)' => Before(q, p)
         /\ Before(p, q) /\ data[p] = data[q] => q \in Range(sleeping')]_vars

NeverWild == [](\A h \in Harts : pc[h] # "wild")
SomeHartGoesOn == [](\E h \in Harts : pc[h] \notin Stuck)
AllHartsGoOn == [](\A h \in Harts : pc[h] \notin Stuck)

(* Whoever calls sys_execve again and again within its slice is never made  *)
(* to yield.                                                                *)
ExecvesEnd == \A h \in Harts : <>[][~Execve(h)]_vars

(* A ready process other than process 0 is dispatched in the end, although  *)
(* woken and new processes jump to the head of the list, and also when all  *)
(* harts but one are caught in a loop of the kernel, p->lock held or not.   *)
ReadyRuns ==
    NeverWild /\ SomeHartGoesOn /\ ExecvesEnd => \A p \in Procs \ {Idle} :
        p \in Range(ready) ~> p \notin Range(ready)

(* A process that waits for a time leaves wait_list in the end, although    *)
(* only set_next_time looks at that list and no scheduler loop calls it.    *)
(* Not so when a hart is caught with process 0: the other one, which finds  *)
(* ready_list empty, stays in the scheduler and never looks.                *)
WaitEnds ==
    NeverWild /\ AllHartsGoOn => \A p \in Procs \ {Idle} :
        p \in Range(wait) ~> p \notin Range(wait)

(* The semaphores of the code are counting semaphores that hand a credit to *)
(* a waiter or to a passing P, as far as safety goes.                       *)
Credit(s) == value[s] + Cardinality(Waiters(s))
Abstract == INSTANCE CountingSemaphore WITH
    credit <- [s \in Sems |-> Credit(s)],
    waiting <- [s \in Sems |-> Waiters(s)]
CountingSemaphores == Abstract!Spec
=============================================================================
