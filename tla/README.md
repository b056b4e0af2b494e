# Verification of the kernel in `os/`

TLA+ models of the RISC-V kernel of this repository (two harts on K210 or QEMU,
non-preemptive kernel, preemptive user mode), model-checked with TLC on small
instances and, where the tables below say so, proved for every size with TLAPS.
Every definition names the C or assembly lines it stands for in `PROJECT.json`
("map").

## 1. Inventory

Two harts run the same kernel. A hart is in user mode, in the kernel on behalf of
the current process (a trap), or in the loop of `scheduler()`. Traps do not nest:
`SIE` is off in kernel mode, so the kernel is concurrent only because there are
two harts, and shared state is protected by spin locks without an owner check.

| component (files in `os/`) | state | operations | interacts through |
|---|---|---|---|
| Scheduler (`kernel/sched.c`, `switch.S`) | `ready_list`, `wait_list`, `sleep_list`, `list_lock`; per process `status`, `data`, `lock`, `pcontext`; `cur_proc` per hart | `scheduler`, `move_switch2sched`, `sleep`, `wakeup` | everything that blocks or yields |
| Semaphores (`kernel/sem.c`) | `value`, `lck` | `P`, `V` | `sleep`/`wakeup`; used by pipe, console, wait4 |
| Spin locks (`kernel/spinlock.c`) | `islocked`, `owner` | `lock`, `unlock` | all shared structures |
| Timer (`kernel/timer.c`) | `last_timer[hart]`, `t_slice`, `t_wait` | `set_next_time` | run at the end of every trap from user mode |
| Traps (`kernel/intr.c`, `intr.S`) | trap context | `trap_handler`, `intr_handler`, `exception_handler` | system calls, console, signals, timer |
| Process life cycle (`kernel/process.c`, `procsyscall.c`) | `pids[]`, PCB, parent/child lists, `code`, `sleep_lock` | `new_proc`, `sys_clone`, `sys_exit`, `sys_wait4`, `sys_execve` | scheduler, semaphores, memory, VFS |
| Signals (`kernel/signal.c`, `sys_kill`) | `signal_list_head`, `do_signal`, `sigmask`, `receive_kill` | `send_signal`, `signal_handler`, `sigreturn`, `sys_kill` | trap exit, sleepers |
| Pipes (`kernel/pipe.c`) | ring of 1024 bytes, `r_pos`, `w_pos`, `r_ref`, `w_ref`, semaphore | `pipe_read`, `pipe_write`, `pipe_close` | descriptor tables, semaphores |
| Console (`kernel/console.c`) | input ring, semaphore | `console_intr`, `console_read` | interrupt context `V` |
| Page allocator (`kernel/page.c`) | `pages_map[]` (flag, reference count, run length), `pages_list`, `page_num` | `alloc_pages`, `free_pages` | every allocation |
| Small objects (`kernel/slob.c`, `kmalloc.c`) | one circular list of free blocks in units, the list of big blocks | `small_alloc`, `small_free`, `kmalloc`, `kfree` | page allocator |
| Virtual memory (`kernel/vmm.c`) | page tables, VMA list, `brk` | `mappages`, `do_page_fault`, `sys_mmap`, copy on write | page allocator, process life cycle |
| VFS (`vfs/`) | 128-slot file pool, inode tree, reference counts | `vfs_open`, `vfs_close`, `vfs_dup`, `vfs_unlink`... | file system calls |
| Descriptor tables (`kernel/fs.c`) | `ufiles_list_head`, `kfd` of a process | `sys_openat`, `sys_dup`, `sys_dup3`, `sys_close`, `sys_pipe` | VFS, pipes |
| Boot (`kernel/osmain.c`, `boot.S`) | `init_done` | the start of the two harts | all initialisation |

System call dispatch (`syscall.c`), output (`printk.c`, `panic.c`), the binding to
the vendored FatFs (`fatfs/`), the device drivers (`driver/`, `hal/`), `lib/`,
`user/` and the SBI images are not modelled: they are argument unpacking, pure I/O,
vendored or generated code, or programs that run on the kernel.

### What is hard

* *Interleaving of two harts.* `status_list_node` is one list node per process that
  five pieces of code move between three lists; `P` gives up the lock of the
  semaphore before it sleeps; `_move_switch` publishes a process before it has left
  the stack of the process; `sys_kill` takes locks in the opposite order of `sleep`.
* *Order and progress.* Woken and new processes are pushed at the head of
  `ready_list`, process 0 is skipped when there is another one, timed waits are
  looked at only by a hart that returns from a trap. Nobody but process 0 keeps
  interrupts coming.
* *Life cycle.* `sys_exit` marks a process dead while it still runs, a parent may
  free it at that moment, and orphans lose their parent pointer.
* *Limits.* The pipe ring, the pid table, the file pool, page runs that must be
  merged again.

The full list, with the line where each one bites and the properties that watch it,
is `hazards` in `PROJECT.json`.

### What makes each component correct

* Scheduler: every process that exists is in exactly one place; status and sleep
  channel agree with that place; ready processes run; timed waits end.
* Semaphores: nobody passes `P` without the credit of a `V`; wake in order of sleep.
* Spin locks: released only by the hart that took them; no cycle of waiting.
* Life cycle: a PCB is freed once, after its last use; every child is reaped by its
  parent; pids are unique among live processes.
* Signals: every sent signal is delivered once; `receive_kill` counts the pending kills.
* Pipes: bytes come out in order, none is lost, end of file is seen.
* Memory: no page in two allocations, freed memory can be allocated again, no
  mapping to a free page.
* VFS: reference counts equal the references; a slot belongs to one open file.

## 2. Plan

In this order; each line is a module, and what it composes or implements.

1. `Sched` — scheduler, lists, semaphores, timer; implements `CountingSemaphore`. **done**
2. `SchedProofs`, `SemProofs` — its inductive invariant, the order of wakeups, and that
   it implements `CountingSemaphore`. **done**
3. `ProcLife` — clone, exit, wait4, reparenting, pid table, SIGCHLD, reclaim of the PCB;
   implements `ProcessTree`. **done** `LifeProofs` — its inductive invariant and the
   refinement. **done**
4. `PageAlloc` — free runs with merging; implements the abstract `PagePool`. **done**
   `PageProofs` — its inductive invariant and the refinement. **done**
5. `Pipe` — ring, reference counts, end of file, readers and writers, kill; implements an
   abstract FIFO `Channel` while the ring does not overflow. **done** `PipeProofs` — its
   inductive invariant and the refinement. **done**
6. `Files` — descriptor tables over file slots, open directories, mounts and pipe ends, with
   the calls that open, share, replace and close them. **done** `FilesProofs`. **done**
7. `Vmm` — areas and page tables over faults, brk, mmap, clone, execve and exit; implements
   `VirtualMemory`, a memory of its own for each process. **done** `VmmProofs`. **done**
8. `Kill`, `Signals` — `sys_kill` for sleepers other than readers of a pipe (console, wait4),
   the loop at the end of `trap_handler`, handler frames, `receive_kill` as a counter.
9. `Slob` above `PagePool`; `Console`, `Boot` — the input ring; the handshake of the harts.

Every safety property of the passing runs is stated by a theorem, those of
`files_safety` for one hart and some of `vmm_safety` for careful programs, as section 6
says. Left to prove: more of what one hart guarantees (in `Files` on two harts only the
places where the races bite), and the modules of the last two lines, once written.

## 3. The modules

### `Sched`

State: `ready`, `wait`, `sleeping` are the three lists from head to tail; `listLock`
and `procLock[p]` hold the owner of `list_lock` and `p->lock`; `status`, `data`,
`resume` (`pcontext.ra`) and `cur` are the fields of the code; `due` is the set of
processes whose deadline has passed (`t_slice` for one that runs, `t_wait` for one
that waits); `value` is the semaphores' counter. The other variables are registers of
a hart: `pc` (what it does next), `picked` (`p` in `scheduler`), `sem` (the argument of
`sleep` and `wakeup`), `cursor` (the position of a scan), and `stale`, the harts that
still stand on a kernel stack another hart has been given.

Granularity: a step is the code between two acquisitions of a lock that is held across
steps. `s->lck`, the lock around the empty signal check in `trap_handler`, and
`list_lock` around one insertion protect sections that acquire nothing else, so each
such section is one step whose guard is that the lock is free. The turn of
`scheduler()` with an empty list changes no state. `cur_proc = p0`, which `user_init`
sets on hart 0, is overwritten before anything reads it.

Actions: `Pick`, `Dispatch` (`scheduler`); `GiveUp` is the first half of every call of
`move_switch2sched`, `MoveToList` and `SwitchOut` are `_move_switch`; `SwitchWild` is the
same load of the scheduler context when another hart has run on the stack in between,
whose outcome is undefined (`pc = "wild"` is absorbing); `PPass`, `PBlock`, `SleepOn`,
`VPost`, `VWake`, `WakeupBegin/Hit/Skip/Miss` are `P`, `sleep`, `V`, `wakeup`; `Yield`,
`Nanosleep`, `Clone` are the system calls that touch the lists, `Execve` the end of
`sys_execve`, which writes `PROC_READY` into the process that runs; `Times` and `Hang` are
the loops that keep a hart for good (`sys_times` with a child, the lock of the caller held;
the `while(1)` of timer.c:29, procsyscall.c:39 and intr.c:140), with `Spin` as one more turn; `TimerTrap`,
`HandlerReturns`, `NoTick`, `Tick`, `WaitScan*`, `SliceSpent`, `SliceLeft` are the end of
a trap. A system call that calls `P` or `V` several times passes through `"kernel"`
between the calls; `V` in the trap of process 0 or of a process in user mode is
`console_intr`. `resume` tells where a process goes on: in its program (preempted in
`set_next_time`), in its system call (after `P`), or at the `set_next_time` that ends
the trap (after yield and nanosleep).

Time is abstract: `DeadlinePasses` lets a deadline pass, and `Tick`/`NoTick` choose
whether `last_timer` of the hart has been reached, and `Hang` may end any tick, since ticks
are not counted. Whether a process has a child is not part of the state, so every process may
be caught by `sys_times`.

Processes do not exit in this module. The other users of `p->lock` are not in it: exit, wait4
and signals are in `ProcLife`, `sys_kill`, which takes a sleeper past `P` without a `V`, in
`Pipe`; `add_vma` only delays. The second `unlock` of intr.c:244 is in no module (it is a
hazard of the list). What is said here of lists, locks and credits is said of the operations
named above.

### `CountingSemaphore`

What `P` and `V` promise: `credit` and the set of `waiting` processes per semaphore.
`Sched` implements it with `credit = value + number of waiters` and a process
waiting from the decrement in `P` to the moment `wakeup` takes it off `sleep_list`
(`CountingSemaphores`). The abstract semaphore may turn a process away although there
is a credit on its way to another waiter, and it promises nothing about progress: the
lost wakeup below shows the code does not either.

### `ProcLife`

The actors are the processes; which hart runs them does not matter, only that at most
`CpuN` of them are in the kernel (`OnHart`, `HartFree`). A process enters the kernel with
a trap (`Trap`, or one of the system calls `NewProc`, `Wait4`, `Exit`), runs to the end of
it (`"trap_end"`, where pending signals are handled) or to its sleep in `P`, and resumes
from there. State: `alloc` is what the allocator thinks of a control block; `dead` are the
processes with status `PROC_DEAD`; `pids`, `parent`, `children`, `deadList` are the
code's; `credit[p]` is `p->sleep_lock.value`; `pending[p]` the sender pids of the SIGCHLDs
of `p`; `pc` and `arg` are the position and the local variable of a process in
`sys_clone`, `sys_wait4` or `sys_exit`.

Actions: `HandleSignal`, `ReturnToUser` are the signal loop of `trap_handler` with
`dfl_sigchld`; `NewProc`, `StartChild`, `CloneHangs` are `sys_clone`; `Wait4` with
`PollReport`, `PollNothing` (WNOHANG) or `WaitP`, `WaitSleep`, `Resume`, `WaitReport`,
`WaitAgain` (blocking) are `sys_wait4`; `Exit`, `ExitFamily`, `ExitSignal`, `ExitPost`,
`ExitWake`, `ExitMove`, `OrphanExit` are `sys_exit` between its acquisitions of locks.
`kill_current` (process.c:409-446), the default action of SIGTERM and others, has the same
body as `sys_exit`.

Undefined behaviour: the code frees control blocks that are still in use or still linked
on `dead_list`, unlinks from `dead_list` without its lock, writes `pids[-1]`, and follows
parent pointers that may dangle. The first such use sets `wild` and stops the model
(`Corrupt`), so every safety property speaks of the states up to that point; the pointers
and races that lead there are named (`RunsFreed`, `BadParent`, `BadDeadList`,
`PidsExhausted`). A control block gets a new name when it is allocated again, so that a
stale pointer can be told from a good one.

Abstractions. A child list is a set: wait4(-1) may report any dead child, the code takes
the first. Taking a signal from the list and its default action are one step (nobody else
removes signals). In the step of the exit that wakes its parent the locks of other
sleepers are not taken: they only delay. Not modelled here: execve, memory and
descriptors, `receive_kill` and `sys_kill`, user handlers for SIGCHLD, allocation failure.
The early return of clone at procsyscall.c:28 cannot happen (the path of the working
directory has been opened before). What happens to an orphan that exits
(`lock(&NULL->lock)`): the page-fault handler sends a signal to the process and spins on
the lock the process holds (`"stuck"`). The window after `unlock(&list_lock)` in
`_move_switch` is in `Sched`.

### `ProcessTree`

What users of fork, exit and wait see: a process is absent, alive or a zombie and has a
keeper; it dies once, its children go to its keeper, and only its keeper removes it, once
dead. `ProcLife` implements it (`ImplementsTree`) with the process whose list a child is
on as its keeper.

### `PageAlloc`

`kernel/page.c`. `flag`, `ref_cnt` and `free_page_num` are the fields of `pages_map[]`,
`pages_list` the sequence of the first pages of the free runs, `held` (not in the code) the
pages that callers have been given and not given up. A call of `alloc_pages` is `AllocTest`,
the test of `page_num` without the lock, and `AllocTake` or `AllocFail`, the section under
`page_lock`; a call of `free_pages` is `FreeMark`, the loop over flags and reference counts
without the lock, and `FreeLink`, the section under it. A section is one step because
what it touches is touched by nobody without the lock, except `page_num`, which
`AllocTest` reads before or after it. A call that fails the first test changes nothing
and is a stuttering step. `free_page_num` keeps the stale
lengths that merging leaves behind in pages that are not the first of a run. A caller frees what it
was given, in portions of its choice, since page tables free what one `vm_alloc_pages(4)`
returned one page at a time. Pages freed by two processes that map them are a matter of
`vmm.c`.

### `PagePool`

The promise to callers: a request gets consecutive pages that were free, pages become free
only by being given up first, no page is free and held. `PageAlloc` implements it with
`FreePages`, the union of the runs on the list, for `free`.

### `Pipe`

One pipe and the processes that hold its ends. `buf`, `r_pos`, `w_pos`, `r_ref`, `w_ref` and
`value` are the fields of `pipe_t`; `ends` says who has a descriptor for which end, `pc` and
`left` where a process is in `pipe_read` or `pipe_write` and how much of its count is left;
`sleepers` is the part of `sleep_list` that sleeps on this pipe; `killed` is
`receive_kill > 0`. A byte is the number under which it was written. The rest is history:
what was `sent` and `received`, whether a reader was told the end (`ended`), the credits that
killed readers left with (`lost`), and `intact`, which becomes false with the first byte that
is written over an unread one, and when a signal that does not end a process lets it pass
`P` without a credit.

Actions: `ReadCall`, `ReadTest`, `ReadP`, `ReadSleep`, `ReadResume`, `ReadBreak`, `ReadGoOn`,
`ReadTake` are `pipe_read`; `WriteCall`, `WritePut`, `WritePost`, `WritePostWake`,
`WriteWakeup`, `WriteWakeupMiss`, `WriteTurnDone` are `pipe_write`, which holds the mutex
over its `V`; `Close`, `Exit`, `ExitDone`, `Clone` are what adds and drops ends. `Kill` and
`Signal` begin a `sys_kill`, `KillTest` reads the status without a lock, `KillLock` takes
`list_lock`, and the move of the process `target` comes last, whatever it does by then:
`WithoutV` if it still sleeps, `KillRelinks` if it is on `ready_list` already, `KillsRunner` if
it runs or is dead. The last one links a running process on `ready_list`; what follows is not
defined, and the model stops. `ReadSleep` and `ReadLink` are the two halves of `sleep`, with
`p->lock` held in between (`Locked`): `sys_kill` takes `list_lock` first and `p->lock` then,
`_move_switch` the other way round, so the two can wait for each other for ever. A process has at most
one descriptor of each end here (`Files` has more). The scheduler's lists are those of `Sched`; here a woken process has `pc`
`"woken"` until a hart takes it.

### `Channel`

What a pipe promises: bytes come out in order, each once, and the end of the file after the
last one, as long as at most `Capacity` are unread. `Pipe` implements it with `Capacity`
one less than the ring: with a full ring the positions are equal, and the pipe looks empty.

### `Files`

The descriptor tables over the VFS. `held[p][x]` is the entry at a place: a descriptor, or
`kfd`, `cwd`, one of the two in the `new_proc` of an `execve` under way, or the local variable
of a call that opens something to look at it. `ino`, `path` are
the fields of a file slot, `dino`, `dpath` those of an open directory, `refs` the counter of
an inode, `r_ref`, `w_ref` those of a pipe. A call that opens something has a list `todo` of
what it opens, which `OpenFails`, `Choose`, `Store`, `StoreFails`, `OpenDir`, `OpenDirFails`
and `SharePipe` work off; `Choose` and `Store` are two steps because `vfs_file_alloc` does
not reserve the slot that it returns. `Replace` is the end of `sys_chdir` and `sys_execve`,
`Abandon` and `AbandonClose` the error path of `create_proc_by_elf`; `ExitClose`, `ExitCwd`,
`ExitKfd` are the walk of `sys_exit`; `Reap` is `free_process_struct`. `Look` and `LookDone` are
the calls that open a file or directory only to look at it (`sys_mkdirat`, `sys_fstatat`,
`sys_utimensat`).

Paths are names of mounts: a path that begins with the name of a mount resolves to it, else to
the root. File systems may fail an open or a close. What is written to, read from or linked
in a file system does not change any of these variables and is not modelled. Steps that use
freed memory or a null pointer set `"lost"` and stop the model: `OpenDotFails`,
`ExecWithoutDir`, `ShareFreed`, `ReapClosesOther`. A clone without a working directory leaves
the process `"stuck"` in a loop. A null pointer that the kernel only reads or writes a field of
does not stop it: `do_page_fault` maps a page at address 0. So `OpenFault` (`sys_openat` with an
empty table) goes on without a descriptor for what it has opened, and `CloneFault` (a parent
without a program file) opens whatever path is found there.

`leaked` are the slots and directories that are open and that nobody will find again: what
`OpenFault` has opened, a mapped file that `sys_clone` opens again, slot 0 where the code takes
it for a failure (`kfd`, `sys_mkdirat`), a file or directory whose close the file system
refuses while the descriptor is freed all the same (vfs.c:416). They are part of the
properties: they stay open and counted, and are not handed out again.

### `Vmm`

`area[p]` is the list of `struct vma` of a process, `pte[p][v]` its page table: the page, its
protection and `PTE_F`, the mark of a page borrowed from the parent; `brk`, `minbrk` in
pages; `free` the pages that `alloc_pages` may give out, `mem` the content of a page, one
value. Each call and each fault is one action: it touches the areas and the table of its own
process only, and takes and frees pages, which is atomic by `PageAlloc`. `FaultStack`,
`FaultProg`, `FaultAnon`, `FaultFile` are the branches of `do_page_fault`, `FaultExec` and
`FaultIllegal` those of `do_exec_fault`; `Grow`, `Shrink` are `sys_brk`; `Mmap`, `Munmap`,
`Clone`, `Execve`, `Exit` the calls of that name. `Store` is a store of the program.
`FaultNoPage`, `CloneNoPage`, `ExecveNoPage`, `ShrinkNull` use a null pointer: the model
stops (`"lost"`). `FaultIllegal` leaves the hart in a loop of the same exception (`"stuck"`).

Addresses are counted in pages; the parts of a program lie on pages of their own
(`IsProgram`); the pages of the page tables themselves are not modelled. `Careless` is the
set of what programs do that the kernel does not cope with: `"share"`, write to a page of
code or arguments that another process maps too; `"leave"`, exit, execve or unmap while a
child still borrows such a page; `"file"`, map more than one page of a file or write to one
mapped for reading; `"jump"`, jump into a page of its program that is not executable. Each
loses or frees pages that are in use. With `Careless = {}` everything below holds.

### `VirtualMemory`

What programs see: each process has a memory of its own, reads what it wrote or inherited,
and gets zero where it gets new memory. `Vmm` implements it, with a page that is not mapped
yet read as what the fault will put there.

### The other modules

`ListLemmas` has the facts about `Append`, `Cons`, `InsertAt` and `RemoveAt` on lists
without duplicates; the modules named `...Proofs` are the proofs of section 6, and those named
`MC...` hold symmetry sets and bounds for TLC.

## 4. Runs

| run | instance | shows |
|---|---|---|
| `sched_safety` | 2 harts, 3 processes, 2 semaphores, `MaxValue` 1 | `TypeOK`, `LockDiscipline`, `Ownership`, `StatusMatches`, `CreditNeverForged`, `WakeInOrder`, `CountingSemaphores` (the refinement) |
| `sched_live` | 2 harts, 3 processes, 1 semaphore, `MaxValue` 0, fairness | `ReadyRuns`, `WaitEnds` |
| `life_safety` | 2 harts, 5 control blocks, 4 pids | `TypeOK`, `FamilyTree`, `PidTable`, `DeadAnnounced`, `ZombiesHaveCredit`, `NoLockCycle`, `ImplementsTree` (the refinement) |
| `life_one_hart` | 1 hart, 5 control blocks, 4 pids, fairness | `FreedIsDone`, `WaitReturns` |
| `life_freed_running` | 2 harts, 4 control blocks | violated: `FreedIsDone` |
| `life_wait_hangs` | 2 harts, 4 control blocks, fairness | violated: `WaitReturns` |
| `pages_safety` | 2 harts, 8 pages of which 1 reserved, calls of up to 3 pages | `TypeOK`, `RunsApart`, `OnePageOneOwner`, `FlagsTell`, `PageNumCounts`, `ImplementsPool` (the refinement) |
| `pipe_safety` | 2 harts, 3 processes, a ring of 2 bytes, 2 bytes written, kills and other signals | `TypeOK`, `SleepersMatch`, `CreditPerByte`, `RefsCountEnds`, `SelectTellsTruth`, `ImplementsChannel` (the refinement) |
| `pipe_one_hart` | 1 hart, 3 processes, a ring of 2 bytes, 3 bytes written in calls of up to 2, fairness | `SleeperServed`, `EndReached` |
| `files_safety` | 1 hart, 2 processes, 2 slots, 3 descriptors, 2 directories, 1 pipe, 2 mounts | `TypeOK`, `SlotsHaveOneOwner`, `CountsMatch`, `Isolated` |
| `vmm_safety` | 2 processes, 3 pages, 5 virtual pages, `Careless = {}` | `TypeOK`, `AreasApart`, `PagesOwned`, `ImplementsMemory` (the refinement) |
| `vmm_copy_on_write` | the same with `Careless = {"share"}` | violated: `CopiedOnWrite` |

Bounds of `Sched`. `MaxValue` stops a `V` that would raise a value above it; the negative
side is bounded by the number of processes. With `MaxValue` 0 every `V` answers a waiter.
Two harts are what `CPU_N` is, so the interleavings
are complete for the real machine. Three processes are process 0, the first process and
a clone: enough for a process on a list while both harts are busy, for two sleepers on one
semaphore and for one on each, so that the scan of `wakeup` skips. The theorems of section 6
cover every size for all the properties of `sched_safety`. Symmetry over harts,
semaphores and clones is used in safety runs only (an action property and the next-state
relation of a refinement are checked step by step, which symmetry does not disturb).

Bounds of `ProcLife`. `Procs` bounds how many control blocks are ever allocated, `PidN` is
`PROC_N`. Five blocks with four pids are three generations below process 0 in which pids
are exhausted and used again, a parent, child and grandchild exit at the same time, and a
signal outlives the pid it names; with six blocks the same properties hold as well
(650,000 states), but the run takes too long to repeat often. Memory and list corruption ends a behaviour, so the depth
of what follows is not explored: it has no meaning. All runs of `ProcLife` allow
deadlock: a behaviour ends when it is wild, and with every process dead, stuck or hung.
The violations need fewer blocks; those on one hart are possible on two as well.

Bounds of `PageAlloc`. `MaxRequest` bounds the pages of one call. Seven free pages and
requests of one to three give lists of up to four runs, in and out of the order of addresses,
merges with either neighbour and with both, runs taken exactly and split, requests that
no run fits. A hart that stops calling is no deadlock: a call can always be made.

Bounds of `Pipe`. A ring of two bytes holds one unread byte and is full with two: both the
promise and its end are met. Three processes are two readers and a writer, or two writers
and a reader, with a clone of both ends. `MaxBytes` bounds what is written, `MaxCount` the
count of a call; `FewKills` in `MCPipe` lets `sys_kill` be called only while the pipe is intact
and for a process in a read, which is the only one that the call moves (a signal without any
other effect only for one that `P` has turned away). A call of more than one
byte is in the one-hart run, as is the wrap of the ring past its end with bytes received from it. `lost` and `sent` are bounded by these. The
theorems cover every size.

Bounds of `Files`. Two slots with one standard descriptor make the pool run full; two
processes and three descriptors have every sharing of one end or path; two mounts, one of
them the root, give the fall back to the root. `Small` in `MCFiles` bounds the descriptors of
all processes and what is lost by `MaxOpen`, and keeps pipes, which share no state with files,
apart from the second file system, from what is lost and from the calls that only look. The theorems have none of these bounds but one hart.

Bounds of `Vmm`. `MCPrograms` has one program with a page of code and a page of data, so that
a clone shares one and copies the other; three pages are enough for a parent and a child, and
run out with any growth. `Small` follows a process up to the point where it has unmapped a
part of its program, and lets both processes together have `MaxAreas` areas beside their
programs. `MapTop`, `MaxBrk`, `MaxLen` keep the heap, the mapped area and the stack apart as
`MAP_LOW` does. With one more page the run does not end in reasonable time; the theorems
cover every size, any set of programs, and areas of every length.

### The violations

`WaitReturns` on two harts: `P` (sem.c:17) unlocks the semaphore before `sleep` puts the
process on `sleep_list`. The `V` of an exiting child in between finds the value negative and
nobody to wake; the next exit finds the value 0 and does not try. The parent sleeps on for
good with two dead children. Of `P`, `V`, `sleep` and `wakeup` as such, `CreditNeverForged` and
`CountingSemaphores` show that this is all that can go wrong: wakeups get lost, but nobody
passes without a credit. `sys_kill`, which is not in `Sched`, does take a sleeper past `P`
without one (procsyscall.c:748-757); for the readers of a pipe it is in `Pipe`.

`FreedIsDone`: `sys_exit` sets `PROC_DEAD` first (procsyscall.c:402). A parent on the other
hart that sees it dead frees the block while the child is still in `sys_exit`, using it and
its kernel stack: in the trace by the default action of a SIGCHLD, as well by wait4 or by the
parent's own exit. On one hart the property holds (`life_one_hart`), because `sys_exit` does
not leave its hart.

`CopiedOnWrite`: a clone shares the executable parts of a program read-only. A write fault
on such a page takes the page that is mapped, copies it onto itself and makes it
writable (vmm.c:459), where README.md:200 of the repository says that a new page is
allocated and copied. Parent and child then write to one page, and both free it.

### What the models say without a run

Steps of the code whose outcome is undefined are steps of the models (`SwitchWild`,
`Corrupt`, `"lost"`, `"stuck"`), after which nothing is claimed. The most important:

* `_move_switch` (switch.S:74-79) unlocks `list_lock` and then loads from its stack frame;
  another hart can dispatch the process in that window and run on the same kernel stack
  (`stale` in `Sched`).
* `sys_kill` moves a process that was asleep when it looked (procsyscall.c:748). If another
  hart has woken and dispatched it since, it is linked on `ready_list` while it runs
  (`KillsRunner` in `Pipe`). And `list_lock` before `p->lock` is the opposite of the order of
  `sleep`: both harts may wait for good (`KillLock` against `ReadLink`). On one hart neither
  happens (`PipeKillsSleepers`).
* `sys_exit` sets `child->parent = NULL` for the children it hands to its parent
  (procsyscall.c:413); their own exit locks through a null pointer (`OrphanExit`).
* The default action of SIGCHLD and wait4(WNOHANG) free a child without taking its credit, so
  wait4(-1) may scan once too often, and wait4(pid) gives a credit back and takes it again,
  spinning on its hart until that child exits.
* `alloc_pages` puts the rest of a run it splits at the head of the list (page.c:92), out of
  the order of addresses by which `free_pages` merges: free neighbours may stay unmerged, and
  a request for all the pages fail although all are free. Safety does not suffer.
* With two harts two opens can be given one file slot, since `vfs_file_alloc` (vfs_file.c:31)
  does not reserve it, and a file system can be unmounted between the search for its inode and
  the count of the new user. `SlotsHaveOneOwner`, `CountsMatch` and `Isolated` are for one hart,
  where nothing comes in between; TLC refutes each of them with `HartNum = 2`.
* A reader that sleeps when the last writer closes is not woken (pipe.c:77), nor is one whose
  byte another reader takes: `EndReached` has the premise that excludes them.

## 5. Fairness

`Kernel(h)` is weakly fair: a hart keeps executing, but a test-and-set lock may lose
every race for a lock that is released again and again. The timer interrupt is weakly
fair in user mode. `HandlerReturns` is strongly fair: a system call makes finitely many
calls of `P` and `V`, unless it stays in the kernel for ever. `Tick` is strongly fair:
`last_timer` of a hart that goes on is reached again and again. `DeadlinePasses` is weakly
fair: time passes.

The code has calls that never return, and fairness does not deny them. `sys_times` does not
advance in the list of children (procsyscall.c:459-467): a caller with a child spins in the
kernel with its lock held. `set_next_time` stops its hart at tick 16500 (timer.c:23-30), a
clone without a working directory and a breakpoint do at once. `Times` and `Hang` take a hart
there from any state from which the code can, without any fairness against it, and the
properties say what is left:

* `ReadyRuns` has the premise `SomeHartGoesOn`: a ready process is dispatched although the
  other hart is caught, whatever lock it took with it.
* `WaitEnds` has the premise `AllHartsGoOn`. If the hart with process 0 is caught, the other one
  can run out of ready processes; it then waits in `scheduler()`, which does not look at
  `wait_list`, and every timed wait lasts for ever. TLC refutes `WaitEnds` with
  `SomeHartGoesOn` alone.
* `ReadyRuns` also has the premise `ExecvesEnd`: `sys_execve` gives the process a new slice, so a
  program that executes programs without end never leaves its hart.
* Both have the premise `NeverWild`: after a jump through a corrupted kernel stack nothing
  can be promised.

The loop of `wait4` for a given pid, which can spin as well, is in `ProcLife`.

In `ProcLife` the code of a process in the kernel is weakly fair: it runs until it waits.
`Resume` is strongly fair: a woken process is on `ready_list` and is dispatched in the end
(`ReadyRuns` of `Sched`). Nothing makes a process make a system call, take a trap or exit.
`WaitReturns` assumes `NothingBroken` (no undefined behaviour so far, no
clone that hangs, no orphan that exits), and that nobody waits for a given
pid (`NoWaitForPid`), because such a wait can spin. `sys_times` is not a call of this module:
a parent that spins there is outside what `WaitReturns` says.

`Pipe` is the same: `Kernel(p)` is weakly fair and `ReadResume` strongly. Both of its
liveness properties are for one hart: on two a wakeup can be lost as above. No reader is
obliged to read and no writer to write. `Files` and `Vmm` have no liveness: each call ends
after finitely many steps, or is one step.

## 6. Proofs

The constants are finite sets of harts, processes and semaphores of any size; the
assumptions only say that process 0 and process 1 are two processes and that the
"none" values are outside the sets (and, in `ProcLife`, that there are at least one hart
and two pids). Theorems for one hart say so in their statement (`CpuN = 1`, `HartNum = 1`,
`Cardinality(Harts) = 1`); that the same may fail on two is the point of them. Liveness
(`ReadyRuns`, `WaitEnds`, `WaitReturns`, `SleeperServed`, `EndReached`) is out of the
prover's reach and stays with TLC; of the last three the theorems give the part that
is about states.

`SchedProofs`:

* `IInv == TypeOK /\ LockDiscipline /\ Ownership /\ StatusMatches` is inductive.
  `Ownership` alone is not: that `MoveToList` does not link a process twice needs the
  status to name the list and the hart to hold the process; that `Dispatch` does not give
  a process to a second hart needs it to be picked, off all lists; both come from
  `TypeOK` and `StatusMatches`. One lemma per action that moves a process
  (`PickPlaces` ... `ClonePlaces`), two for all the others (`QuietStep`, `GiveUpStep`).
* `WakeupsInOrder` adds an invariant of the scan: everything before its cursor sleeps on
  another semaphore. It is preserved because `list_lock` keeps other harts from
  changing `sleep_list` during the scan (`LockDiscipline`) and because `SleepOn` only
  writes the channel of a process that is on no list (`Ownership`).

`SemProofs`: `CreditSafe` strengthens `CreditNeverForged` by counting: the value of a
semaphore and its waiters, with each `V` that has decided to wake counted on one side.
`SemaphoresImplemented` maps every action to `Post`, `Pass`, `TurnAway`, `Grant` or a
stutter of `CountingSemaphore`. `SemCounts` lists what a step does to one semaphore in
numbers. On one hart the count is exact, `OneHartNoWakeupLost`: the waiter that `V`
counted has no hart to be on its way to `sleep_list`, so it is there, and the scan of
`WakeupsInOrder` cannot miss it. `OneHartStacksOwned`: on one hart the premise `NeverWild` of
the liveness properties holds by itself.

`LifeProofs`: `IInv` is inductive. Beside the stated properties it has `CloneOK` (a
process in `sys_clone` has one new block of its own, linked nowhere, and nobody points to a
block that has not started), `IdleOK` (process 0 never exits, so pid 0 is never freed),
`ParentRead` (a process in `sys_exit` that has not been freed still has the parent it read,
or none) and `Acyclic`
(parent pointers, and the parent that `sys_exit` read, never lead back), of which
`NoLockCycle` is a consequence. `FamilyTree` needs `CloneOK`: a block in use that is on no
list must be one being created. `DeadAnnounced` needs `PidTable`, since signals name pids
and pids are reused, and `ParentRead`, since an exiting process must signal the parent
whose list it is on. `Effects` sorts all actions into five kinds (quiet, removal of one
child, the two halves of clone, the family step of exit), so that each part of the
invariant is proved for five cases.

Four more parts of `IInv` are about credits, harts and lists:

* `ZombiesHaveCredit` (`ZombiesCredited`) counts dead children against the value of the
  semaphore and the credit in hand of a process past `P`. It needs `CreditSign` (only a
  sleeper has a negative value, and never below -1) and `WakeOwed` (who is to wake a
  process alone raised its value to 0). A child becomes a zombie for this count with the
  step that posts its credit, so only the reaping of children that are still in
  `sys_exit` has to be excluded: such a child runs freed, and then the property makes no
  claim, and it makes none ever after, because what runs freed stays so or ends the
  behaviour (`FreedRunsOn`).
* `HartsBounded` says that `HartFree` does what it is for: at most `CpuN` processes are in
  the kernel. On one hart the process that frees another one is alone there, so the other
  has left `sys_exit`: `FreedAfterExit`.
* `KeptFromOutside` is to child lists what `Acyclic` is to parent pointers. With
  `FamilyTree` it makes the lists one tree (`FamilyIsTree`): an orphan handed to its
  grandparent never ends up below itself, and nobody is left on the list of a process that
  is gone.
* `OneHartWakes` is the safety part of `WaitReturns` on one hart: a parent sleeps only
  while none of its children can be reported, or one of them is about to wake it. There
  the value stays -1 from the decrement in `P` to the post (`SleepOwed`), because no
  child runs between the decrement and `sleep`. TLC finds the state that breaks it on two
  harts (`life_wait_hangs`). `OneHartFamily` collects what loses its premise on one hart.

`LifeIsTree` is the refinement. The keeper of a process is the one whose list it is on;
that `ExitFamily` hands the living children to the keeper, when the code uses the parent it
read, is `ParentRead` with `FamilyTree`. `Corrupt` and the steps in the middle of calls are
stutters.

`PageProofs`: `PageInvariant` is the conjunction of the properties of `pages_safety` and
`CallsMeanPages` (a call waiting for the lock is about at least one page), for any memory
in which at least one page is not reserved (`PageAssumption`). The parts need each other: that `FreeMark` runs over
all its pages, so that none is lost, is `FlagsTell`; that a run put back does not overlap
another is `OnePageOneOwner`; that `page_num` stays exact is `OnePageOneOwner` again,
with the cardinalities of intervals. `TakeFromRun` and `JoinRuns` say what splitting and merging
do to the set of runs. Neither uses the order of the list: safety does not depend on the
place where a run is linked, which is why the fault above stays harmless.
`PagesImplementPool` is the refinement, step by step.

`FlagsAreTrue` adds that the flags of pages tell who has them.

`PipeProofs`: `PipeTypes`, `PipeSleepers`, `PipeRefs` are inductive each with what it needs
of the ones before; `PipeCredits` counts: the unread bytes against the value of the
semaphore and the processes on their way through `P` and `V`, by one lemma that moves a
process between these sets. `PipeSelect` follows from the credits and the positions.
`PipeIsChannel` needs the ring invariant: as long as the pipe is intact, the unread bytes lie
from `r_pos` on, in the order of their numbers, and the two positions are equal exactly when
none is unread. `PipeEndIsFinal`: who was told the end was told it after the last byte, and
since an end is only ever copied from a descriptor, no writer comes back.

`PipeSleepers` holds with every step of another process between the test and the move of
`sys_kill`, up to the kill that moves a runner. `PipeKillsSleepers`: with one hart nobody can
come in between, so the process still sleeps, and neither that nor the deadlock of the lock
orders can happen.

`PipeServesSleepers` is the safety part of `SleeperServed` and `EndReached`, on one hart and
without signals. The readers that were turned away are exactly those that the negative value
counts and those a wakeup is on its way to (`Counted`), because the only process on the
hart finds the sleeper it wakes; with the balance of credits and bytes, every unread byte
is on its way to a reader as long as one sleeps, and a read after the last close finds its
byte in the semaphore or the end. On two harts TLC refutes both.

`FilesProofs`, for one hart (`HartNum = 1`): the inductive invariant has a part on the data
(every used slot, directory and pipe end has one place, or is the slot a process has chosen)
and a part on control (only one process is in the kernel, its `todo` names places that are
empty, the place it fills is its own or that of a child that has not started). From it
follow the one owner of a slot, or none of what is `leaked` (`FilesSlots`), the counters (`FilesUsers`,
`FilesPipes`, `FilesCounted`) and the isolation of descriptors (`FilesIsolated`). That two steps of one open are not disturbed is where
one hart is needed.

`VmmProofs`, for careful programs (`Careless = {}`) and any number of processes, pages and
programs: the invariant is `TypeOK`, `AreasApart`, that a process without a program has no
memory, that files have areas of one page, that mapped pages lie in areas, that each page has
one owner and only borrowers beside it (`Owned`), and that a mapped page of the program
holds its image unless it is writable. Each action is shown to preserve it and to be a step
of `VirtualMemory` or a stutter in one lemma, since both come from the same case analysis.

## 7. Not modelled

* FatFs (`fatfs/ff.c`, `ffunicode.c`), the K210 drivers (`fpioa.c`, `sysctl.c` and their
  headers) are vendored code and tables, and three quarters of the lines of the repository.
  They are single-threaded library code and register access.
* Signals beyond SIGCHLD and the effect of a kill on a pipe, the unlock at intr.c:244, the
  small-object allocator, the console ring and the boot handshake: the plan has them, no module does.
* In `Vmm`: the pages of page tables, `copy_kpgt`, `sys_mprotect` (which returns at once),
  the TLB. In `Files`: what the file systems do, `unlink`, `mkdir`, `stat`, positions of files.
* The value of the tick counter of timer.c:23-30: its stop may come at any tick (`Hang`).
* In `ProcLife`, what a second hart meets between the two steps of `new_proc` (a number, then a
  block in `pids[]`) or of `free_process_struct` (the pid, then the block): each pair is one step.
* All models stop after undefined behaviour; what a kernel with corrupted memory does has no
  meaning to check.
