-------------------------------- MODULE Files --------------------------------
(***************************************************************************)
(* The descriptor tables of the processes over the file slots, directories *)
(* and mounted file systems of the VFS: os/kernel/fs.c with vfs/vfs.c,     *)
(* vfs_file.c, vfs_inode.c and vfs_fs.c, and the parts of sys_clone,        *)
(* sys_execve and sys_exit that open and close files.                      *)
(*                                                                         *)
(* A call that opens something has a list of things to open; opening a     *)
(* file slot takes two steps, the choice of a free slot and the store that *)
(* makes it used, because nothing locks the pool in between.  A process in *)
(* a call keeps its hart: none of these calls sleeps.                      *)
(***************************************************************************)
EXTENDS Integers, FiniteSets

CONSTANTS
    Procs,
    HartNum,    \* CPU_N
    StdNum,     \* the standard descriptors: 3 in the code
    SlotNum,    \* VFS_FILE_OPEN_MAX
    MaxFd,      \* bound: the largest descriptor; the code has no limit
    Blocks,     \* the memory that kmalloc has for open directories
    Pipes,      \* the memory that it has for pipes
    Mounts,     \* the names of file systems, mounted or not
    Root,       \* the one of them that other paths fall back to
    Names,      \* bound: the paths that the processes use
    Dev,        \* the character devices /dev/stdin, /dev/stdout and /dev/stderr
    NULL

Slots == 0 .. SlotNum - 1
Inodes == Mounts \cup {Dev}
Fds == 0 .. MaxFd

\* The other places where a process keeps what it has opened: p->kfd, p->cwd,
\* kfd and cwd in the new_proc of sys_execve, and the local variable of a call
\* that closes again what it opens.  Nowhere is where nobody will find it: the
\* vma->file that sys_clone opens, or the descriptor that could not be allocated.
\* A call fills its places in ascending order.
Kfd == -6
Cwd == -5
Nowhere == -4
NewKfd == -3
NewCwd == -2
Local == -1
Places == Fds \cup {Kfd, Cwd, NewKfd, NewCwd, Local}

Files == {"std", "file"}        \* UTYPE_STDIN, STDOUT and STDERR; UTYPE_FILE
Ends == {"in", "out"}           \* UTYPE_PIPEIN, UTYPE_PIPEOUT

Entry(type, obj) == [type |-> type, obj |-> obj]
NoKfd == Entry("none", 0)       \* kfd = 0, which new_proc sets: no program file
Item(at, type, what) == [at |-> at, type |-> type, what |-> what]

Entries ==
    {Entry(type, s) : type \in Files, s \in Slots} \cup {Entry("dir", b) : b \in Blocks}
    \cup {Entry(end, c) : end \in Ends, c \in Pipes} \cup {NoKfd}

Items ==
    {Item(x, type, i) : x \in Places, type \in Files \cup {"dir"}, i \in Inodes}
    \cup {Item(x, end, c) : x \in Places, end \in Ends, c \in Pipes}
    \cup {Item(Nowhere, type, i) : type \in {"file", "dir"}, i \in Inodes}

ASSUME FilesAssumption ==
    /\ IsFiniteSet(Procs)
    /\ HartNum \in Nat \ {0}
    /\ StdNum \in Nat \ {0} /\ SlotNum \in Nat /\ StdNum <= SlotNum
    /\ MaxFd \in Nat /\ StdNum <= MaxFd + 1
    /\ IsFiniteSet(Blocks) /\ IsFiniteSet(Pipes)
    /\ Root \in Mounts /\ Names \subseteq Mounts /\ Dev \notin Mounts
    /\ NULL \notin Inodes \cup Blocks \cup Int \cup Entries

\* So that leaked can name both.
ASSUME SlotsAreNoBlocks == Slots \cap Blocks = {}

VARIABLES
    held,       \* the ufile_t at a place: its type and what private points to
    ino, path,  \* the inode and relative_path of a slot; inode NULL if it is free
    dino, dpath,    \* the same of an open directory
    refs,       \* inode->refs, 0 for a name without an inode
    r_ref, w_ref,   \* of a pipe
    live,       \* the pipes that have been allocated and not freed
    pc,         \* where p is: "none", "new", "user", "call", "store", "abandon",
                \* "exit", "dead", "stuck" if it never leaves the kernel again, or
                \* "lost", as all are when freed memory was used: the model stops
    todo,       \* what the call of p still has to open: type, path or pipe, place
    target,     \* whose places it fills
    chosen,     \* vfs_open: the slot it has chosen, before its inode is stored
    found,      \* vfs_open: the inode of the path
    dangling,   \* the cwd that a dead process still points to after closing it
    leaked      \* history: slots and directories that nobody holds any more and
                \* that are still open

slotVars == <<ino, path>>
dirVars == <<dino, dpath>>
pipeVars == <<r_ref, w_ref, live>>
callVars == <<todo, target, chosen, found>>
vars == <<held, slotVars, dirVars, refs, pipeVars, pc, callVars, dangling, leaked>>

\* init_stdfiles and init_process: the first process.
Init ==
    \E first \in Procs, b \in Blocks :
        /\ held = [p \in Procs |-> [x \in Places |->
                    IF p = first /\ x \in 0 .. StdNum - 1 THEN Entry("std", x)
                    ELSE IF p = first /\ x = Cwd THEN Entry("dir", b)
                    ELSE IF p = first /\ x = Kfd THEN NoKfd
                    ELSE NULL]]
        /\ ino = [s \in Slots |-> IF s < StdNum THEN Dev ELSE NULL]
        /\ path = [s \in Slots |-> IF s < StdNum THEN Dev ELSE NULL]
        /\ dino = [c \in Blocks |-> IF c = b THEN Root ELSE NULL]
        /\ dpath = [c \in Blocks |-> IF c = b THEN Root ELSE NULL]
        /\ refs = [i \in Inodes |-> IF i = Dev THEN 1 + StdNum ELSE IF i = Root THEN 2 ELSE 0]
        /\ r_ref = [c \in Pipes |-> 0] /\ w_ref = [c \in Pipes |-> 0]
        /\ live = {}
        /\ pc = [p \in Procs |-> IF p = first THEN "user" ELSE "none"]
        /\ todo = [p \in Procs |-> {}]
        /\ target = [p \in Procs |-> p]
        /\ chosen = [p \in Procs |-> NULL]
        /\ found = [p \in Procs |-> NULL]
        /\ dangling = [p \in Procs |-> NULL]
        /\ leaked = {}

InKernel == {"call", "store", "abandon", "exit", "stuck"}
HartFree == Cardinality({p \in Procs : pc[p] \in InKernel}) < HartNum
CanCall(p) == pc[p] = "user" /\ HartFree

Goto(p, label) == pc' = [pc EXCEPT ![p] = label]
Lost == pc' = [p \in Procs |-> "lost"]

-----------------------------------------------------------------------------
(* Inodes *)

\* vfs_inode_find: the mount with the longest name that the path begins with.
Resolve(name) ==
    IF refs[name] > 0 THEN name
    ELSE IF name \in Mounts /\ refs[Root] > 0 THEN Root
    ELSE NULL

\* vfs_fs_mount and sys_mount, of what is not mounted.
Mount(p, m) ==
    /\ CanCall(p)
    /\ refs[m] = 0
    /\ refs' = [refs EXCEPT ![m] = 1]
    /\ UNCHANGED <<held, slotVars, dirVars, pipeVars, pc, callVars, dangling, leaked>>

\* A variant of Busy: off by one, a single user does not count.
BusyTwice(m) == refs[m] > 2

\* vfs_inode_is_busy
Busy(m) == refs[m] > 1

\* vfs_fs_umount and sys_umount2: vfs_inode_release drops the last reference.
Umount(p, m) ==
    /\ CanCall(p)
    /\ refs[m] > 0 /\ ~Busy(m)
    /\ refs' = [refs EXCEPT ![m] = 0]
    /\ UNCHANGED <<held, slotVars, dirVars, pipeVars, pc, callVars, dangling, leaked>>

-----------------------------------------------------------------------------
(* Closing what is at a place *)

\* vfs_file_free.  A slot keeps its path when it is free; nobody looks at it but
\* sys_clone, for a parent with kfd = 0.
FreeFile(s) ==
    /\ ino' = [ino EXCEPT ![s] = NULL]
    /\ path' = [path EXCEPT ![s] = IF s = 0 THEN @ ELSE NULL]

\* vfs_inode_release, of an inode with users: vfs_inode_refdec stops at zero.
Unused(i) == refs' = [refs EXCEPT ![i] = IF @ > 0 THEN @ - 1 ELSE 0]

\* vfs_close: a free slot has no inode and is left alone.
CloseFile(s) ==
    \/ ino[s] # NULL /\ FreeFile(s) /\ Unused(ino[s])
    \/ ino[s] = NULL /\ UNCHANGED <<slotVars, refs>>

\* vfs_closedir, when the file system closes the directory.
CloseDir(b) ==
    /\ dino' = [dino EXCEPT ![b] = NULL]
    /\ dpath' = [dpath EXCEPT ![b] = NULL]
    /\ Unused(dino[b])

\* A variant of ClosePipe: one side without an end is enough to free the pipe.
ClosePipeEither(c, end) ==
    /\ r_ref' = [r_ref EXCEPT ![c] = IF end = "in" THEN @ - 1 ELSE @]
    /\ w_ref' = [w_ref EXCEPT ![c] = IF end = "out" THEN @ - 1 ELSE @]
    /\ live' = IF r_ref'[c] = 0 \/ w_ref'[c] = 0 THEN live \ {c} ELSE live

\* pipe_close
ClosePipe(c, end) ==
    /\ r_ref' = [r_ref EXCEPT ![c] = IF end = "in" THEN @ - 1 ELSE @]
    /\ w_ref' = [w_ref EXCEPT ![c] = IF end = "out" THEN @ - 1 ELSE @]
    /\ live' = IF r_ref'[c] = 0 /\ w_ref'[c] = 0 THEN live \ {c} ELSE live

\* What is at the place is closed, by its type.  A slot or a directory stays open
\* when the file system reports an error; so does slot 0 at kfd, where it stands
\* for none, and in sys_mkdirat, which takes it for a failure.
Release(p, x) ==
    LET e == held[p][x] IN
    \/ /\ e.type \in Files /\ ~(x = Kfd /\ e.obj = 0)
       /\ CloseFile(e.obj)
       /\ UNCHANGED <<dirVars, pipeVars, leaked>>
    \/ /\ e.type \in {"file", "dir"}
       /\ leaked' = leaked \cup {e.obj}
       /\ UNCHANGED <<slotVars, refs, dirVars, pipeVars>>
    \/ /\ e.type = "dir"
       /\ CloseDir(e.obj)
       /\ UNCHANGED <<slotVars, pipeVars, leaked>>
    \/ /\ e.type \in Ends
       /\ ClosePipe(e.obj, e.type)
       /\ UNCHANGED <<slotVars, refs, dirVars, leaked>>
    \/ /\ e.type = "none"
       /\ UNCHANGED <<slotVars, refs, dirVars, pipeVars, leaked>>

CloseAt(p, x) ==
    /\ held[p][x] # NULL
    /\ held' = [held EXCEPT ![p][x] = NULL]
    /\ Release(p, x)

\* sys_close
Close(p, fd) ==
    /\ CanCall(p)
    /\ CloseAt(p, fd)
    /\ UNCHANGED <<pc, callVars, dangling>>

-----------------------------------------------------------------------------
(* The calls that open *)

OpenFds(p) == {fd \in Fds : held[p][fd] # NULL}
Lowest(S) == CHOOSE n \in S : \A k \in S : n <= k

\* ufile_alloc: the first gap behind the first descriptor in use.
Gaps(p) == {fd \in Fds \ OpenFds(p) : \E k \in OpenFds(p) : k < fd}
NewFd(p) == Lowest(Gaps(p))

Call(p, q, items) ==
    /\ Goto(p, "call")
    /\ todo' = [todo EXCEPT ![p] = items]
    /\ target' = [target EXCEPT ![p] = q]
    /\ UNCHANGED <<chosen, found>>

untouched == <<slotVars, dirVars, refs, pipeVars, leaked>>

\* sys_openat, of a file or a directory.
Open(p, type, name) ==
    /\ CanCall(p) /\ Gaps(p) # {}
    /\ Call(p, p, {Item(NewFd(p), type, name)})
    /\ UNCHANGED <<held, dangling, untouched>>

\* sys_openat opens the file or directory before ufile_alloc, which finds no place
\* in an empty list.  The stores to NULL have do_page_fault map a page at address 0,
\* and the process goes on without the descriptor.
OpenFault(p, type, name) ==
    /\ CanCall(p) /\ OpenFds(p) = {}
    /\ Call(p, p, {Item(Nowhere, type, name)})
    /\ UNCHANGED <<held, dangling, untouched>>

\* sys_mkdirat, sys_fstatat and sys_utimensat open a directory or a file only to
\* look at it.  sys_mkdirat tries for a directory and then for a file, which are
\* two of these calls.
Look(p, type, name) ==
    /\ CanCall(p)
    /\ Call(p, p, {Item(Local, type, name)})
    /\ UNCHANGED <<held, dangling, untouched>>

\* What was opened to be looked at is closed.
LookDone(p) ==
    /\ pc[p] = "call"
    /\ CloseAt(p, Local)
    /\ UNCHANGED <<pc, callVars, dangling>>

\* sys_openat of ".": when vfs_opendir fails the descriptor still gets its NULL,
\* which the next call with it will read.
OpenDotFails(p) ==
    /\ CanCall(p) /\ Gaps(p) # {}
    /\ Lost
    /\ UNCHANGED <<held, callVars, dangling, untouched>>

\* What it takes to have e at place x once more: a file or directory is opened
\* again by its path, a standard descriptor by its type, a pipe is shared.
Again(x, e) ==
    IF e.type \in Ends THEN Item(x, e.type, e.obj)
    ELSE IF e.type = "dir" THEN Item(x, "dir", dpath[e.obj])
    ELSE Item(x, IF e.type = "std" THEN "std" ELSE "file", path[e.obj])

\* sys_dup, and F_DUPFD of sys_fcntl.
Dup(p, fd) ==
    /\ CanCall(p) /\ held[p][fd] # NULL /\ Gaps(p) # {}
    /\ Call(p, p, {Again(NewFd(p), held[p][fd])})
    /\ UNCHANGED <<held, dangling, untouched>>

\* sys_dup2: what was at fd2 is closed first, also when it is fd itself.
Dup2(p, fd, fd2) ==
    /\ CanCall(p) /\ held[p][fd] # NULL
    /\ Call(p, p, {Again(fd2, held[p][fd])})
    /\ \/ CloseAt(p, fd2)
       \/ /\ held[p][fd2] = NULL
          /\ \E k \in OpenFds(p) : k < fd2
          /\ UNCHANGED <<held, untouched>>
    /\ UNCHANGED dangling

\* sys_pipe2: two descriptors, the second allocated when the first is in the list.
Pipe2(p, c) ==
    /\ CanCall(p) /\ c \notin live
    /\ Cardinality(Gaps(p)) > 1
    /\ LET r == NewFd(p)
           w == Lowest(Gaps(p) \ {r})
       IN  held' = [held EXCEPT ![p][r] = Entry("in", c), ![p][w] = Entry("out", c)]
    /\ r_ref' = [r_ref EXCEPT ![c] = 1] /\ w_ref' = [w_ref EXCEPT ![c] = 1]
    /\ live' = live \cup {c}
    /\ UNCHANGED <<slotVars, dirVars, refs, pc, callVars, dangling, leaked>>

\* sys_chdir
Chdir(p, name) ==
    /\ CanCall(p)
    /\ Call(p, p, {Item(NewCwd, "dir", name)})
    /\ UNCHANGED <<held, dangling, untouched>>

\* sys_execve: create_proc_by_elf opens the program and its directory.
Exec(p, name) ==
    /\ CanCall(p)
    /\ Call(p, p, {Item(NewKfd, "file", name), Item(NewCwd, "dir", name)})
    /\ UNCHANGED <<held, dangling, untouched>>

\* sys_clone opens for the child what is at every place of the parent, and once
\* more a file that is mapped, which nobody will close.
ForChild(p, mapped) ==
    {Again(x, held[p][x]) : x \in {y \in Places : held[p][y] # NULL}}
    \cup {Item(Nowhere, "file", name) : name \in mapped}

MakeChild(p, q, items) ==
    /\ CanCall(p) /\ pc[q] = "none"
    /\ pc' = [pc EXCEPT ![p] = "call", ![q] = "new"]
    /\ todo' = [todo EXCEPT ![p] = items]
    /\ target' = [target EXCEPT ![p] = q]
    /\ UNCHANGED <<held, chosen, found, dangling, untouched>>

Clone(p, q, mapped) ==
    /\ held[p][Kfd] # NULL
    /\ MakeChild(p, q, ForChild(p, mapped))

\* The kfd of the parent is -1, of a program that sys_clone could not open again.
\* The path of the file NULL is what the process has at address 0, where
\* do_page_fault maps a page if there is none.
CloneFault(p, q, name, mapped) ==
    /\ held[p][Kfd] = NULL
    /\ MakeChild(p, q, ForChild(p, mapped) \cup {Item(Kfd, "file", name)})

-----------------------------------------------------------------------------
(* The course of a call *)

\* The next thing to open: kfd, cwd and what is mapped before the descriptors.
Next1(p) == CHOOSE i \in todo[p] : \A j \in todo[p] : i.at <= j.at

Opening(p, types) == pc[p] = "call" /\ todo[p] # {} /\ Next1(p).type \in types
Done(p, i) == todo' = [todo EXCEPT ![p] = @ \ {i}]

\* A program that cannot be opened ends sys_execve, a working directory that
\* cannot be opened keeps sys_clone in a loop; all else is left out.
NotOpened(p) ==
    LET i == Next1(p) IN
    /\ todo' = [todo EXCEPT ![p] = IF i.at = NewKfd THEN {} ELSE @ \ {i}]
    /\ Goto(p, IF i.at = Cwd THEN "stuck" ELSE "call")
    /\ UNCHANGED <<held, target, found, dangling, slotVars, dirVars, refs, pipeVars, leaked>>

FreeSlots == {s \in Slots : ino[s] = NULL}

\* vfs_open, up to vfs_file_alloc: no inode, or no slot.
OpenFails(p) ==
    /\ Opening(p, Files)
    /\ Resolve(Next1(p).what) = NULL \/ FreeSlots = {}
    /\ NotOpened(p)
    /\ UNCHANGED chosen

\* vfs_file_alloc returns a slot that nobody has stored an inode in.
Choose(p) ==
    /\ Opening(p, Files)
    /\ Resolve(Next1(p).what) # NULL /\ FreeSlots # {}
    /\ chosen' = [chosen EXCEPT ![p] = Lowest(FreeSlots)]
    /\ found' = [found EXCEPT ![p] = Resolve(Next1(p).what)]
    /\ Goto(p, "store")
    /\ UNCHANGED <<held, todo, target, dangling, untouched>>

\* A variant of Placed: sys_clone fills the places of the caller.
PlacedOwn(p, i, obj) ==
    IF i.at = Nowhere
    THEN leaked' = leaked \cup {obj} /\ UNCHANGED held
    ELSE held' = [held EXCEPT ![p][i.at] = Entry(i.type, obj)] /\ UNCHANGED leaked

\* The place points to what was opened.
Placed(p, i, obj) ==
    IF i.at = Nowhere
    THEN leaked' = leaked \cup {obj} /\ UNCHANGED held
    ELSE held' = [held EXCEPT ![target[p]][i.at] = Entry(i.type, obj)] /\ UNCHANGED leaked

\* vfs_open, the rest: the slot gets its inode and the file system opens the file.
Store(p) ==
    LET i == Next1(p)
        s == chosen[p]
    IN
    /\ pc[p] = "store"
    /\ ino' = [ino EXCEPT ![s] = found[p]]
    /\ path' = [path EXCEPT ![s] = i.what]
    /\ refs' = [refs EXCEPT ![found[p]] = @ + 1]
    /\ Placed(p, i, s)
    /\ Done(p, i)
    /\ Goto(p, "call")
    /\ chosen' = [chosen EXCEPT ![p] = NULL]
    /\ found' = [found EXCEPT ![p] = NULL]
    /\ UNCHANGED <<target, dangling, dirVars, pipeVars>>

\* The file system cannot open the file: vfs_file_free.  Devices can be opened.
StoreFails(p) ==
    /\ pc[p] = "store" /\ found[p] # Dev
    /\ ino' = [ino EXCEPT ![chosen[p]] = NULL]
    /\ path' = [path EXCEPT ![chosen[p]] = IF chosen[p] = 0 THEN Next1(p).what ELSE NULL]
    /\ chosen' = [chosen EXCEPT ![p] = NULL]
    /\ found' = [found EXCEPT ![p] = NULL]
    /\ LET i == Next1(p) IN
       todo' = [todo EXCEPT ![p] = IF i.at = NewKfd THEN {} ELSE @ \ {i}]
    /\ Goto(p, "call")
    /\ UNCHANGED <<held, target, dangling, dirVars, refs, pipeVars, leaked>>

\* vfs_opendir, which can always fail.
OpenDirFails(p) ==
    /\ Opening(p, {"dir"})
    /\ ~(Next1(p).at = NewCwd /\ held[p][NewKfd] # NULL)
    /\ NotOpened(p)
    /\ UNCHANGED chosen

\* create_proc_by_elf does not look whether it did: cwd is NULL from then on.
ExecWithoutDir(p) ==
    /\ Opening(p, {"dir"})
    /\ Next1(p).at = NewCwd /\ held[p][NewKfd] # NULL
    /\ Lost
    /\ UNCHANGED <<held, callVars, dangling, untouched>>

\* vfs_opendir: b is the memory that kmalloc returned.
OpenDir(p, b) ==
    LET i == Next1(p)
        inode == Resolve(i.what)
    IN
    /\ Opening(p, {"dir"})
    /\ inode # NULL /\ dino[b] = NULL
    /\ dino' = [dino EXCEPT ![b] = inode]
    /\ dpath' = [dpath EXCEPT ![b] = i.what]
    /\ refs' = [refs EXCEPT ![inode] = @ + 1]
    /\ Placed(p, i, b)
    /\ Done(p, i)
    /\ UNCHANGED <<pc, target, chosen, found, dangling, slotVars, pipeVars>>

\* A variant of MorePipe: the end is shared and not counted.
MorePipeUncounted(c, end) == UNCHANGED <<r_ref, w_ref>>

MorePipe(c, end) ==
    /\ r_ref' = [r_ref EXCEPT ![c] = IF end = "in" THEN @ + 1 ELSE @]
    /\ w_ref' = [w_ref EXCEPT ![c] = IF end = "out" THEN @ + 1 ELSE @]

\* The cases UTYPE_PIPEIN and UTYPE_PIPEOUT of dup, dup2 and clone.
SharePipe(p) ==
    LET i == Next1(p) IN
    /\ Opening(p, Ends)
    /\ i.what \in live
    /\ MorePipe(i.what, i.type)
    /\ Placed(p, i, i.what)
    /\ Done(p, i)
    /\ UNCHANGED <<pc, target, chosen, found, dangling, slotVars, dirVars, refs, live>>

\* dup2 of the last end to itself has freed the pipe that it shares now.
ShareFreed(p) ==
    /\ Opening(p, Ends)
    /\ Next1(p).what \notin live
    /\ Lost
    /\ UNCHANGED <<held, callVars, dangling, untouched>>

\* sys_chdir and sys_execve put the new at the place of the old, which is closed.
Replace(p, new, old) ==
    /\ pc[p] = "call" /\ todo[p] = {}
    /\ held[p][new] # NULL
    /\ new = NewCwd => held[p][NewKfd] = NULL
    /\ held' = [held EXCEPT ![p][old] = held[p][new], ![p][new] = NULL]
    /\ \/ held[p][old] # NULL /\ Release(p, old)
       \/ held[p][old] = NULL /\ UNCHANGED <<slotVars, dirVars, refs, pipeVars, leaked>>
    /\ UNCHANGED <<pc, callVars, dangling>>

\* create_proc_by_elf cannot read the program, before or after it has opened the
\* directory, and closes what it has opened.
Abandon(p) ==
    /\ pc[p] = "call"
    /\ held[p][NewKfd] # NULL
    /\ todo' = [todo EXCEPT ![p] = {}]
    /\ Goto(p, "abandon")
    /\ UNCHANGED <<held, target, chosen, found, dangling, untouched>>

AbandonClose(p, new) ==
    /\ pc[p] = "abandon"
    /\ new = NewCwd => held[p][NewKfd] = NULL
    /\ CloseAt(p, new)
    /\ UNCHANGED <<pc, callVars, dangling>>

\* The call returns; a child that it has made is ready.
Return(p) ==
    /\ pc[p] \in {"call", "abandon"} /\ todo[p] = {}
    /\ held[p][NewKfd] = NULL /\ held[p][NewCwd] = NULL /\ held[p][Local] = NULL
    /\ pc' = [pc EXCEPT ![p] = "user", ![target[p]] = "user"]
    /\ target' = [target EXCEPT ![p] = p]
    /\ UNCHANGED <<held, todo, chosen, found, dangling, untouched>>

-----------------------------------------------------------------------------
(* The end of a process *)

\* sys_exit, or kill_current
Exit(p) ==
    /\ CanCall(p)
    /\ Goto(p, "exit")
    /\ UNCHANGED <<held, callVars, dangling, untouched>>

\* free_ufile_list closes the descriptors in the order of the list.
ExitClose(p) ==
    /\ pc[p] = "exit" /\ OpenFds(p) # {}
    /\ CloseAt(p, Lowest(OpenFds(p)))
    /\ UNCHANGED <<pc, callVars, dangling>>

\* Then cwd is closed; the pointer to it stays.
ExitCwd(p) ==
    /\ pc[p] = "exit" /\ OpenFds(p) = {}
    /\ CloseAt(p, Cwd)
    /\ dangling' = [dangling EXCEPT ![p] = held[p][Cwd].obj]
    /\ UNCHANGED <<pc, callVars>>

\* Then kfd.
ExitKfd(p) ==
    /\ pc[p] = "exit" /\ OpenFds(p) = {} /\ held[p][Cwd] = NULL
    /\ CloseAt(p, Kfd)
    /\ UNCHANGED <<pc, callVars, dangling>>

ExitDone(p) ==
    /\ pc[p] = "exit" /\ \A x \in Places : held[p][x] = NULL
    /\ Goto(p, "dead")
    /\ UNCHANGED <<held, callVars, dangling, untouched>>

\* free_process_struct, called by the parent p: it closes the working directory
\* of the dead once more.  That does nothing as long as its memory is free; if the
\* first vfs_closedir failed, this one can succeed or fail again.
Reap(p, q) ==
    /\ CanCall(p) /\ pc[q] = "dead"
    /\ Goto(q, "none")
    /\ dangling' = [dangling EXCEPT ![q] = NULL]
    /\ \/ UNCHANGED <<dirVars, refs, leaked>>
       \/ /\ dangling[q] \in leaked
          /\ CloseDir(dangling[q])
          /\ leaked' = leaked \ {dangling[q]}
    /\ UNCHANGED <<held, callVars, slotVars, pipeVars>>

\* But by now the memory can be an open directory of another process.
ReapClosesOther(p, q) ==
    /\ CanCall(p) /\ pc[q] = "dead"
    /\ dangling[q] # NULL /\ dangling[q] \notin leaked
    /\ dino[dangling[q]] # NULL
    /\ Lost
    /\ UNCHANGED <<held, callVars, dangling, untouched>>

-----------------------------------------------------------------------------
Step(p) ==
    \/ \E m \in Mounts : Mount(p, m) \/ Umount(p, m)
    \/ \E n \in Names, type \in {"file", "dir"} :
          Open(p, type, n) \/ OpenFault(p, type, n) \/ Look(p, type, n)
    \/ \E n \in Names : Chdir(p, n) \/ Exec(p, n)
    \/ OpenDotFails(p) \/ LookDone(p)
    \/ \E fd \in Fds : Close(p, fd) \/ Dup(p, fd)
    \/ \E fd \in Fds, fd2 \in Fds : Dup2(p, fd, fd2)
    \/ \E c \in Pipes : Pipe2(p, c)
    \/ \E q \in Procs, mapped \in {{}} \cup {{n} : n \in Names} :
          Clone(p, q, mapped) \/ \E name \in Names \cup {Dev} : CloneFault(p, q, name, mapped)
    \/ OpenFails(p) \/ Choose(p) \/ Store(p) \/ StoreFails(p)
    \/ OpenDirFails(p) \/ ExecWithoutDir(p) \/ \E b \in Blocks : OpenDir(p, b)
    \/ SharePipe(p) \/ ShareFreed(p)
    \/ Replace(p, NewKfd, Kfd) \/ Replace(p, NewCwd, Cwd)
    \/ Abandon(p) \/ AbandonClose(p, NewKfd) \/ AbandonClose(p, NewCwd)
    \/ Return(p)
    \/ Exit(p) \/ ExitClose(p) \/ ExitCwd(p) \/ ExitKfd(p) \/ ExitDone(p)
    \/ \E q \in Procs : Reap(p, q) \/ ReapClosesOther(p, q)

Next == \E p \in Procs : Step(p)

Spec == Init /\ [][Next]_vars

-----------------------------------------------------------------------------
(* What the descriptor tables promise *)

\* Every variable keeps its type; the counters of inodes and pipes never go
\* below zero.
TypeOK ==
    /\ held \in [Procs -> [Places -> Entries \cup {NULL}]]
    /\ ino \in [Slots -> Inodes \cup {NULL}]
    /\ path \in [Slots -> Inodes \cup {NULL}]
    /\ dino \in [Blocks -> Inodes \cup {NULL}]
    /\ dpath \in [Blocks -> Inodes \cup {NULL}]
    /\ refs \in [Inodes -> Nat]
    /\ r_ref \in [Pipes -> Nat] /\ w_ref \in [Pipes -> Nat]
    /\ live \subseteq Pipes
    /\ pc \in [Procs -> {"none", "new", "user", "call", "store", "abandon", "exit",
                         "dead", "stuck", "lost"}]
    /\ todo \in [Procs -> SUBSET Items]
    /\ target \in [Procs -> Procs]
    /\ chosen \in [Procs -> Slots \cup {NULL}]
    /\ found \in [Procs -> Inodes \cup {NULL}]
    /\ dangling \in [Procs -> Blocks \cup {NULL}]
    /\ leaked \subseteq Slots \cup Blocks

\* The places of all processes that hold an entry of one of these types.
Holders(types, obj) ==
    LET E == {Entry(t, obj) : t \in types}
    IN  {h \in Procs \X Places : held[h[1]][h[2]] \in E}

\* On one hart a used slot is at exactly one place of one process, and a place
\* points to a used slot; the same of open directories.  What is open and at no
\* place was lost in one of the ways that Release, OpenFault and Clone name, and
\* is not taken for free memory either.  The clone of a whole table, a dup2 to
\* itself, a call that fails half way, an execve given up between its two files
\* and an exit all have to keep it (vfs_file_alloc, vfs_open, vfs_close).  Two
\* harts can break it: nothing locks the pool between Choose and Store.
SlotsHaveOneOwner ==
    /\ \A s \in Slots :
        LET owners == Holders(Files, s) IN
        IF s \in leaked THEN owners = {} /\ ino[s] # NULL
        ELSE \/ ino[s] = NULL /\ owners = {}
             \/ ino[s] # NULL /\ \E h \in owners : owners = {h}
    /\ \A b \in Blocks :
        LET owners == Holders({"dir"}, b) IN
        IF b \in leaked THEN owners = {} /\ dino[b] # NULL
        ELSE \/ dino[b] = NULL /\ owners = {}
             \/ dino[b] # NULL /\ \E h \in owners : owners = {h}

UsedSlots(i) == {s \in Slots : ino[s] = i}
UsedDirs(i) == {b \in Blocks : dino[b] = i}

\* The counter of a mounted inode, or of a device, is one more than what is open
\* on it, and nothing is open on what is not mounted: vfs_fs_umount, which goes
\* by the counter alone, never takes a file system away from its users.
UsersCounted ==
    \A i \in Inodes :
        \/ refs[i] = 1 + Cardinality(UsedSlots(i)) + Cardinality(UsedDirs(i))
        \/ refs[i] = 0 /\ UsedSlots(i) = {} /\ UsedDirs(i) = {}

\* r_ref and w_ref are the descriptors of the two ends in all processes, and a
\* pipe is freed when, and only when, the last of them is closed (pipe_close).
PipesCounted ==
    \A c \in Pipes :
        /\ r_ref[c] = Cardinality(Holders({"in"}, c))
        /\ w_ref[c] = Cardinality(Holders({"out"}, c))
        /\ c \in live <=> Holders(Ends, c) # {}

\* All counters by which something is freed or unmounted are right.
CountsMatch == UsersCounted /\ PipesCounted

Denotes(e) ==
    IF e = NULL THEN NULL
    ELSE IF e.type \in Files THEN <<ino[e.obj], path[e.obj]>>
    ELSE IF e.type = "dir" THEN <<dino[e.obj], dpath[e.obj]>>
    ELSE IF e.type \in Ends THEN e.obj \in live
    ELSE NULL

\* A descriptor that is not closed or replaced keeps denoting what it denotes,
\* whatever the process itself does elsewhere and all others do: the tables of
\* the processes are isolated from each other over one pool of slots.
Isolated ==
    [][\A p \in Procs, x \in Places :
        held[p][x] # NULL /\ held'[p][x] = held[p][x]
            => Denotes(held[p][x])' = Denotes(held[p][x])]_vars
=============================================================================
