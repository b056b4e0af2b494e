-------------------------------- MODULE Vmm --------------------------------
(***************************************************************************)
(* The memory of the processes: os/kernel/vmm.c with sys_brk, sys_mmap,    *)
(* sys_munmap and the memory part of sys_clone (procsyscall.c), and what   *)
(* init_process, create_proc_by_elf, execve and exit do to it.             *)
(*                                                                         *)
(* A process has a list of areas (struct vma) and a page table; an area is *)
(* given pages when they are first used.  Each call and each fault is one  *)
(* action: it touches the areas and the table of its own process and takes *)
(* and frees pages, and the page allocator is modelled in PageAlloc.       *)
(* Addresses are counted in pages.  The pages of the page tables           *)
(* themselves are not modelled.                                            *)
(***************************************************************************)
EXTENDS Integers, FiniteSets, Functions

CONSTANTS
    Procs,
    Pages,          \* the memory that alloc_pages has for the processes
    Top,            \* the last virtual page
    MapLow, MapTop, \* MAP_LOW, MAP_TOP
    Boot,           \* what init_process maps
    Programs,       \* bound: what execve can be called with
    MaxBrk,         \* bound: the last page of a heap; the code has no limit
    MaxLen,         \* bound: the pages of an mmap
    Prots,          \* bound: the protections that mmap is called with
    Data,           \* bound: what programs store
    Careless,       \* what programs do that the kernel does not cope with
    NoPte

Va == 0 .. Top
Zero == "zero"          \* a page that vm_alloc_pages has cleared
Image == "image"        \* what the program file, or exec, puts there
Old == "old"            \* what is left in a page that has been freed
Nothing == "nothing"    \* what is read where there is no area
Values == Data \cup {Zero, Image}

AllProts == SUBSET {"R", "W", "X"}
Types == {"PROG", "DATA", "BRK", "MMAP"}

\* struct vma: flag, vmoff, fsize, foff do not matter here.
Areas == [va : Va, size : 1 .. Top + 1, type : Types, prot : AllProts,
          clone : BOOLEAN, file : BOOLEAN]

Area(va, size, type, prot, file) ==
    [va |-> va, size |-> size, type |-> type, prot |-> prot, clone |-> FALSE, file |-> file]

Span(a) == a.va .. a.va + a.size - 1
Spans(A) == UNION {Span(a) : a \in A}
Apart(A) == \A a, b \in A : a # b => Span(a) \cap Span(b) = {}

\* A program: its areas, the pages that are loaded at once (arguments, stack,
\* sigreturn code), the page its heap begins in.  RISC-V has no pages that can be
\* written but not read.
IsProgram(g) ==
    /\ g \in [areas : SUBSET Areas, loaded : SUBSET Va, brk : Va]
    /\ Apart(g.areas) /\ g.loaded \subseteq Spans(g.areas) /\ Spans(g.areas) \subseteq Va
    /\ \A a \in g.areas :
        /\ ~ a.clone /\ ~ a.file
        /\ "W" \in a.prot => "R" \in a.prot
        /\ a.type # "PROG" => Span(a) \subseteq g.loaded

\* What a program may do only if it is Careless:
Kinds == {
    "share",    \* write to a page of code or arguments that another process maps too
    "leave",    \* exit, be killed, execve or unmap while another process maps such a page of it
    "file",     \* map more than one page of a file, or write to a page of one mapped for reading
    "jump"}     \* jump into a page of its program that is not executable

ASSUME VmmAssumption ==
    /\ Top \in Nat /\ MapLow \in Va /\ MapTop \in Nat /\ MaxBrk \in Va
    /\ MaxLen \in Nat \ {0} /\ MapTop + MaxLen <= Top + 2
    /\ Prots \subseteq AllProts \ {{}}
    /\ Careless \subseteq Kinds
    /\ Old \notin Data /\ Nothing \notin Data
    /\ \A g \in Programs \cup {Boot} : IsProgram(g)
    /\ NoPte \notin Pages
    /\ \A page \in Pages, prot \in AllProts, fork \in BOOLEAN :
            NoPte # [page |-> page, prot |-> prot, fork |-> fork]

VARIABLES
    pc,         \* "none", "user", "stuck" if its hart hangs in the kernel, or
                \* "lost", as all are after a null pointer was used: the model stops
    area,       \* p->vma_list_head, in the order of va
    pte,        \* p->pg_t: the page, its protection and PTE_F; NoPte without PTE_V
    brk, minbrk,    \* the pages of p->brk and p->minbrk
    free,       \* the pages that alloc_pages may give out
    mem         \* the content of a page

vars == <<pc, area, pte, brk, minbrk, free, mem>>

Ptes == [page : Pages, prot : AllProts, fork : BOOLEAN]
Pte(page, prot, fork) == [page |-> page, prot |-> prot, fork |-> fork]
NoTable == [v \in Va |-> NoPte]

\* find_vma: the area with the page in it; there is at most one.
At(p, v) == {a \in area[p] : v \in Span(a)}

Mapped(p) == {v \in Va : pte[p][v] # NoPte}

\* The pages that other processes map.
Elsewhere(p) == UNION {{pte[q][v].page : v \in Mapped(q)} : q \in Procs \ {p}}

\* The ways to take a page for each of the addresses in S, from vm_alloc_pages.
Supplies(S) == {f \in [S -> free] : IsInjective(f)}
NoSupply(S) == Cardinality(free) < Cardinality(S)

ProtAt(A, v) == (CHOOSE a \in A : v \in Span(a)).prot

\* The table of a new program whose loaded pages are f.
TableOf(g, f) ==
    [v \in Va |-> IF v \in g.loaded THEN Pte(f[v], ProtAt(g.areas, v), FALSE) ELSE NoPte]

Init ==
    \E p \in Procs, f \in {h \in [Boot.loaded -> Pages] : IsInjective(h)} :
        /\ pc = [q \in Procs |-> IF q = p THEN "user" ELSE "none"]
        /\ area = [q \in Procs |-> IF q = p THEN Boot.areas ELSE {}]
        /\ pte = [q \in Procs |-> IF q = p THEN TableOf(Boot, f) ELSE NoTable]
        /\ brk = [q \in Procs |-> 0]
        /\ minbrk = [q \in Procs |-> 0]
        /\ free = Pages \ Range(f)
        /\ mem = [g \in Pages |-> IF g \in Range(f) THEN Image ELSE Old]

Lost ==
    /\ pc' = [p \in Procs |-> "lost"]
    /\ UNCHANGED <<area, pte, brk, minbrk, free, mem>>

-----------------------------------------------------------------------------
(* Programs and faults *)

CanRun(p) == pc[p] = "user"
Refused(p, v, kind) == pte[p][v] # NoPte => kind \notin pte[p][v].prot

\* A program stores x.
Store(p, v, x) ==
    /\ CanRun(p)
    /\ ~ Refused(p, v, "W")
    /\ pte[p][v].page \in Elsewhere(p) => "share" \in Careless
    /\ mem' = [mem EXCEPT ![pte[p][v].page] = x]
    /\ UNCHANGED <<pc, area, pte, brk, minbrk, free>>

\* A variant of Backing: when there is no page, the null pointer is mapped.
BackingOrNull(p, v) ==
    IF pte[p][v] # NoPte THEN {pte[p][v].page} ELSE IF free = {} THEN {NoPte} ELSE free

\* do_page_fault uses the page that is mapped or takes a new one.
Backing(p, v) == IF pte[p][v] # NoPte THEN {pte[p][v].page} ELSE free

\* A load or store by p at v is refused.
Fault(p, v) ==
    /\ CanRun(p)
    /\ \E kind \in {"R", "W"} : Refused(p, v, kind)
    /\ pte[p][v] # NoPte /\ pte[p][v].page \in Elsewhere(p) => "share" \in Careless

\* mappages of one page; what vm_alloc_pages has given is no longer free.
MapPage(p, v, page, prot) ==
    /\ pte' = [pte EXCEPT ![p][v] = Pte(page, prot, FALSE)]
    /\ free' = free \ {page}
    /\ UNCHANGED <<pc, brk, minbrk>>

\* A variant of Cleared: without the memset of vm_alloc_pages.
NotCleared(page) == mem[page]

\* The content of a page after vm_alloc_pages, if it was called.
Cleared(page) == IF page \in free THEN Zero ELSE mem[page]

\* do_page_fault outside of all areas: it must be the stack.
FaultStack(p, v) ==
    /\ Fault(p, v)
    /\ At(p, v) = {}
    /\ \E page \in Backing(p, v) :
        /\ MapPage(p, v, page, {"R", "W"})
        /\ mem' = [mem EXCEPT ![page] = Cleared(page)]
        /\ area' = [area EXCEPT ![p] = @ \cup {Area(v, 1, "DATA", {"R", "W"}, FALSE)}]

\* do_page_fault in a segment of the program: the page is read from the file.  A
\* page that was mapped becomes writable; if it is shared, it is copied onto itself.
FaultProg(p, v) ==
    \E a \in At(p, v), page \in Backing(p, v) :
        LET was == pte[p][v]
            copy == a.clone /\ was # NoPte /\ was.fork
            prot == IF was # NoPte THEN a.prot \cup {"R", "W"} ELSE a.prot
        IN
        /\ Fault(p, v)
        /\ a.type = "PROG"
        /\ MapPage(p, v, page, prot)
        /\ area' = [area EXCEPT ![p] = (@ \ {a}) \cup {[a EXCEPT !.prot = prot]}]
        /\ mem' = [mem EXCEPT ![page] = IF copy THEN mem[page] ELSE Image]

\* do_page_fault in memory from brk, mmap or the stack.
FaultAnon(p, v) ==
    \E a \in At(p, v), page \in Backing(p, v) :
        /\ Fault(p, v)
        /\ a.type # "PROG" /\ ~ a.file
        /\ MapPage(p, v, page, a.prot)
        /\ mem' = [mem EXCEPT ![page] = Cleared(page)]
        /\ UNCHANGED area

\* do_page_fault in a mapped file: all its pages are the first one, and a page
\* that was mapped is freed.
FaultFile(p, v) ==
    \E a \in At(p, v) :
        LET first == pte[p][a.va]
            was == pte[p][v]
            freed == IF first # NoPte /\ was # NoPte THEN {was.page} ELSE {}
        IN
        \E page \in IF first # NoPte THEN {first.page} ELSE Backing(p, v) :
            /\ Fault(p, v)
            /\ a.type # "PROG" /\ a.file
            /\ was # NoPte => "file" \in Careless
            /\ pte' = [pte EXCEPT ![p][a.va] = IF first # NoPte THEN @ ELSE Pte(page, a.prot, FALSE),
                                  ![p][v] = Pte(page, a.prot, FALSE)]
            /\ free' = (free \ {page}) \cup freed
            /\ mem' = [mem EXCEPT ![page] = IF page \in freed THEN Old ELSE Cleared(page)]
            /\ UNCHANGED <<pc, area, brk, minbrk>>

\* do_exec_fault: the page is read from the file; a page that was mapped is lost.
FaultExec(p, v) ==
    \E a \in At(p, v), page \in free :
        /\ CanRun(p)
        /\ Refused(p, v, "X")
        /\ a.type = "PROG"
        /\ pte[p][v] # NoPte => "jump" \in Careless
        /\ MapPage(p, v, page, a.prot)
        /\ mem' = [mem EXCEPT ![page] = Image]
        /\ UNCHANGED area

\* do_exec_fault outside of the program: the hart stays in a loop.
Illegal(p) == {v \in Va : Refused(p, v, "X") /\ \A a \in At(p, v) : a.type # "PROG"}

FaultIllegal(p) ==
    /\ CanRun(p)
    /\ Illegal(p) # {}
    /\ pc' = [pc EXCEPT ![p] = "stuck"]
    /\ UNCHANGED <<area, pte, brk, minbrk, free, mem>>

\* vm_alloc_pages returns NULL in a fault, which maps it.
Unbacked(p) == {v \in Va \ Mapped(p) : \A a \in At(p, v) : a.file => a.va \notin Mapped(p)}

FaultNoPage(p) ==
    /\ CanRun(p)
    /\ free = {} /\ Unbacked(p) # {}
    /\ Lost

-----------------------------------------------------------------------------
(* Freeing *)

\* free_vma_mem takes the pages of an area from the table; of a file only the
\* first one.
Emptied(A) == {v \in Va : \E a \in A : IF a.file THEN v = a.va ELSE v \in Span(a)}

\* A variant of Released: PTE_F is not looked at.
ReleasedAll(p, A) == {pte[p][v].page : v \in Emptied(A) \cap Mapped(p)}

\* Those without PTE_F are freed.
Released(p, A) ==
    {pte[p][v].page : v \in {w \in Emptied(A) \cap Mapped(p) : ~ pte[p][w].fork}}

\* A program does not give up what its children share, unless it is Careless.
MayRelease(p, A) ==
    \A v \in Emptied(A) \cap Mapped(p) :
        ~ pte[p][v].fork /\ pte[p][v].page \in Elsewhere(p) => "leave" \in Careless

Forgotten(gone) == [g \in Pages |-> IF g \in gone THEN Old ELSE mem[g]]

\* del_list, free_vma_mem and kfree of some areas of p.
Release(p, A) ==
    /\ MayRelease(p, A)
    /\ area' = [area EXCEPT ![p] = @ \ A]
    /\ pte' = [pte EXCEPT ![p] = [v \in Va |-> IF v \in Emptied(A) THEN NoPte ELSE @[v]]]
    /\ free' = free \cup Released(p, A)
    /\ mem' = Forgotten(Released(p, A))

-----------------------------------------------------------------------------
(* Calls *)

\* A variant of NewHeap: only add_vma looks whether there is an area, at its first page.
NewHeapAnywhere(p, b) ==
    {Area(v, 1, "BRK", {"R", "W"}, FALSE) : v \in brk[p] + 1 .. b \ {a.va : a \in area[p]}}

\* sys_brk with an address behind brk, in page b: the pages behind the one of brk
\* get areas, but for those that have one.
NewHeap(p, b) ==
    {Area(v, 1, "BRK", {"R", "W"}, FALSE) : v \in brk[p] + 1 .. b \ Spans(area[p])}

Grow(p, b) ==
    /\ CanRun(p)
    /\ b \in brk[p] .. MaxBrk
    /\ area' = [area EXCEPT ![p] = @ \cup NewHeap(p, b)]
    /\ brk' = [brk EXCEPT ![p] = b]
    /\ UNCHANGED <<pc, pte, minbrk, free, mem>>

\* The areas that sys_brk frees when brk goes back to page b.
Cut(p, b) == UNION {At(p, v) : v \in b + 1 .. brk[p]}

\* Each of the pages has an area of its own.
Piecewise(p, b) ==
    /\ b + 1 .. brk[p] \subseteq Spans(area[p])
    /\ \A v, w \in b + 1 .. brk[p] : v # w => At(p, v) \cap At(p, w) = {}

Shrink(p, b) ==
    /\ CanRun(p)
    /\ b \in minbrk[p] .. brk[p]
    /\ Piecewise(p, b)
    /\ Release(p, Cut(p, b))
    /\ brk' = [brk EXCEPT ![p] = b]
    /\ UNCHANGED <<pc, minbrk>>

\* find_vma finds no area for one of the pages, and del_list gets a null pointer.
ShrinkNull(p) ==
    /\ CanRun(p)
    /\ {b \in minbrk[p] .. brk[p] : ~ Piecewise(p, b)} # {}
    /\ Lost

\* find_map_area: the place that is asked for if it has room, else the first that has.
Room(p, va, len) == (va .. va + len - 1) \cap Spans(area[p]) = {}

Mmap(p, va, len, prot, file) ==
    /\ CanRun(p)
    /\ va \in MapLow .. MapTop - 1
    /\ Room(p, va, len)
    /\ file /\ len > 1 => "file" \in Careless
    /\ area' = [area EXCEPT ![p] = @ \cup {Area(va, len, "MMAP", prot, file)}]
    /\ UNCHANGED <<pc, pte, brk, minbrk, free, mem>>

\* sys_munmap: the whole area, whatever the length.
Munmap(p, v) ==
    /\ CanRun(p)
    /\ At(p, v) # {}
    /\ Release(p, At(p, v))
    /\ UNCHANGED <<pc, brk, minbrk>>

\* sys_clone shares the executable parts of the program and copies the rest.
Shared(a) == a.type = "PROG" /\ "X" \in a.prot
CloneArea(a) == IF Shared(a) THEN [a EXCEPT !.prot = {"R", "X"}, !.clone = TRUE] ELSE a
Copied(p) == {v \in Mapped(p) : \E a \in At(p, v) : ~ Shared(a)}
SharedPart(p) == {v \in Mapped(p) : \E a \in At(p, v) : Shared(a)}

\* The page of p whose copy g is.
CopiedTo(p, f, g) == pte[p][CHOOSE v \in Copied(p) : f[v] = g].page

\* brk and minbrk of the child stay 0.
Clone(p, c) ==
    \E f \in Supplies(Copied(p)) :
        /\ CanRun(p)
        /\ pc[c] = "none"
        /\ pc' = [pc EXCEPT ![c] = "user"]
        /\ area' = [area EXCEPT ![c] = {CloneArea(a) : a \in area[p]}]
        /\ pte' = [pte EXCEPT ![c] = [v \in Va |->
                IF v \in Copied(p) THEN Pte(f[v], ProtAt(area[p], v), FALSE)
                ELSE IF v \in SharedPart(p) THEN Pte(pte[p][v].page, {"R", "X"}, TRUE)
                ELSE NoPte]]
        /\ free' = free \ Range(f)
        /\ mem' = [g \in Pages |-> IF g \in Range(f) THEN mem[CopiedTo(p, f, g)] ELSE mem[g]]
        /\ brk' = [brk EXCEPT ![c] = 0]
        /\ minbrk' = [minbrk EXCEPT ![c] = 0]

CloneNoPage(p, c) ==
    /\ CanRun(p)
    /\ pc[c] = "none"
    /\ NoSupply(Copied(p))
    /\ Lost

\* sys_execve of a program that create_proc_by_elf could load.
Execve(p, g) ==
    \E f \in Supplies(g.loaded) :
        /\ CanRun(p)
        /\ MayRelease(p, area[p])
        /\ area' = [area EXCEPT ![p] = g.areas]
        /\ pte' = [pte EXCEPT ![p] = TableOf(g, f)]
        /\ free' = (free \ Range(f)) \cup Released(p, area[p])
        /\ mem' = [h \in Pages |-> IF h \in Range(f) THEN Image ELSE Forgotten(Released(p, area[p]))[h]]
        /\ brk' = [brk EXCEPT ![p] = g.brk]
        /\ minbrk' = [minbrk EXCEPT ![p] = g.brk]
        /\ UNCHANGED pc

ExecveNoPage(p, g) ==
    /\ CanRun(p)
    /\ NoSupply(g.loaded)
    /\ Lost

\* sys_exit and kill_current: free_process_mem and free_pagetable.
Exit(p) ==
    /\ CanRun(p)
    /\ MayRelease(p, area[p])
    /\ pc' = [pc EXCEPT ![p] = "none"]
    /\ area' = [area EXCEPT ![p] = {}]
    /\ pte' = [pte EXCEPT ![p] = NoTable]
    /\ free' = free \cup Released(p, area[p])
    /\ mem' = Forgotten(Released(p, area[p]))
    /\ UNCHANGED <<brk, minbrk>>

-----------------------------------------------------------------------------
Next ==
    \E p \in Procs :
        \/ \E v \in Va :
            \/ \E x \in Data : Store(p, v, x)
            \/ FaultStack(p, v)
            \/ FaultProg(p, v)
            \/ FaultAnon(p, v)
            \/ FaultFile(p, v)
            \/ FaultExec(p, v)
            \/ Grow(p, v)
            \/ Shrink(p, v)
            \/ Munmap(p, v)
            \/ \E len \in 1 .. MaxLen, prot \in Prots, file \in BOOLEAN : Mmap(p, v, len, prot, file)
        \/ FaultIllegal(p) \/ FaultNoPage(p) \/ ShrinkNull(p)
        \/ \E c \in Procs : Clone(p, c) \/ CloneNoPage(p, c)
        \/ \E g \in Programs : Execve(p, g) \/ ExecveNoPage(p, g)
        \/ Exit(p)

Spec == Init /\ [][Next]_vars

-----------------------------------------------------------------------------
(* Properties *)

\* The types of the variables.
TypeOK ==
    /\ pc \in [Procs -> {"none", "user", "stuck", "lost"}]
    /\ area \in [Procs -> SUBSET Areas]
    /\ pte \in [Procs -> [Va -> Ptes \cup {NoPte}]]
    /\ brk \in [Procs -> Va] /\ minbrk \in [Procs -> Va]
    /\ free \subseteq Pages
    /\ mem \in [Pages -> Values \cup {Old}]

\* README.md:194: the list of areas is ordered and no two of them overlap, which
\* add_vma (vmm.c:92) does not look at: it relies on what its callers have found
\* out with find_vma, page by page.
AreasApart == \A p \in Procs : Apart(area[p]) /\ Spans(area[p]) \subseteq Va

\* The places at which a page is mapped, with PTE_F or without.
MappedAt(g, fork) ==
    {h \in Procs \X Va :
        LET entry == pte[h[1]][h[2]]
        IN  entry # NoPte /\ entry.page = g /\ entry.fork = fork}

\* vmm.c:222: pages are freed through the areas.  So each page that is mapped lies
\* in an area; each page in use is owned by one place in one process; what a
\* child borrows (PTE_F, README.md:200) is not freed before the child is done.
PagesOwned ==
    /\ \A p \in Procs : Mapped(p) \subseteq Spans(area[p])
    /\ \A g \in Pages :
        LET owners == MappedAt(g, FALSE)
        IN  /\ g \in free <=> owners = {}
            /\ \A h, i \in owners : h = i
    /\ \A g \in free : MappedAt(g, TRUE) = {}

\* README.md:200: a page that a child shares with its parent (PTE_F) has been
\* copied when the child may write to it.
CopiedOnWrite == [][
    \A p \in Procs, v \in Va :
        /\ pte[p][v] # NoPte /\ pte'[p][v] # NoPte
        /\ pte[p][v].fork /\ "W" \in pte'[p][v].prot
        => pte'[p][v].page # pte[p][v].page]_vars

\* What a process reads at an address.
Content(p, v, A) ==
    IF A = {} THEN Nothing
    ELSE IF pte[p][v] # NoPte THEN mem[pte[p][v].page]
    ELSE IF \E a \in A : a.type = "PROG" THEN Image
    ELSE Zero

Read(p, v) == Content(p, v, At(p, v))

\* What a program finds when it starts.
Memory(g) ==
    [v \in Va |-> IF v \in Spans(g.areas) THEN Image ELSE Nothing]

Own == INSTANCE VirtualMemory WITH
    Images <- {Memory(g) : g \in Programs \cup {Boot}},
    view <- [p \in Procs |-> [v \in Va |-> Read(p, v)]]

\* Each process has a memory of its own: that pages come only when they are used
\* (README.md:173-196), are shared with children, given back and used again by
\* other processes, is not seen by a program that is not Careless.
ImplementsMemory == Own!Spec
=============================================================================
