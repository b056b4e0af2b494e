----------------------------- MODULE PageAlloc -----------------------------
(***************************************************************************)
(* The page allocator, os/kernel/page.c: the free pages lie in runs of     *)
(* consecutive pages; the first page of a run carries its length in        *)
(* free_page_num and is linked on pages_list.  alloc_pages takes the first *)
(* run of the list that is long enough, free_pages puts a run back and     *)
(* merges it with its neighbours on the list.                              *)
(*                                                                         *)
(* Both do part of their work before they take page_lock, and the other    *)
(* hart may act in between: alloc_pages tests page_num, free_pages changes *)
(* the flags and the reference counts of its pages.  What happens between  *)
(* lock and unlock touches only what the lock protects, pages on the list  *)
(* and page_num, and is one action.  A caller frees pages that it has been *)
(* given, in whatever portions; on which hart does not matter.             *)
(***************************************************************************)
EXTENDS Integers, FiniteSetsExt, SequencesExt

CONSTANTS
    Harts,
    PageNum,        \* PAGE_NUM
    Reserved,       \* the pages of the SBI and of the kernel image
    MaxRequest      \* bound: the largest number of pages in a call

ASSUME PageAssumption ==
    /\ PageNum \in Nat
    /\ Reserved \in 0 .. PageNum - 1
    /\ MaxRequest \in Nat \ {0}

Pages == 0 .. PageNum - 1
Extent(first, n) == first .. first + n - 1

VARIABLES
    flag,               \* pages_map[p].flag
    ref_cnt,            \* pages_map[p].ref_cnt
    free_page_num,      \* pages_map[p].free_page_num
    pages_list,         \* free_page_pool.pages_list: first pages of the free runs
    page_num,           \* free_page_pool.page_num
    pc,                 \* pc[h]: "idle", "alloc" and "free": about to take page_lock
    arg,                \* arg[h]: the page and the n of the call in progress
    held                \* the pages that callers have been given

vars == <<flag, ref_cnt, free_page_num, pages_list, page_num, pc, arg, held>>

\* page_init
Init ==
    /\ flag = [p \in Pages |-> IF p < Reserved THEN "RESERVE" ELSE "FREE"]
    /\ ref_cnt = [p \in Pages |-> IF p < Reserved THEN 1 ELSE 0]
    /\ free_page_num = [p \in Pages |-> IF p = Reserved THEN PageNum - Reserved ELSE 0]
    /\ pages_list = <<Reserved>>
    /\ page_num = PageNum - Reserved
    /\ pc = [h \in Harts |-> "idle"]
    /\ arg = [h \in Harts |-> [first |-> 0, n |-> 0]]
    /\ held = {}

\* The call goes on to the lock; the call is over.
Begin(h, where, first, n) ==
    /\ pc' = [pc EXCEPT ![h] = where]
    /\ arg' = [arg EXCEPT ![h] = [first |-> first, n |-> n]]

Return(h) == Begin(h, "idle", 0, 0)

-----------------------------------------------------------------------------
(* alloc_pages *)

\* The test of page_num, without the lock.
AllocTest(h, n) ==
    /\ pc[h] = "idle"
    /\ n <= page_num
    /\ Begin(h, "alloc", 0, n)
    /\ UNCHANGED <<flag, ref_cnt, free_page_num, pages_list, page_num, held>>

\* A variant of Fits: off by one.
FitsNearly(n) == {i \in DOMAIN pages_list : free_page_num[pages_list[i]] >= n - 1}

\* The positions of pages_list whose run is long enough.
Fits(n) == {i \in DOMAIN pages_list : free_page_num[pages_list[i]] >= n}

\* No run is long enough: alloc_pages returns 0.
AllocFail(h) ==
    /\ pc[h] = "alloc"
    /\ Fits(arg[h].n) = {}
    /\ Return(h)
    /\ UNCHANGED <<flag, ref_cnt, free_page_num, pages_list, page_num, held>>

\* A variant of ListAfterTake: the run is split although it fits exactly.
ListAlwaysSplit(i, n) == Cons(pages_list[i] + n, RemoveAt(pages_list, i))

\* The list after the first n pages of the run at position i have been taken:
\* what is left of a longer run goes to the head of the list.
ListAfterTake(i, n) ==
    IF free_page_num[pages_list[i]] > n
    THEN Cons(pages_list[i] + n, RemoveAt(pages_list, i))
    ELSE RemoveAt(pages_list, i)

\* A variant of LengthsAfterTake: the rest has the length of the whole run.
LengthsOfWhole(page, n) ==
    [p \in Pages |->
        IF p \in Extent(page, n) THEN 0
        ELSE IF p = page + n /\ free_page_num[page] > n THEN free_page_num[page]
        ELSE free_page_num[p]]

LengthsAfterTake(page, n) ==
    [p \in Pages |->
        IF p \in Extent(page, n) THEN 0
        ELSE IF p = page + n /\ free_page_num[page] > n THEN free_page_num[page] - n
        ELSE free_page_num[p]]

\* First fit.
AllocTake(h) ==
    LET n == arg[h].n IN
    \E i \in Fits(n) :
        /\ pc[h] = "alloc"
        /\ \A j \in Fits(n) : i <= j
        /\ pages_list' = ListAfterTake(i, n)
        /\ free_page_num' = LengthsAfterTake(pages_list[i], n)
        /\ flag' = [p \in Pages |-> IF p \in Extent(pages_list[i], n) THEN "USED" ELSE flag[p]]
        /\ ref_cnt' = [p \in Pages |-> IF p \in Extent(pages_list[i], n)
                                       THEN ref_cnt[p] + 1 ELSE ref_cnt[p]]
        /\ page_num' = page_num - n
        /\ held' = held \cup Extent(pages_list[i], n)
        /\ Return(h)

-----------------------------------------------------------------------------
(* free_pages *)

\* A variant of UsedPrefix: the last page is left out.
UsedButLast(first, n) ==
    {p \in Extent(first, n - 1) : \A q \in first .. p : flag[q] = "USED"}

\* The pages up to the first one that is not in use.
UsedPrefix(first, n) ==
    {p \in Extent(first, n) : \A q \in first .. p : flag[q] = "USED"}

\* The loop over the pages, without the lock.  It leaves the call at the first
\* page that is not in use.
FreeMark(h, first, n) ==
    LET marked == UsedPrefix(first, n) IN
    /\ pc[h] = "idle"
    /\ Extent(first, n) \subseteq held
    /\ held' = held \ Extent(first, n)
    /\ flag' = [p \in Pages |-> IF p \in marked THEN "FREE" ELSE flag[p]]
    /\ ref_cnt' = [p \in Pages |-> IF p \in marked THEN ref_cnt[p] - 1 ELSE ref_cnt[p]]
    /\ IF marked = Extent(first, n)
       THEN Begin(h, "free", first, n)
       ELSE UNCHANGED <<pc, arg>>
    /\ UNCHANGED <<free_page_num, pages_list, page_num>>

\* The runs of the list that lie behind the page; the new run goes before the first of them.
Behind(page) == {i \in DOMAIN pages_list : page < pages_list[i]}

InsertPosition(i, page) ==
    /\ \A j \in Behind(page) : i <= j
    /\ i \in Behind(page) \/ i = Len(pages_list) + 1

\* A variant of MergesBefore: any run before the position is merged with.
MergesBeforeAny(i, page) ==
    /\ i > 1
    /\ pages_list[i - 1] + free_page_num[pages_list[i - 1]] <= page

\* The run before the position ends where the freed one begins.
MergesBefore(i, page) ==
    /\ i > 1
    /\ pages_list[i - 1] + free_page_num[pages_list[i - 1]] = page

\* The run at the position begins where the freed one, n pages from page on, ends.
MergesBehind(i, page, n) ==
    /\ i <= Len(pages_list)
    /\ page + n = pages_list[i]

\* add_before at the position unless the run there before takes the page over,
\* del_list of the run behind if it is taken over.
ListAfterFree(i, page, before, behind) ==
    LET linked == IF before THEN pages_list ELSE InsertAt(pages_list, i, page)
    IN  IF behind THEN RemoveAt(linked, IF before THEN i ELSE i + 1) ELSE linked

\* A variant of LengthAfterFree: the run behind is not counted.
LengthWithoutBehind(i, n, before, behind) ==
    n + (IF before THEN free_page_num[pages_list[i - 1]] ELSE 0)

\* The length of the run that begins at the page or at the one that takes it over.
LengthAfterFree(i, n, before, behind) ==
    n + (IF before THEN free_page_num[pages_list[i - 1]] ELSE 0)
      + (IF behind THEN free_page_num[pages_list[i]] ELSE 0)

FreeLink(h) ==
    \E i \in 1 .. Len(pages_list) + 1 :
        LET page == arg[h].first
            n == arg[h].n
            before == MergesBefore(i, page)
            behind == MergesBehind(i, page, n)
            head == IF before THEN pages_list[i - 1] ELSE page
        IN
        /\ pc[h] = "free"
        /\ InsertPosition(i, page)
        /\ pages_list' = ListAfterFree(i, page, before, behind)
        /\ free_page_num' =
            [free_page_num EXCEPT ![page] = n,
                                  ![head] = LengthAfterFree(i, n, before, behind)]
        /\ page_num' = page_num + n
        /\ Return(h)
        /\ UNCHANGED <<flag, ref_cnt, held>>

-----------------------------------------------------------------------------
Next ==
    \E h \in Harts :
        \/ \E n \in 1 .. MaxRequest : AllocTest(h, n)
        \/ AllocFail(h)
        \/ AllocTake(h)
        \/ \E first \in Pages, n \in 1 .. MaxRequest : FreeMark(h, first, n)
        \/ FreeLink(h)

\* A call returns; whether a caller calls is up to it.
Spec == Init /\ [][Next]_vars

-----------------------------------------------------------------------------
(* Properties *)

Heads == Range(pages_list)
FreeRun(page) == Extent(page, free_page_num[page])

\* The pages that a request may be given.
FreePages == UNION {FreeRun(page) : page \in Heads}

\* The pages of a free_pages that has changed the flags and waits for page_lock.
GivenUp(h) == IF pc[h] = "free" THEN Extent(arg[h].first, arg[h].n) ELSE {}

InTransit == UNION {GivenUp(h) : h \in Harts}

ReservedPages == {p \in Pages : p < Reserved}

\* The types of the variables.  A page has at most one user as far as the
\* allocator knows: its reference count is 0 or 1.
TypeOK ==
    /\ flag \in [Pages -> {"RESERVE", "USED", "FREE"}]
    /\ ref_cnt \in [Pages -> 0 .. 1]
    /\ free_page_num \in [Pages -> 0 .. PageNum]
    /\ pages_list \in Seq(Pages)
    /\ page_num \in 0 .. PageNum
    /\ pc \in [Harts -> {"idle", "alloc", "free"}]
    /\ arg \in [Harts -> [first : Pages, n : 0 .. MaxRequest]]
    /\ held \subseteq Pages

\* Runs on the list neither overlap nor are empty nor leave the memory, however
\* often they have been split (page.c:88-93) and merged (page.c:152-173).
RunsApart ==
    /\ IsInjective(pages_list)
    /\ \A page \in Heads : FreeRun(page) \subseteq Pages /\ FreeRun(page) # {}
    /\ \A p, q \in Heads : p # q => FreeRun(p) \cap FreeRun(q) = {}

\* No page has two owners: the kernel image, the callers, the list and each
\* free_pages under way (page.c:113-119, before the lock) own different pages.
\* And no page is lost: each has one of these owners.
OnePageOneOwner ==
    /\ FreePages \cap held = {}
    /\ ReservedPages \cap (FreePages \cup held) = {}
    /\ \A h \in Harts : GivenUp(h) \cap (FreePages \cup held \cup ReservedPages) = {}
    /\ \A g, h \in Harts : g # h => GivenUp(g) \cap GivenUp(h) = {}
    /\ Pages = ReservedPages \cup FreePages \cup held \cup InTransit

\* The flag and the reference count, which free_pages trusts without the lock,
\* tell the pages of callers from all others.
FlagsTell ==
    /\ \A p \in Pages : flag[p] = "USED" <=> p \in held
    /\ \A p \in Pages : flag[p] = "RESERVE" <=> p < Reserved
    /\ \A p \in Pages : ref_cnt[p] = 0 <=> flag[p] = "FREE"

\* page_num, which alloc_pages reads without the lock, is the number of pages
\* on the list, so the test turns away no request that could be met (page.c:68).
PageNumCounts == page_num = Cardinality(FreePages)

Pool == INSTANCE PagePool WITH free <- FreePages

\* The code implements the abstract pool: what alloc_pages returns was free as
\* a whole, and pages become free only through free_pages.
ImplementsPool == Pool!Spec
=============================================================================
