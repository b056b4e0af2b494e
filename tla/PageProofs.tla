----------------------------- MODULE PageProofs -----------------------------
(***************************************************************************)
(* Proofs about PageAlloc, for any number of harts and pages and calls of  *)
(* any size: the inductive invariant is the conjunction of the properties  *)
(* that the runs check, and of one fact about the arguments of calls.      *)
(***************************************************************************)
EXTENDS PageAlloc, ListLemmas, FiniteSetTheorems, TLAPS

(* A call that waits for the lock is about at least one page, and a         *)
(* free_pages about pages that exist.                                       *)
CallsMeanPages ==
    \A h \in Harts :
        /\ pc[h] # "idle" => arg[h].n > 0
        /\ pc[h] = "free" => Extent(arg[h].first, arg[h].n) \subseteq Pages

PageInvariant ==
    /\ TypeOK
    /\ RunsApart
    /\ OnePageOneOwner
    /\ FlagsTell
    /\ PageNumCounts
    /\ CallsMeanPages

-----------------------------------------------------------------------------
(* Extents are intervals: their elements, and how many there are.           *)
LEMMA ExtentElements ==
    ASSUME NEW a \in Int, NEW n \in Int
    PROVE  \A x : x \in Extent(a, n) <=> x \in Int /\ a <= x /\ x < a + n
BY DEF Extent

LEMMA ExtentCardinality ==
    ASSUME NEW a \in Int, NEW n \in Nat
    PROVE  IsFiniteSet(Extent(a, n)) /\ Cardinality(Extent(a, n)) = n
<1>1. a + n - 1 \in Int
  OBVIOUS
<1>2. /\ IsFiniteSet(a .. a + n - 1)
      /\ Cardinality(a .. a + n - 1) = IF a > a + n - 1 THEN 0 ELSE a + n - 1 - a + 1
  BY <1>1, FS_Interval
<1> QED BY <1>2 DEF Extent

(* Sets of pages are finite.                                                *)
LEMMA PagesFinite ==
    ASSUME NEW S \in SUBSET Pages
    PROVE  IsFiniteSet(S) /\ Cardinality(S) \in 0 .. PageNum
<1>1. 0 \in Int /\ PageNum - 1 \in Int /\ PageNum \in Nat
  BY PageAssumption
<1>2. IsFiniteSet(Pages) /\ Cardinality(Pages) = PageNum
  BY <1>1, FS_Interval DEF Pages
<1>3. IsFiniteSet(S) /\ Cardinality(S) <= Cardinality(Pages)
  BY <1>2, FS_Subset
<1> QED BY <1>1, <1>2, <1>3, FS_CardinalityType

-----------------------------------------------------------------------------
(* Cutting the first n pages off a run (alloc_pages): the other runs stay,  *)
(* what is left of the run is a run, and the n pages are on no run.         *)
LEMMA TakeFromRun ==
    ASSUME TypeOK, RunsApart,
           NEW i \in DOMAIN pages_list, NEW n \in Nat \ {0},
           NEW page, page = pages_list[i],
           n <= free_page_num[page],
           pages_list' = ListAfterTake(i, n),
           free_page_num' = LengthsAfterTake(page, n)
    PROVE  /\ pages_list' \in Seq(Pages)
           /\ free_page_num' \in [Pages -> 0 .. PageNum]
           /\ RunsApart'
           /\ Extent(page, n) \subseteq FreePages
           /\ FreePages' = FreePages \ Extent(page, n)
<1> DEFINE taken == Extent(page, n)
           rest == page + n
           R == RemoveAt(pages_list, i)
           longer == free_page_num[page] > n
<1>1. i \in 1 .. Len(pages_list) /\ pages_list \in Seq(Pages) /\ page \in Pages
      /\ page \in Heads
  BY DEF TypeOK, Heads, Range
<1>0. n \in Int /\ n > 0
  OBVIOUS
<1>2. R \in Seq(Pages) /\ Range(R) = Heads \ {page} /\ IsInjective(R)
  BY <1>1, RemoveAtList DEF RunsApart, Heads
<1>3. /\ Pages \subseteq Int
      /\ \A p \in Pages : free_page_num[p] \in Int /\ 0 <= free_page_num[p]
  BY PageAssumption DEF Pages, TypeOK
<1>4. Heads \subseteq Pages
  BY <1>1 DEF Heads, Range
<1>5. \A p \in Heads : \A x : x \in FreeRun(p) <=> x \in Int /\ p <= x /\ x < p + free_page_num[p]
  BY <1>3, <1>4, ExtentElements DEF FreeRun
<1>6. \A p \in Heads : FreeRun(p) \subseteq Pages /\ p \in FreeRun(p) /\ free_page_num[p] > 0
  <2> SUFFICES ASSUME NEW p \in Heads
               PROVE  FreeRun(p) \subseteq Pages /\ p \in FreeRun(p) /\ free_page_num[p] > 0
    OBVIOUS
  <2>1. PICK x : x \in FreeRun(p)
    BY DEF RunsApart
  <2>2. p \in Int /\ free_page_num[p] \in Int
    BY <1>3, <1>4
  <2> QED BY <2>1, <2>2, <1>5 DEF RunsApart
<1>7. \A x : x \in taken <=> x \in Int /\ page <= x /\ x < page + n
  <2>1. page \in Int
    BY <1>1, <1>3
  <2> QED BY <2>1, <1>0, ExtentElements
<1>8. taken \subseteq FreeRun(page) /\ page \in taken
  <2>1. page \in Int /\ n \in Int /\ n > 0 /\ free_page_num[page] \in Int
    BY <1>0, <1>1, <1>3
  <2> QED BY <2>1, <1>1, <1>5, <1>7
<1> HIDE DEF taken, R
<1>9. \A p \in Heads \ {page} : p \notin taken /\ FreeRun(p) \cap taken = {}
  BY <1>1, <1>6, <1>8 DEF RunsApart
<1>10. longer => rest \in FreeRun(page) /\ rest \in Pages /\ rest \notin taken /\ rest \notin Heads
  <2> SUFFICES ASSUME longer
               PROVE  rest \in FreeRun(page) /\ rest \in Pages /\ rest \notin taken /\ rest \notin Heads
    OBVIOUS
  <2>1. page \in Int /\ n \in Int /\ n > 0 /\ free_page_num[page] \in Int
    BY <1>0, <1>1, <1>3
  <2>2. rest \in FreeRun(page) /\ rest \notin taken /\ rest # page
    BY <2>1, <1>1, <1>5, <1>7
  <2>3. rest \notin Heads
    BY <2>2, <1>1, <1>6 DEF RunsApart
  <2> QED BY <2>2, <2>3, <1>1, <1>6
<1>11. /\ pages_list' \in Seq(Pages)
       /\ Heads' = (Heads \ {page}) \cup (IF longer THEN {rest} ELSE {})
       /\ IsInjective(pages_list')
  <2>1. CASE longer
    <3>1. pages_list' = Cons(rest, R)
      BY <2>1 DEF ListAfterTake, R
    <3> QED BY <2>1, <3>1, <1>2, <1>10, ConsList DEF Heads
  <2>2. CASE ~longer
    <3>1. pages_list' = R
      BY <2>2 DEF ListAfterTake, R
    <3> QED BY <2>2, <3>1, <1>2 DEF Heads
  <2> QED BY <2>1, <2>2
<1>12. \A p \in Pages :
         free_page_num'[p] = IF p \in taken THEN 0
                             ELSE IF p = rest /\ longer THEN free_page_num[page] - n
                             ELSE free_page_num[p]
  BY DEF LengthsAfterTake, taken
<1>13. free_page_num' \in [Pages -> 0 .. PageNum]
  <2>1. \A p \in Pages : free_page_num[p] \in 0 .. PageNum
    BY DEF TypeOK
  <2>2. PageNum \in Nat
    BY PageAssumption
  <2>3. longer => free_page_num[page] - n \in 0 .. PageNum
    BY <1>1, <2>1, <2>2
  <2>4. \A p \in Pages :
           (IF p \in taken THEN 0
            ELSE IF p = rest /\ longer THEN free_page_num[page] - n
            ELSE free_page_num[p]) \in 0 .. PageNum
    BY <2>1, <2>2, <2>3
  <2>5. free_page_num' = [p \in Pages |->
            IF p \in taken THEN 0
            ELSE IF p = rest /\ longer THEN free_page_num[page] - n
            ELSE free_page_num[p]]
    BY DEF LengthsAfterTake, taken
  <2> QED BY <2>4, <2>5
<1>14. \A p \in Heads \ {page} : FreeRun(p)' = FreeRun(p)
  <2> SUFFICES ASSUME NEW p \in Heads \ {page} PROVE FreeRun(p)' = FreeRun(p)
    OBVIOUS
  <2>1. p \in Pages /\ p \notin taken /\ (longer => p # rest)
    BY <1>4, <1>9, <1>10
  <2>2. free_page_num'[p] = free_page_num[p]
    BY <2>1, <1>12
  <2> QED BY <2>2 DEF FreeRun
<1>15. longer => FreeRun(rest)' = FreeRun(page) \ taken /\ FreeRun(rest)' # {}
  <2> SUFFICES ASSUME longer
               PROVE  FreeRun(rest)' = FreeRun(page) \ taken /\ FreeRun(rest)' # {}
    OBVIOUS
  <2>1. page \in Int /\ n \in Int /\ n > 0 /\ free_page_num[page] \in Int
    BY <1>0, <1>1, <1>3
  <2>2. FreeRun(rest)' = Extent(rest, free_page_num[page] - n)
    BY <1>10, <1>12 DEF FreeRun
  <2>3. \A x : x \in FreeRun(rest)' <=>
                x \in Int /\ rest <= x /\ x < rest + (free_page_num[page] - n)
    BY <2>1, <2>2, ExtentElements
  <2>4. \A x : x \in FreeRun(rest)' <=> x \in FreeRun(page) /\ x \notin taken
    BY <2>1, <2>3, <1>1, <1>5, <1>7
  <2> QED BY <2>4, <1>10
<1>16. ~longer => FreeRun(page) = taken
  <2> SUFFICES ASSUME ~longer PROVE FreeRun(page) = taken
    OBVIOUS
  <2>1. page \in Int /\ n \in Int /\ free_page_num[page] \in Int /\ free_page_num[page] = n
    BY <1>0, <1>1, <1>3
  <2> QED BY <2>1 DEF FreeRun, taken
<1>17. RunsApart'
  <2>1. \A p \in Heads' : FreeRun(p)' \subseteq Pages /\ FreeRun(p)' # {}
    BY <1>1, <1>6, <1>11, <1>14, <1>15
  <2>2. ASSUME NEW p \in Heads', NEW q \in Heads', p # q
        PROVE  FreeRun(p)' \cap FreeRun(q)' = {}
    <3>1. CASE p \in Heads \ {page} /\ q \in Heads \ {page}
      BY <2>2, <3>1, <1>14 DEF RunsApart
    <3>2. CASE longer /\ p = rest /\ q \in Heads \ {page}
      BY <3>2, <1>1, <1>14, <1>15 DEF RunsApart
    <3>3. CASE longer /\ q = rest /\ p \in Heads \ {page}
      BY <3>3, <1>1, <1>14, <1>15 DEF RunsApart
    <3> QED BY <2>2, <3>1, <3>2, <3>3, <1>11
  <2> QED BY <2>1, <2>2, <1>11 DEF RunsApart
<1>18. taken \subseteq FreePages
  BY <1>1, <1>8 DEF FreePages
<1>19. FreePages' = FreePages \ taken
  <2>1. ASSUME NEW x \in FreePages' PROVE x \in FreePages \ taken
    <3>1. PICK p \in Heads' : x \in FreeRun(p)'
      BY DEF FreePages
    <3>2. CASE p \in Heads \ {page}
      BY <3>1, <3>2, <1>9, <1>14 DEF FreePages
    <3>3. CASE longer /\ p = rest
      BY <3>1, <3>3, <1>1, <1>15 DEF FreePages
    <3> QED BY <3>2, <3>3, <1>11
  <2>2. ASSUME NEW x \in FreePages \ taken PROVE x \in FreePages'
    <3>1. PICK p \in Heads : x \in FreeRun(p)
      BY DEF FreePages
    <3>2. CASE p # page
      <4>1. p \in Heads' /\ x \in FreeRun(p)'
        BY <3>1, <3>2, <1>11, <1>14
      <4> QED BY <4>1 DEF FreePages
    <3>3. CASE p = page
      <4>1. longer
        BY <2>2, <3>1, <3>3, <1>16
      <4>2. rest \in Heads' /\ x \in FreeRun(rest)'
        BY <2>2, <3>1, <3>3, <4>1, <1>11, <1>15
      <4> QED BY <4>2 DEF FreePages
    <3> QED BY <3>2, <3>3
  <2> QED BY <2>1, <2>2
<1> QED BY <1>11, <1>13, <1>17, <1>18, <1>19 DEF taken

(* The list after free_pages: the new first page is on it unless the run    *)
(* before took it over, the run behind is off it if it was taken over.      *)
LEMMA ListOfFree ==
    ASSUME TypeOK, IsInjective(pages_list),
           NEW i \in 1 .. Len(pages_list) + 1, NEW page \in Pages,
           NEW before \in BOOLEAN, NEW behind \in BOOLEAN,
           page \notin Heads,
           behind => i <= Len(pages_list)
    PROVE  /\ ListAfterFree(i, page, before, behind) \in Seq(Pages)
           /\ IsInjective(ListAfterFree(i, page, before, behind))
           /\ Range(ListAfterFree(i, page, before, behind)) =
                (Heads \cup (IF before THEN {} ELSE {page}))
                    \ (IF behind THEN {pages_list[i]} ELSE {})
<1> DEFINE linked == IF before THEN pages_list ELSE InsertAt(pages_list, i, page)
           k == IF before THEN i ELSE i + 1
<1>1. pages_list \in Seq(Pages) /\ Len(pages_list) \in Nat /\ i \in Int /\ 1 <= i
  BY DEF TypeOK
<1>2. /\ linked \in Seq(Pages) /\ IsInjective(linked)
      /\ Range(linked) = Heads \cup (IF before THEN {} ELSE {page})
      /\ Len(linked) = IF before THEN Len(pages_list) ELSE Len(pages_list) + 1
      /\ behind => linked[k] = pages_list[i]
  <2>1. CASE before
    BY <2>1, <1>1 DEF Heads
  <2>2. CASE ~before
    <3>1. linked = InsertAt(pages_list, i, page) /\ k = i + 1
      BY <2>2
    <3> QED BY <2>2, <3>1, <1>1, InsertAtList DEF Heads
  <2> QED BY <2>1, <2>2
<1>3. behind => k \in 1 .. Len(linked)
  BY <1>1, <1>2
<1>4. ListAfterFree(i, page, before, behind) =
        IF behind THEN RemoveAt(linked, k) ELSE linked
  BY DEF ListAfterFree
<1> HIDE DEF linked, k
<1>5. CASE behind
  <2>1. /\ RemoveAt(linked, k) \in Seq(Pages)
        /\ IsInjective(RemoveAt(linked, k))
        /\ Range(RemoveAt(linked, k)) = Range(linked) \ {linked[k]}
    BY <1>2, <1>3, <1>5, RemoveAtList
  <2> QED BY <1>2, <1>4, <1>5, <2>1
<1>6. CASE ~behind
  BY <1>2, <1>4, <1>6
<1> QED BY <1>5, <1>6

(* Putting pages back (free_pages): the pages and the runs they merge with  *)
(* are one run, the other runs stay.                                        *)
LEMMA JoinRuns ==
    ASSUME TypeOK, RunsApart,
           NEW i \in 1 .. Len(pages_list) + 1, NEW page \in Pages, NEW n \in Nat \ {0},
           Extent(page, n) \subseteq Pages,
           Extent(page, n) \cap FreePages = {},
           NEW before \in BOOLEAN, before <=> MergesBefore(i, page),
           NEW behind \in BOOLEAN, behind <=> MergesBehind(i, page, n),
           NEW head, head = IF before THEN pages_list[i - 1] ELSE page,
           pages_list' = ListAfterFree(i, page, before, behind),
           free_page_num' =
               [free_page_num EXCEPT ![page] = n,
                                     ![head] = LengthAfterFree(i, n, before, behind)]
    PROVE  /\ pages_list' \in Seq(Pages)
           /\ free_page_num' \in [Pages -> 0 .. PageNum]
           /\ RunsApart'
           /\ FreePages' = FreePages \cup Extent(page, n)
<1> DEFINE back == Extent(page, n)
           length == LengthAfterFree(i, n, before, behind)
           next == page + n
           lower == IF before THEN FreeRun(head) ELSE {}
           upper == IF behind THEN FreeRun(next) ELSE {}
<1>1. pages_list \in Seq(Pages) /\ Len(pages_list) \in Nat /\ i \in Int /\ 1 <= i
      /\ i <= Len(pages_list) + 1 /\ n \in Int /\ n > 0
  BY DEF TypeOK
<1>2. /\ Pages \subseteq Int
      /\ \A p \in Pages : 0 <= p /\ p < PageNum
      /\ \A p \in Pages : free_page_num[p] \in Int /\ 0 <= free_page_num[p]
      /\ PageNum \in Nat /\ page \in Int
  BY PageAssumption DEF Pages, TypeOK
<1>3. Heads \subseteq Pages /\ \A j \in 1 .. Len(pages_list) : pages_list[j] \in Heads
  BY <1>1 DEF Heads, Range
<1>4. \A p \in Heads : \A x : x \in FreeRun(p) <=> x \in Int /\ p <= x /\ x < p + free_page_num[p]
  BY <1>2, <1>3, ExtentElements DEF FreeRun
<1>5. \A x : x \in back <=> x \in Int /\ page <= x /\ x < page + n
  BY <1>1, <1>2, ExtentElements
<1>6. \A p \in Heads : FreeRun(p) \subseteq Pages /\ p \in FreeRun(p) /\ free_page_num[p] > 0
  <2> SUFFICES ASSUME NEW p \in Heads
               PROVE  FreeRun(p) \subseteq Pages /\ p \in FreeRun(p) /\ free_page_num[p] > 0
    OBVIOUS
  <2>1. PICK x : x \in FreeRun(p)
    BY DEF RunsApart
  <2>2. p \in Int /\ free_page_num[p] \in Int
    BY <1>2, <1>3
  <2> QED BY <2>1, <2>2, <1>4 DEF RunsApart
<1>7. \A p \in Heads : FreeRun(p) \cap back = {} /\ p # page
  <2> SUFFICES ASSUME NEW p \in Heads PROVE FreeRun(p) \cap back = {} /\ p # page
    OBVIOUS
  <2>1. FreeRun(p) \subseteq FreePages
    BY DEF FreePages
  <2>2. page \in back
    BY <1>1, <1>2, <1>5
  <2>3. FreeRun(p) \cap back = {}
    BY <2>1
  <2> QED BY <2>2, <2>3, <1>6
<1>8. before => head \in Heads /\ head + free_page_num[head] = page
  <2> SUFFICES ASSUME before
               PROVE  head \in Heads /\ head + free_page_num[head] = page
    OBVIOUS
  <2>1. i - 1 \in 1 .. Len(pages_list)
    BY <1>1 DEF MergesBefore
  <2> QED BY <2>1, <1>3 DEF MergesBefore
<1>9. behind => next \in Heads /\ pages_list[i] = next /\ i <= Len(pages_list)
  <2> SUFFICES ASSUME behind
               PROVE  next \in Heads /\ pages_list[i] = next /\ i <= Len(pages_list)
    OBVIOUS
  <2>1. i \in 1 .. Len(pages_list) /\ next = pages_list[i]
    BY <1>1 DEF MergesBehind
  <2> QED BY <2>1, <1>3
<1>10. /\ length \in Int /\ length > 0
       /\ length = n + (IF before THEN free_page_num[head] ELSE 0)
                     + (IF behind THEN free_page_num[next] ELSE 0)
  <2>1. length = n + (IF before THEN free_page_num[head] ELSE 0)
                   + (IF behind THEN free_page_num[next] ELSE 0)
    BY <1>8, <1>9 DEF LengthAfterFree
  <2>2. before => free_page_num[head] \in Int /\ 0 <= free_page_num[head]
    BY <1>2, <1>3, <1>8
  <2>3. behind => free_page_num[next] \in Int /\ 0 <= free_page_num[next]
    BY <1>2, <1>3, <1>9
  <2> HIDE DEF length, next
  <2> QED BY <2>1, <2>2, <2>3, <1>1
<1>11. ~before => head = page
  OBVIOUS
<1> HIDE DEF back, length
<1>12. /\ pages_list' \in Seq(Pages)
       /\ IsInjective(pages_list')
       /\ Heads' = (Heads \cup {head}) \ (IF behind THEN {next} ELSE {})
  <2>1. page \notin Heads /\ (behind => i <= Len(pages_list))
    BY <1>7, <1>9
  <2>2. /\ pages_list' \in Seq(Pages)
        /\ IsInjective(pages_list')
        /\ Range(pages_list') = (Heads \cup (IF before THEN {} ELSE {page}))
                                    \ (IF behind THEN {pages_list[i]} ELSE {})
    BY <2>1, ListOfFree DEF RunsApart
  <2>3. Heads' = Range(pages_list')
    BY DEF Heads
  <2>4. Heads \cup (IF before THEN {} ELSE {page}) = Heads \cup {head}
    BY <1>8, <1>11
  <2> QED BY <2>2, <2>3, <2>4, <1>9
<1>13. head \in Pages /\ head \in Int /\ head <= page /\ (behind => head # next)
  <2>1. CASE before
    <3>1. head \in Pages /\ head \in Int /\ free_page_num[head] \in Int
          /\ free_page_num[head] > 0
      BY <2>1, <1>2, <1>3, <1>6, <1>8
    <3> QED BY <2>1, <3>1, <1>1, <1>2, <1>8
  <2>2. CASE ~before
    BY <2>2, <1>1, <1>2, <1>11
  <2> QED BY <2>1, <2>2
<1>14. \A p \in Pages : free_page_num'[p] = IF p = head THEN length
                                            ELSE IF p = page THEN n ELSE free_page_num[p]
  BY <1>13 DEF TypeOK, length
<1>15. \A x : x \in FreeRun(head)' <=> x \in back \cup lower \cup upper
  <2>1. FreeRun(head)' = Extent(head, length)
    BY <1>13, <1>14 DEF FreeRun
  <2>2. \A x : x \in FreeRun(head)' <=> x \in Int /\ head <= x /\ x < head + length
    BY <2>1, <1>10, <1>13, ExtentElements
  <2>3. /\ \A x : before => (x \in lower <=> x \in Int /\ head <= x /\ x < page)
        /\ \A x : behind => (x \in upper <=>
                               x \in Int /\ next <= x /\ x < next + free_page_num[next])
    BY <1>4, <1>8, <1>9
  <2>4. before => free_page_num[head] = page - head /\ free_page_num[head] \in Int
    BY <1>2, <1>3, <1>8, <1>13
  <2>5. behind => free_page_num[next] \in Int /\ free_page_num[next] > 0
    BY <1>2, <1>3, <1>6, <1>9
  <2>6. CASE before /\ behind
    <3>1. length = n + (page - head) + free_page_num[next]
      BY <2>4, <2>6, <1>10
    <3>2. head + length = next + free_page_num[next] /\ head <= page /\ page < next
      <4>1. behind /\ next \in Int /\ next = page + n
        BY <2>6, <1>1, <1>2
      <4> HIDE DEF next
      <4>2. /\ n \in Int /\ n > 0 /\ page \in Int /\ head \in Int /\ head <= page
            /\ free_page_num[next] \in Int
        BY <2>5, <4>1, <1>1, <1>2, <1>13
      <4>3. head + (n + (page - head) + free_page_num[next]) = page + n + free_page_num[next]
        BY <4>2
      <4> QED BY <3>1, <4>1, <4>2, <4>3
    <3> QED BY <2>2, <2>3, <2>5, <2>6, <3>2, <1>2, <1>5, <1>13
  <2>7. CASE before /\ ~behind
    <3>1. head + length = next /\ head <= page /\ page < next
      <4>1. length = n + (page - head)
        BY <2>4, <2>7, <1>10, <1>1
      <4>2. n \in Int /\ n > 0 /\ page \in Int /\ head \in Int /\ head <= page
        BY <1>1, <1>2, <1>13
      <4>3. head + (n + (page - head)) = page + n /\ page < page + n
        BY <4>2
      <4> QED BY <4>1, <4>2, <4>3
    <3> QED BY <2>2, <2>3, <2>7, <3>1, <1>2, <1>5, <1>13
  <2>8. CASE ~before /\ behind
    <3>1. head = page /\ head + length = next + free_page_num[next] /\ page < next
      <4>1. head = page /\ length = n + free_page_num[next]
        BY <2>5, <2>8, <1>1, <1>10, <1>11
      <4>2. n \in Int /\ n > 0 /\ page \in Int /\ free_page_num[next] \in Int
        BY <2>5, <2>8, <1>1, <1>2
      <4>3. page + (n + free_page_num[next]) = page + n + free_page_num[next] /\ page < page + n
        BY <4>2
      <4> QED BY <4>1, <4>2, <4>3
    <3> QED BY <2>2, <2>3, <2>5, <2>8, <3>1, <1>2, <1>5
  <2>9. CASE ~before /\ ~behind
    <3>1. head = page /\ length = n
      BY <2>9, <1>1, <1>10, <1>11
    <3> QED BY <2>2, <2>9, <3>1, <1>2, <1>5
  <2> QED BY <2>6, <2>7, <2>8, <2>9
<1>16. \A p \in Heads' \ {head} :
         p \in Heads /\ (behind => p # next) /\ FreeRun(p)' = FreeRun(p)
  <2> SUFFICES ASSUME NEW p \in Heads' \ {head}
               PROVE  p \in Heads /\ (behind => p # next) /\ FreeRun(p)' = FreeRun(p)
    OBVIOUS
  <2>1. p \in Heads /\ p # head /\ (behind => p # next)
    BY <1>12
  <2>2. free_page_num'[p] = free_page_num[p]
    BY <2>1, <1>3, <1>7, <1>14
  <2> QED BY <2>1, <2>2 DEF FreeRun
<1>17. lower \subseteq FreePages /\ upper \subseteq FreePages /\ back \subseteq Pages
       /\ FreePages \subseteq Pages
  BY <1>6, <1>8, <1>9 DEF FreePages, back
<1>18. page \in back /\ FreeRun(head)' # {} /\ FreeRun(head)' \subseteq Pages
  <2>1. page \in back
    BY <1>1, <1>2, <1>5
  <2> HIDE DEF lower, upper
  <2>2. \A x : x \in FreeRun(head)' => x \in Pages
    BY <1>15, <1>17
  <2> QED BY <2>1, <2>2, <1>15
<1>19. free_page_num' \in [Pages -> 0 .. PageNum]
  <2>1. FreeRun(head)' = Extent(head, length)
    BY <1>13, <1>14 DEF FreeRun
  <2>2. head + length - 1 \in Extent(head, length)
    BY <1>10, <1>13, ExtentElements, SMTT(30)
  <2>3. head + length - 1 < PageNum
    BY <2>1, <2>2, <1>2, <1>18
  <2>4. 0 <= head
    BY <1>2, <1>13
  <2>5. length \in 0 .. PageNum
    BY <2>3, <2>4, <1>2, <1>10, <1>13
  <2>6. page + n - 1 \in back
    BY <1>1, <1>2, <1>5
  <2>7. page + n - 1 < PageNum /\ 0 <= page
    BY <2>6, <1>2, <1>17
  <2>8. n \in 0 .. PageNum
    BY <2>7, <1>1, <1>2
  <2> QED BY <2>5, <2>8 DEF TypeOK, length
<1>20. head \in Heads'
  BY <1>12, <1>13
<1>21. \A p \in Heads' \ {head} : FreeRun(p)' \cap FreeRun(head)' = {}
  <2> SUFFICES ASSUME NEW p \in Heads' \ {head}
               PROVE  FreeRun(p)' \cap FreeRun(head)' = {}
    OBVIOUS
  <2>1. p \in Heads /\ p # head /\ FreeRun(p) \cap back = {}
    BY <1>7, <1>16
  <2>2. FreeRun(p) \cap lower = {}
    BY <2>1, <1>8 DEF RunsApart
  <2>3. FreeRun(p) \cap upper = {}
    BY <2>1, <1>9, <1>16 DEF RunsApart
  <2> QED BY <2>1, <2>2, <2>3, <1>15, <1>16
<1>22. RunsApart'
  <2>1. \A p \in Heads' : FreeRun(p)' \subseteq Pages /\ FreeRun(p)' # {}
    BY <1>6, <1>16, <1>18
  <2>2. ASSUME NEW p \in Heads', NEW q \in Heads', p # q
        PROVE  FreeRun(p)' \cap FreeRun(q)' = {}
    <3>1. CASE p # head /\ q # head
      BY <2>2, <3>1, <1>16 DEF RunsApart
    <3>2. CASE p = head
      BY <2>2, <3>2, <1>21
    <3>3. CASE q = head
      BY <2>2, <3>3, <1>21
    <3> QED BY <3>1, <3>2, <3>3
  <2> QED BY <2>1, <2>2, <1>12 DEF RunsApart, Pages
<1>23. FreePages' = FreePages \cup back
  <2>1. ASSUME NEW x \in FreePages' PROVE x \in FreePages \cup back
    <3>1. PICK p \in Heads' : x \in FreeRun(p)'
      BY DEF FreePages
    <3>2. CASE p = head
      BY <3>1, <3>2, <1>15, <1>17
    <3>3. CASE p # head
      BY <3>1, <3>3, <1>16 DEF FreePages
    <3> QED BY <3>2, <3>3
  <2>2. ASSUME NEW x \in back PROVE x \in FreePages'
    BY <1>15, <1>20 DEF FreePages
  <2>3. ASSUME NEW x \in FreePages PROVE x \in FreePages'
    <3>1. PICK p \in Heads : x \in FreeRun(p)
      BY DEF FreePages
    <3>2. CASE p = head
      <4>1. before
        BY <3>2, <1>7, <1>11
      <4>2. x \in FreeRun(head)'
        BY <3>1, <3>2, <4>1, <1>15
      <4> QED BY <4>2, <1>20 DEF FreePages
    <3>3. CASE behind /\ p = next
      <4>1. x \in FreeRun(head)'
        BY <3>1, <3>3, <1>15
      <4> QED BY <4>1, <1>20 DEF FreePages
    <3>4. CASE p # head /\ ~(behind /\ p = next)
      <4>1. p \in Heads' \ {head}
        BY <3>4, <1>12
      <4>2. x \in FreeRun(p)'
        BY <3>1, <4>1, <1>16
      <4> QED BY <4>1, <4>2 DEF FreePages
    <3> QED BY <3>2, <3>3, <3>4
  <2> QED BY <2>1, <2>2, <2>3
<1> QED BY <1>12, <1>19, <1>22, <1>23 DEF back

-----------------------------------------------------------------------------
(* page_init establishes the invariant.                                     *)
LEMMA InitPageInvariant == Init => PageInvariant
<1> SUFFICES ASSUME Init PROVE PageInvariant
  OBVIOUS
<1>1. /\ PageNum \in Nat /\ Reserved \in Nat /\ Reserved < PageNum /\ Reserved \in Pages
      /\ 0 \in Pages /\ Pages \subseteq Int /\ MaxRequest \in Nat \ {0}
  BY PageAssumption DEF Pages
<1>2. TypeOK
  <2>1. PageNum - Reserved \in 0 .. PageNum
    BY <1>1
  <2>2. arg \in [Harts -> [first : Pages, n : 0 .. MaxRequest]]
    BY <1>1 DEF Init
  <2> QED BY <1>1, <2>1, <2>2 DEF Init, TypeOK
<1>3. Heads = {Reserved} /\ IsInjective(pages_list)
  BY DEF Init, Heads, Range, IsInjective
<1>4. free_page_num[Reserved] = PageNum - Reserved
  BY <1>1 DEF Init
<1>5. FreeRun(Reserved) = Extent(Reserved, PageNum - Reserved)
  BY <1>4 DEF FreeRun
<1>6. \A x : x \in FreeRun(Reserved) <=> x \in Pages /\ ~(x < Reserved)
  <2>1. \A x : x \in FreeRun(Reserved) <=> x \in Int /\ Reserved <= x /\ x < Reserved + (PageNum - Reserved)
    BY <1>1, <1>5, ExtentElements
  <2> QED BY <2>1, <1>1 DEF Pages
<1>7. FreePages = FreeRun(Reserved)
  BY <1>3 DEF FreePages
<1>8. RunsApart
  BY <1>1, <1>3, <1>6 DEF RunsApart
<1>9. \A h \in Harts : GivenUp(h) = {}
  BY DEF Init, GivenUp
<1>10. OnePageOneOwner
  <2>1. held = {}
    BY DEF Init
  <2>2. \A p : p \in Pages <=> p \in ReservedPages \/ p \in FreePages
    BY <1>6, <1>7 DEF ReservedPages
  <2>3. ReservedPages \cap FreePages = {}
    BY <1>6, <1>7 DEF ReservedPages
  <2>4. InTransit = {}
    BY <1>9 DEF InTransit
  <2>5. Pages = ReservedPages \cup FreePages \cup held \cup InTransit
    BY <2>1, <2>2, <2>4
  <2> QED BY <2>1, <2>3, <2>5, <1>9 DEF OnePageOneOwner
<1>11. FlagsTell
  BY DEF Init, FlagsTell
<1>12. PageNumCounts
  <2>1. Cardinality(Extent(Reserved, PageNum - Reserved)) = PageNum - Reserved
    BY <1>1, ExtentCardinality
  <2> QED BY <2>1, <1>5, <1>7 DEF PageNumCounts, Init
<1>13. CallsMeanPages
  BY DEF Init, CallsMeanPages
<1> QED BY <1>2, <1>8, <1>10, <1>11, <1>12, <1>13 DEF PageInvariant

-----------------------------------------------------------------------------
(* A step that changes no page and begins or ends no free_pages.            *)
LEMMA CallOnly ==
    ASSUME PageInvariant, NEW h \in Harts, pc[h] # "free",
           NEW where \in {"idle", "alloc"}, NEW n \in 0 .. MaxRequest,
           where = "alloc" => n > 0,
           Begin(h, where, 0, n),
           UNCHANGED <<flag, ref_cnt, free_page_num, pages_list, page_num, held>>
    PROVE  PageInvariant'
<1>1. 0 \in Pages
  BY PageAssumption DEF Pages
<1>2. TypeOK'
  BY <1>1 DEF PageInvariant, TypeOK, Begin
<1>3. /\ Heads' = Heads
      /\ \A p : FreeRun(p)' = FreeRun(p)
      /\ FreePages' = FreePages
      /\ ReservedPages' = ReservedPages
  BY DEF Heads, FreeRun, FreePages, ReservedPages
<1>4. RunsApart'
  BY <1>3 DEF PageInvariant, RunsApart
<1>5. \A g \in Harts : GivenUp(g)' = GivenUp(g)
  BY DEF PageInvariant, TypeOK, Begin, GivenUp
<1>6. OnePageOneOwner'
  <2>1. \A g \in Harts : GivenUp(g)' \cap (FreePages' \cup held' \cup ReservedPages') = {}
    BY <1>3, <1>5 DEF PageInvariant, OnePageOneOwner
  <2>2. \A f, g \in Harts : f # g => GivenUp(f)' \cap GivenUp(g)' = {}
    BY <1>5 DEF PageInvariant, OnePageOneOwner
  <2>3. InTransit' = InTransit
    BY <1>5 DEF InTransit
  <2> QED BY <2>1, <2>2, <2>3, <1>3 DEF PageInvariant, OnePageOneOwner, Pages
<1>7. FlagsTell'
  BY DEF PageInvariant, FlagsTell
<1>8. PageNumCounts'
  BY <1>3 DEF PageInvariant, PageNumCounts
<1>9. CallsMeanPages'
  BY DEF PageInvariant, CallsMeanPages, TypeOK, Begin
<1> QED BY <1>2, <1>4, <1>6, <1>7, <1>8, <1>9 DEF PageInvariant

(* alloc_pages with the lock: pages go from the list to the caller.         *)
LEMMA TakeStep ==
    ASSUME PageInvariant, NEW h \in Harts, AllocTake(h)
    PROVE  /\ PageInvariant'
           /\ \E first \in Pages, n \in 1 .. MaxRequest :
                /\ Extent(first, n) \subseteq FreePages
                /\ FreePages' = FreePages \ Extent(first, n)
                /\ held' = held \cup Extent(first, n)
<1>1. PICK n : n = arg[h].n
  OBVIOUS
<1>2. PICK i \in Fits(n) :
        /\ pages_list' = ListAfterTake(i, n)
        /\ free_page_num' = LengthsAfterTake(pages_list[i], n)
        /\ flag' = [p \in Pages |-> IF p \in Extent(pages_list[i], n) THEN "USED" ELSE flag[p]]
        /\ ref_cnt' = [p \in Pages |-> IF p \in Extent(pages_list[i], n)
                                       THEN ref_cnt[p] + 1 ELSE ref_cnt[p]]
        /\ page_num' = page_num - n
        /\ held' = held \cup Extent(pages_list[i], n)
        /\ Return(h)
  BY <1>1 DEF AllocTake
<1>3. PICK page : page = pages_list[i]
  OBVIOUS
<1>4. i \in DOMAIN pages_list /\ n <= free_page_num[page] /\ page \in Pages
  BY <1>2, <1>3 DEF Fits, PageInvariant, TypeOK
<1>5. pc[h] = "alloc" /\ n \in 1 .. MaxRequest /\ n \in Nat \ {0}
  <2>1. pc[h] = "alloc"
    BY DEF AllocTake
  <2>2. n \in 0 .. MaxRequest /\ n > 0
    BY <2>1, <1>1 DEF PageInvariant, TypeOK, CallsMeanPages
  <2> QED BY <2>1, <2>2, PageAssumption
<1> DEFINE taken == Extent(page, n)
<1>6. /\ pages_list' \in Seq(Pages)
      /\ free_page_num' \in [Pages -> 0 .. PageNum]
      /\ RunsApart'
      /\ taken \subseteq FreePages
      /\ FreePages' = FreePages \ taken
  BY <1>2, <1>3, <1>4, <1>5, TakeFromRun DEF PageInvariant
<1>7. /\ flag' = [p \in Pages |-> IF p \in taken THEN "USED" ELSE flag[p]]
      /\ ref_cnt' = [p \in Pages |-> IF p \in taken THEN ref_cnt[p] + 1 ELSE ref_cnt[p]]
      /\ page_num' = page_num - n
      /\ held' = held \cup taken
  BY <1>2, <1>3
<1>8. FreePages \subseteq Pages /\ ReservedPages' = ReservedPages
  BY DEF PageInvariant, RunsApart, FreePages, ReservedPages
<1>9. IsFiniteSet(taken) /\ Cardinality(taken) = n
  BY <1>4, <1>5, ExtentCardinality, PageAssumption DEF Pages
<1>10. IsFiniteSet(FreePages) /\ IsFiniteSet(FreePages')
       /\ Cardinality(FreePages) \in 0 .. PageNum /\ Cardinality(FreePages') \in 0 .. PageNum
  <2>1. FreePages \in SUBSET Pages /\ FreePages' \in SUBSET Pages
    BY <1>6, <1>8
  <2> HIDE DEF taken
  <2>2. \A S \in SUBSET Pages : IsFiniteSet(S) /\ Cardinality(S) \in 0 .. PageNum
    BY PagesFinite
  <2> QED BY <2>1, <2>2
<1> HIDE DEF taken
<1>11. PageNumCounts'
  <2>1. FreePages \cap taken = taken
    BY <1>6
  <2>2. Cardinality(FreePages \ taken) = Cardinality(FreePages) - Cardinality(FreePages \cap taken)
    BY <1>10, FS_Difference
  <2> QED BY <2>1, <2>2, <1>6, <1>7, <1>9 DEF PageInvariant, PageNumCounts
<1>12. \A p \in Pages : p \in taken => p \notin held /\ ~(p < Reserved) /\ flag[p] = "FREE" /\ ref_cnt[p] = 0
  <2> SUFFICES ASSUME NEW p \in Pages, p \in taken
               PROVE  p \notin held /\ ~(p < Reserved) /\ flag[p] = "FREE" /\ ref_cnt[p] = 0
    OBVIOUS
  <2>1. p \notin held /\ p \notin ReservedPages
    BY <1>6 DEF PageInvariant, OnePageOneOwner
  <2>2. ~(p < Reserved)
    BY <2>1 DEF ReservedPages
  <2>3. flag[p] = "FREE"
    BY <2>1, <2>2 DEF PageInvariant, FlagsTell, TypeOK
  <2> QED BY <2>1, <2>2, <2>3 DEF PageInvariant, FlagsTell
<1>13. TypeOK'
  <2>1. flag' \in [Pages -> {"RESERVE", "USED", "FREE"}]
    BY <1>7 DEF PageInvariant, TypeOK
  <2>2. ref_cnt' \in [Pages -> 0 .. 1]
    BY <1>7, <1>12 DEF PageInvariant, TypeOK
  <2>3. page_num' \in 0 .. PageNum
    BY <1>10, <1>11 DEF PageNumCounts
  <2>4. held' \subseteq Pages
    BY <1>6, <1>7, <1>8 DEF PageInvariant, TypeOK
  <2>5. pc' \in [Harts -> {"idle", "alloc", "free"}]
        /\ arg' \in [Harts -> [first : Pages, n : 0 .. MaxRequest]]
    <3>1. 0 \in Pages /\ 0 \in 0 .. MaxRequest
      BY PageAssumption DEF Pages
    <3> QED BY <3>1, <1>2 DEF Return, Begin, PageInvariant, TypeOK
  <2> QED BY <2>1, <2>2, <2>3, <2>4, <2>5, <1>6 DEF TypeOK, Pages
<1>14. FlagsTell'
  <2>1. \A p \in Pages : flag'[p] = (IF p \in taken THEN "USED" ELSE flag[p])
                      /\ ref_cnt'[p] = (IF p \in taken THEN ref_cnt[p] + 1 ELSE ref_cnt[p])
    BY <1>7
  <2>2. ASSUME NEW p \in Pages
        PROVE  /\ flag'[p] = "USED" <=> p \in held'
               /\ flag'[p] = "RESERVE" <=> p < Reserved
               /\ ref_cnt'[p] = 0 <=> flag'[p] = "FREE"
    <3>1. CASE p \in taken
      BY <3>1, <2>1, <1>7, <1>12
    <3>2. CASE p \notin taken
      BY <3>2, <2>1, <1>7 DEF PageInvariant, FlagsTell
    <3> QED BY <3>1, <3>2
  <2> QED BY <2>2 DEF FlagsTell, Pages
<1>15. \A g \in Harts : GivenUp(g)' = GivenUp(g)
  BY <1>2, <1>5 DEF Return, Begin, GivenUp, PageInvariant, TypeOK
<1>16. OnePageOneOwner'
  <2>1. \A g \in Harts : GivenUp(g)' \cap (FreePages' \cup held' \cup ReservedPages') = {}
    BY <1>6, <1>7, <1>8, <1>15 DEF PageInvariant, OnePageOneOwner
  <2>2. \A f, g \in Harts : f # g => GivenUp(f)' \cap GivenUp(g)' = {}
    BY <1>15 DEF PageInvariant, OnePageOneOwner
  <2>3. InTransit' = InTransit
    BY <1>15 DEF InTransit
  <2>4. FreePages' \cap held' = {} /\ ReservedPages' \cap (FreePages' \cup held') = {}
    BY <1>6, <1>7, <1>8 DEF PageInvariant, OnePageOneOwner
  <2>5. FreePages \cup held = FreePages' \cup held'
    BY <1>6, <1>7
  <2> QED BY <2>1, <2>2, <2>3, <2>4, <2>5, <1>8 DEF PageInvariant, OnePageOneOwner, Pages
<1>17. CallsMeanPages'
  BY <1>2 DEF Return, Begin, PageInvariant, CallsMeanPages, TypeOK
<1> QED BY <1>4, <1>5, <1>6, <1>7, <1>11, <1>13, <1>14, <1>16, <1>17 DEF PageInvariant, taken

(* free_pages before the lock: the caller gives its pages up, the flags say *)
(* so, and because they said that the pages were in use the loop runs to    *)
(* its end.                                                                 *)
LEMMA MarkStep ==
    ASSUME PageInvariant, NEW h \in Harts,
           NEW first \in Pages, NEW n \in 1 .. MaxRequest, FreeMark(h, first, n)
    PROVE  /\ PageInvariant'
           /\ Extent(first, n) \subseteq held
           /\ held' = held \ Extent(first, n)
           /\ FreePages' = FreePages
<1> DEFINE back == Extent(first, n)
<1>1. back \subseteq held /\ held \subseteq Pages /\ pc[h] = "idle"
      /\ first \in Int /\ n \in Int /\ n > 0
  BY PageAssumption DEF FreeMark, PageInvariant, TypeOK, Pages
<1>2. \A x : x \in back <=> x \in Int /\ first <= x /\ x < first + n
  BY <1>1, ExtentElements
<1>3. \A p \in back : p \in Pages /\ flag[p] = "USED" /\ ref_cnt[p] = 1 /\ ~(p < Reserved)
  <2> SUFFICES ASSUME NEW p \in back
               PROVE  p \in Pages /\ flag[p] = "USED" /\ ref_cnt[p] = 1 /\ ~(p < Reserved)
    OBVIOUS
  <2>1. p \in Pages /\ flag[p] = "USED" /\ ref_cnt[p] \in 0 .. 1
    BY <1>1 DEF PageInvariant, FlagsTell, TypeOK
  <2> QED BY <2>1 DEF PageInvariant, FlagsTell
<1>4. {p \in back : \A q \in first .. p : flag[q] = "USED"} = back
  <2>1. ASSUME NEW p \in back, NEW q \in first .. p PROVE flag[q] = "USED"
    <3>1. q \in back
      BY <1>1, <1>2
    <3> QED BY <3>1, <1>3
  <2> QED BY <2>1
<1>5. /\ held' = held \ back
      /\ flag' = [p \in Pages |-> IF p \in back THEN "FREE" ELSE flag[p]]
      /\ ref_cnt' = [p \in Pages |-> IF p \in back THEN ref_cnt[p] - 1 ELSE ref_cnt[p]]
      /\ Begin(h, "free", first, n)
      /\ UNCHANGED <<free_page_num, pages_list, page_num>>
  BY <1>4 DEF FreeMark, UsedPrefix
<1> HIDE DEF back
<1>6. TypeOK'
  <2>1. ref_cnt' \in [Pages -> 0 .. 1]
    BY <1>3, <1>5 DEF PageInvariant, TypeOK
  <2>2. n \in 0 .. MaxRequest
    BY PageAssumption
  <2>3. pc' \in [Harts -> {"idle", "alloc", "free"}]
        /\ arg' \in [Harts -> [first : Pages, n : 0 .. MaxRequest]]
    BY <2>2, <1>5 DEF Begin, PageInvariant, TypeOK
  <2>4. flag' \in [Pages -> {"RESERVE", "USED", "FREE"}] /\ held' \subseteq Pages
    BY <1>5 DEF PageInvariant, TypeOK
  <2> QED BY <2>1, <2>3, <2>4, <1>5 DEF PageInvariant, TypeOK, Pages
<1>7. /\ Heads' = Heads
      /\ \A p : FreeRun(p)' = FreeRun(p)
      /\ FreePages' = FreePages
      /\ ReservedPages' = ReservedPages
  BY <1>5 DEF Heads, FreeRun, FreePages, ReservedPages
<1>8. RunsApart'
  BY <1>5, <1>7 DEF PageInvariant, RunsApart, Pages
<1>9. FlagsTell'
  <2>1. \A p \in Pages : flag'[p] = (IF p \in back THEN "FREE" ELSE flag[p])
                      /\ ref_cnt'[p] = (IF p \in back THEN ref_cnt[p] - 1 ELSE ref_cnt[p])
    BY <1>5
  <2>2. ASSUME NEW p \in Pages
        PROVE  /\ flag'[p] = "USED" <=> p \in held'
               /\ flag'[p] = "RESERVE" <=> p < Reserved
               /\ ref_cnt'[p] = 0 <=> flag'[p] = "FREE"
    <3>1. CASE p \in back
      BY <3>1, <2>1, <1>3, <1>5
    <3>2. CASE p \notin back
      BY <3>2, <2>1, <1>5 DEF PageInvariant, FlagsTell
    <3> QED BY <3>1, <3>2
  <2> QED BY <2>2 DEF FlagsTell, Pages
<1>10. GivenUp(h) = {} /\ GivenUp(h)' = back
       /\ \A g \in Harts \ {h} : GivenUp(g)' = GivenUp(g)
  BY <1>1, <1>5 DEF Begin, GivenUp, PageInvariant, TypeOK, back
<1>11. OnePageOneOwner'
  <2>1. back \cap (FreePages \cup ReservedPages) = {}
    BY <1>1 DEF PageInvariant, OnePageOneOwner
  <2>2. \A g \in Harts : GivenUp(g)' \cap (FreePages' \cup held' \cup ReservedPages') = {}
    <3> SUFFICES ASSUME NEW g \in Harts
                 PROVE  GivenUp(g)' \cap (FreePages' \cup held' \cup ReservedPages') = {}
      OBVIOUS
    <3>1. CASE g = h
      BY <3>1, <2>1, <1>5, <1>7, <1>10
    <3>2. CASE g # h
      <4>1. GivenUp(g) \cap (FreePages \cup held \cup ReservedPages) = {}
        BY DEF PageInvariant, OnePageOneOwner
      <4> QED BY <3>2, <4>1, <1>5, <1>7, <1>10
    <3> QED BY <3>1, <3>2
  <2>3. ASSUME NEW f \in Harts, NEW g \in Harts, f # g
        PROVE  GivenUp(f)' \cap GivenUp(g)' = {}
    <3>1. GivenUp(f) \cap GivenUp(g) = {} /\ GivenUp(f) \cap held = {} /\ GivenUp(g) \cap held = {}
      BY <2>3 DEF PageInvariant, OnePageOneOwner
    <3> QED BY <2>3, <3>1, <1>1, <1>10
  <2>4. InTransit' = InTransit \cup back
    <3>1. ASSUME NEW x, NEW g \in Harts, x \in GivenUp(g)'
          PROVE  x \in back \/ \E f \in Harts : x \in GivenUp(f)
      BY <3>1, <1>10
    <3>2. ASSUME NEW x, NEW g \in Harts, x \in GivenUp(g)
          PROVE  \E f \in Harts : x \in GivenUp(f)'
      BY <3>2, <1>10
    <3>3. ASSUME NEW x \in back PROVE \E f \in Harts : x \in GivenUp(f)'
      BY <1>10
    <3>4. \A x : x \in InTransit' <=> x \in InTransit \/ x \in back
      BY <3>1, <3>2, <3>3 DEF InTransit
    <3> QED BY <3>4
  <2>5. Pages = ReservedPages \cup FreePages \cup held \cup InTransit
    BY DEF PageInvariant, OnePageOneOwner
  <2>6. FreePages' \cap held' = {} /\ ReservedPages' \cap (FreePages' \cup held') = {}
    BY <1>5, <1>7 DEF PageInvariant, OnePageOneOwner
  <2>7. Pages = ReservedPages' \cup FreePages' \cup held' \cup InTransit'
    BY <2>4, <2>5, <1>1, <1>5, <1>7
  <2> QED BY <2>2, <2>3, <2>6, <2>7 DEF OnePageOneOwner, Pages
<1>12. PageNumCounts'
  BY <1>5, <1>7 DEF PageInvariant, PageNumCounts
<1>13. CallsMeanPages'
  <2>1. back \subseteq Pages
    BY <1>1
  <2> QED BY <2>1, <1>1, <1>5 DEF back, Begin, PageInvariant, CallsMeanPages, TypeOK, Pages
<1> QED BY <1>1, <1>5, <1>6, <1>7, <1>8, <1>9, <1>11, <1>12, <1>13 DEF PageInvariant, back

(* free_pages with the lock: the pages given up go to the list.             *)
LEMMA LinkStep ==
    ASSUME PageInvariant, NEW h \in Harts, FreeLink(h)
    PROVE  /\ PageInvariant'
           /\ \E first \in Pages, n \in 1 .. MaxRequest :
                /\ Extent(first, n) \subseteq Pages \ (FreePages \cup held)
                /\ FreePages' = FreePages \cup Extent(first, n)
                /\ held' = held
<1>1. PICK page : page = arg[h].first
  OBVIOUS
<1>2. PICK n : n = arg[h].n
  OBVIOUS
<1> DEFINE back == Extent(page, n)
<1>3. PICK i \in 1 .. Len(pages_list) + 1 :
        /\ pc[h] = "free"
        /\ pages_list' = ListAfterFree(i, page, MergesBefore(i, page), MergesBehind(i, page, n))
        /\ free_page_num' =
            [free_page_num EXCEPT
                ![page] = n,
                ![IF MergesBefore(i, page) THEN pages_list[i - 1] ELSE page] =
                    LengthAfterFree(i, n, MergesBefore(i, page), MergesBehind(i, page, n))]
        /\ page_num' = page_num + n
        /\ Return(h)
        /\ UNCHANGED <<flag, ref_cnt, held>>
  BY <1>1, <1>2 DEF FreeLink
<1>4. /\ page \in Pages /\ n \in 1 .. MaxRequest /\ n \in Nat \ {0}
      /\ back \subseteq Pages /\ GivenUp(h) = back
  <2>1. page \in Pages /\ n \in 0 .. MaxRequest
    BY <1>1, <1>2 DEF PageInvariant, TypeOK
  <2>2. n > 0 /\ back \subseteq Pages
    BY <1>1, <1>2, <1>3 DEF PageInvariant, CallsMeanPages
  <2>3. GivenUp(h) = back
    BY <1>1, <1>2, <1>3 DEF GivenUp
  <2> QED BY <2>1, <2>2, <2>3, PageAssumption
<1>5. back \cap (FreePages \cup held \cup ReservedPages) = {}
  BY <1>4 DEF PageInvariant, OnePageOneOwner
<1>6. PICK before \in BOOLEAN : before = MergesBefore(i, page)
  BY DEF MergesBefore
<1>7. PICK behind \in BOOLEAN : behind = MergesBehind(i, page, n)
  BY DEF MergesBehind
<1>8. PICK head : head = IF before THEN pages_list[i - 1] ELSE page
  OBVIOUS
<1>9. /\ pages_list' = ListAfterFree(i, page, before, behind)
      /\ free_page_num' =
            [free_page_num EXCEPT ![page] = n,
                                  ![head] = LengthAfterFree(i, n, before, behind)]
  BY <1>3, <1>6, <1>7, <1>8
<1>10. /\ pages_list' \in Seq(Pages)
       /\ free_page_num' \in [Pages -> 0 .. PageNum]
       /\ RunsApart'
       /\ FreePages' = FreePages \cup back
  <2>1. back \cap FreePages = {} /\ TypeOK /\ RunsApart
    BY <1>5 DEF PageInvariant
  <2>2. (before <=> MergesBefore(i, page)) /\ (behind <=> MergesBehind(i, page, n))
    BY <1>6, <1>7
  <2> QED BY <2>1, <2>2, <1>4, <1>8, <1>9, JoinRuns
<1>11. IsFiniteSet(back) /\ Cardinality(back) = n
  BY <1>4, ExtentCardinality, PageAssumption DEF Pages
<1> HIDE DEF back
<1>12. FreePages \subseteq Pages /\ FreePages' \subseteq Pages /\ ReservedPages' = ReservedPages
  BY <1>4, <1>10 DEF PageInvariant, RunsApart, FreePages, ReservedPages
<1>13. IsFiniteSet(FreePages) /\ Cardinality(FreePages) \in Nat
       /\ Cardinality(FreePages') \in 0 .. PageNum
  <2>1. \A S \in SUBSET Pages : IsFiniteSet(S) /\ Cardinality(S) \in 0 .. PageNum
    BY PagesFinite
  <2> QED BY <2>1, <1>12
<1>14. PageNumCounts'
  <2>1. FreePages \cap back = {}
    BY <1>5
  <2>2. Cardinality(FreePages \cap back) = 0
    BY <2>1, FS_EmptySet
  <2>3. Cardinality(FreePages \cup back) =
            Cardinality(FreePages) + Cardinality(back) - Cardinality(FreePages \cap back)
    BY <1>11, <1>13, FS_Union
  <2> QED BY <2>2, <2>3, <1>3, <1>4, <1>10, <1>11, <1>13 DEF PageInvariant, PageNumCounts
<1>15. TypeOK'
  <2>1. page_num' \in 0 .. PageNum
    BY <1>13, <1>14 DEF PageNumCounts
  <2>2. pc' \in [Harts -> {"idle", "alloc", "free"}]
        /\ arg' \in [Harts -> [first : Pages, n : 0 .. MaxRequest]]
    <3>1. 0 \in Pages /\ 0 \in 0 .. MaxRequest
      BY PageAssumption DEF Pages
    <3> QED BY <3>1, <1>3 DEF Return, Begin, PageInvariant, TypeOK
  <2> QED BY <2>1, <2>2, <1>3, <1>10 DEF PageInvariant, TypeOK, Pages
<1>16. FlagsTell'
  BY <1>3 DEF PageInvariant, FlagsTell, Pages
<1>17. GivenUp(h)' = {} /\ \A g \in Harts \ {h} : GivenUp(g)' = GivenUp(g)
  BY <1>3 DEF Return, Begin, GivenUp, PageInvariant, TypeOK
<1>18. OnePageOneOwner'
  <2>1. \A g \in Harts : GivenUp(g)' \cap (FreePages' \cup held' \cup ReservedPages') = {}
    <3> SUFFICES ASSUME NEW g \in Harts
                 PROVE  GivenUp(g)' \cap (FreePages' \cup held' \cup ReservedPages') = {}
      OBVIOUS
    <3>1. CASE g = h
      BY <3>1, <1>17
    <3>2. CASE g # h
      <4>1. /\ GivenUp(g) \cap (FreePages \cup held \cup ReservedPages) = {}
            /\ GivenUp(g) \cap back = {}
        BY <3>2, <1>4 DEF PageInvariant, OnePageOneOwner
      <4> QED BY <3>2, <4>1, <1>3, <1>10, <1>12, <1>17
    <3> QED BY <3>1, <3>2
  <2>2. ASSUME NEW f \in Harts, NEW g \in Harts, f # g
        PROVE  GivenUp(f)' \cap GivenUp(g)' = {}
    <3>1. GivenUp(f) \cap GivenUp(g) = {}
      BY <2>2 DEF PageInvariant, OnePageOneOwner
    <3> QED BY <3>1, <1>17
  <2>3. InTransit = InTransit' \cup back
    <3>1. ASSUME NEW x, NEW g \in Harts, x \in GivenUp(g)'
          PROVE  \E f \in Harts : x \in GivenUp(f)
      BY <3>1, <1>17
    <3>2. ASSUME NEW x, NEW g \in Harts, x \in GivenUp(g)
          PROVE  x \in back \/ \E f \in Harts : x \in GivenUp(f)'
      BY <3>2, <1>4, <1>17
    <3>3. ASSUME NEW x \in back PROVE \E f \in Harts : x \in GivenUp(f)
      BY <1>4
    <3>4. \A x : x \in InTransit <=> x \in InTransit' \/ x \in back
      BY <3>1, <3>2, <3>3 DEF InTransit
    <3> QED BY <3>4
  <2>4. Pages = ReservedPages \cup FreePages \cup held \cup InTransit
    BY DEF PageInvariant, OnePageOneOwner
  <2>5. FreePages' \cap held' = {} /\ ReservedPages' \cap (FreePages' \cup held') = {}
    BY <1>3, <1>5, <1>10, <1>12 DEF PageInvariant, OnePageOneOwner
  <2>6. Pages = ReservedPages' \cup FreePages' \cup held' \cup InTransit'
    BY <2>3, <2>4, <1>3, <1>10, <1>12
  <2> QED BY <2>1, <2>2, <2>5, <2>6 DEF OnePageOneOwner, Pages
<1>19. CallsMeanPages'
  BY <1>3 DEF Return, Begin, PageInvariant, CallsMeanPages, TypeOK, Pages
<1>20. Extent(page, n) \subseteq Pages \ (FreePages \cup held)
  BY <1>4, <1>5 DEF back
<1> QED BY <1>3, <1>4, <1>10, <1>14, <1>15, <1>16, <1>18, <1>19, <1>20 DEF PageInvariant, back

-----------------------------------------------------------------------------
(* Every step keeps the invariant and is a step of the abstract pool or     *)
(* changes neither its free nor its held pages.                             *)
LEMMA PageStep ==
    ASSUME PageInvariant, [Next]_vars
    PROVE  PageInvariant' /\ [Pool!Next]_(Pool!vars)
<1>1. CASE UNCHANGED vars
  <2>1. /\ Heads' = Heads /\ \A p : FreeRun(p)' = FreeRun(p)
        /\ FreePages' = FreePages /\ ReservedPages' = ReservedPages
    BY <1>1 DEF vars, Heads, FreeRun, FreePages, ReservedPages
  <2>2. \A g \in Harts : GivenUp(g)' = GivenUp(g)
    BY <1>1 DEF vars, GivenUp
  <2>3. InTransit' = InTransit
    BY <2>2 DEF InTransit
  <2>4. TypeOK' /\ FlagsTell' /\ PageNumCounts' /\ CallsMeanPages'
    BY <1>1, <2>1 DEF vars, PageInvariant, TypeOK, FlagsTell, PageNumCounts, CallsMeanPages, Pages
  <2>5. RunsApart'
    BY <1>1, <2>1 DEF vars, PageInvariant, RunsApart, Pages
  <2>6. OnePageOneOwner'
    <3>1. held' = held
      BY <1>1 DEF vars
    <3>2. \A g \in Harts : GivenUp(g)' \cap (FreePages' \cup held' \cup ReservedPages') = {}
      BY <3>1, <2>1, <2>2 DEF PageInvariant, OnePageOneOwner
    <3>3. \A f, g \in Harts : f # g => GivenUp(f)' \cap GivenUp(g)' = {}
      BY <2>2 DEF PageInvariant, OnePageOneOwner
    <3> QED BY <3>1, <3>2, <3>3, <2>1, <2>3 DEF PageInvariant, OnePageOneOwner, Pages
  <2>7. UNCHANGED <<FreePages, held>>
    BY <1>1, <2>1 DEF vars
  <2> QED BY <2>4, <2>5, <2>6, <2>7 DEF PageInvariant, Pool!vars
<1>2. ASSUME NEW h \in Harts, NEW n \in 1 .. MaxRequest, AllocTest(h, n)
      PROVE  PageInvariant' /\ [Pool!Next]_(Pool!vars)
  <2>1. /\ pc[h] # "free" /\ n \in 0 .. MaxRequest /\ n > 0
        /\ Begin(h, "alloc", 0, n)
        /\ UNCHANGED <<flag, ref_cnt, free_page_num, pages_list, page_num, held>>
    BY <1>2, PageAssumption DEF AllocTest
  <2>2. PageInvariant'
    BY <2>1, CallOnly
  <2>3. UNCHANGED <<FreePages, held>>
    BY <2>1 DEF FreePages, Heads, FreeRun
  <2> QED BY <2>2, <2>3 DEF Pool!vars
<1>3. ASSUME NEW h \in Harts, AllocFail(h)
      PROVE  PageInvariant' /\ [Pool!Next]_(Pool!vars)
  <2>1. /\ pc[h] # "free" /\ 0 \in 0 .. MaxRequest
        /\ Begin(h, "idle", 0, 0)
        /\ UNCHANGED <<flag, ref_cnt, free_page_num, pages_list, page_num, held>>
    BY <1>3, PageAssumption DEF AllocFail, Return
  <2>2. PageInvariant'
    BY <2>1, CallOnly
  <2>3. UNCHANGED <<FreePages, held>>
    BY <2>1 DEF FreePages, Heads, FreeRun
  <2> QED BY <2>2, <2>3 DEF Pool!vars
<1>4. ASSUME NEW h \in Harts, AllocTake(h)
      PROVE  PageInvariant' /\ [Pool!Next]_(Pool!vars)
  <2>1. PageInvariant'
    BY <1>4, TakeStep
  <2>2. PICK first \in Pages, n \in 1 .. MaxRequest :
          /\ Extent(first, n) \subseteq FreePages
          /\ FreePages' = FreePages \ Extent(first, n)
          /\ held' = held \cup Extent(first, n)
    BY <1>4, TakeStep
  <2>3. Pool!Allocate(first, n)
    BY <2>2 DEF Pool!Allocate, Pool!Extent, Extent
  <2> QED BY <2>1, <2>3 DEF Pool!Next
<1>5. ASSUME NEW h \in Harts, NEW first \in Pages, NEW n \in 1 .. MaxRequest,
             FreeMark(h, first, n)
      PROVE  PageInvariant' /\ [Pool!Next]_(Pool!vars)
  <2>1. /\ PageInvariant'
        /\ Extent(first, n) \subseteq held
        /\ held' = held \ Extent(first, n)
        /\ FreePages' = FreePages
    BY <1>5, MarkStep
  <2>2. Pool!GiveUp(first, n)
    BY <2>1 DEF Pool!GiveUp, Pool!Extent, Extent
  <2> QED BY <2>1, <2>2 DEF Pool!Next
<1>6. ASSUME NEW h \in Harts, FreeLink(h)
      PROVE  PageInvariant' /\ [Pool!Next]_(Pool!vars)
  <2>1. PageInvariant'
    BY <1>6, LinkStep
  <2>2. PICK first \in Pages, n \in 1 .. MaxRequest :
          /\ Extent(first, n) \subseteq Pages \ (FreePages \cup held)
          /\ FreePages' = FreePages \cup Extent(first, n)
          /\ held' = held
    BY <1>6, LinkStep
  <2>3. Pool!Free(first, n)
    BY <2>2 DEF Pool!Free, Pool!Extent, Extent
  <2> QED BY <2>1, <2>3 DEF Pool!Next
<1> QED BY <1>1, <1>2, <1>3, <1>4, <1>5, <1>6 DEF Next

(* The inductive invariant of the page allocator.                           *)
THEOREM PagesInvariant == Spec => []PageInvariant
<1>1. PageInvariant /\ [Next]_vars => PageInvariant'
  BY PageStep
<1> QED BY InitPageInvariant, <1>1, PTL DEF Spec

(* Types, and with them: reference counts never leave 0 and 1.              *)
THEOREM PageTypes == Spec => []TypeOK
<1>1. PageInvariant => TypeOK
  BY DEF PageInvariant
<1> QED BY PagesInvariant, <1>1, PTL

(* Splitting and merging keep the free runs apart (page.c:88-93, 151-173).  *)
THEOREM RunsStayApart == Spec => []RunsApart
<1>1. PageInvariant => RunsApart
  BY DEF PageInvariant
<1> QED BY PagesInvariant, <1>1, PTL

(* No page is given out twice or lost, although free_pages works on flags   *)
(* before it takes page_lock (page.c:113-119).                              *)
THEOREM PagesHaveOneOwner == Spec => []OnePageOneOwner
<1>1. PageInvariant => OnePageOneOwner
  BY DEF PageInvariant
<1> QED BY PagesInvariant, <1>1, PTL

(* page_num is the number of free pages whenever alloc_pages reads it       *)
(* without the lock (page.c:68).                                            *)
THEOREM PageNumIsExact == Spec => []PageNumCounts
<1>1. PageInvariant => PageNumCounts
  BY DEF PageInvariant
<1> QED BY PagesInvariant, <1>1, PTL

(* The flags and reference counts that free_pages trusts without page_lock  *)
(* are those of the pages callers hold, and of no others (page.c:113-119).  *)
THEOREM FlagsAreTrue == Spec => []FlagsTell
<1>1. PageInvariant => FlagsTell
  BY DEF PageInvariant
<1> QED BY PagesInvariant, <1>1, PTL

(* The allocator implements the abstract pool of pages.                     *)
THEOREM PagesImplementPool == Spec => ImplementsPool
<1>1. Init => Pool!Init
  <2> SUFFICES ASSUME Init PROVE Pool!Init
    OBVIOUS
  <2>1. PageInvariant
    BY InitPageInvariant
  <2>2. FreePages \subseteq Pages
    BY <2>1 DEF PageInvariant, RunsApart, FreePages
  <2> QED BY <2>2 DEF Init, Pool!Init
<1>2. PageInvariant /\ [Next]_vars => [Pool!Next]_(Pool!vars)
  BY PageStep
<1> QED BY PagesInvariant, <1>1, <1>2, PTL DEF Spec, ImplementsPool, Pool!Spec
=============================================================================
