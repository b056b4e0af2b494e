----------------------------- MODULE VmmProofs -----------------------------
(***************************************************************************)
(* Proofs about Vmm, for any programs and any number of processes and      *)
(* pages.                                                                  *)
(***************************************************************************)
EXTENDS Vmm, TLAPS

USE VmmAssumption

-----------------------------------------------------------------------------
(* Areas *)

LEMMA VaFacts ==
    /\ Top \in Nat /\ Va \subseteq Nat /\ 0 \in Va
    /\ \A n \in Nat, b \in Va : n <= b => n \in Va
BY DEF Va

(* A new area of a process is a struct vma.                                 *)
LEMMA NewArea ==
    ASSUME NEW va \in Va, NEW size \in 1 .. Top + 1, NEW type \in Types,
           NEW prot \in AllProts, NEW file \in BOOLEAN
    PROVE  /\ Area(va, size, type, prot, file) \in Areas
           /\ Span(Area(va, size, type, prot, file)) = va .. va + size - 1
           /\ Area(va, size, type, prot, file).type = type
           /\ Area(va, size, type, prot, file).prot = prot
           /\ Area(va, size, type, prot, file).file = file
           /\ Area(va, size, type, prot, file).size = size
           /\ Area(va, size, type, prot, file).va = va
BY DEF Area, Areas, Span

(* An area of one page.                                                     *)
LEMMA OnePage ==
    ASSUME NEW v \in Va, NEW type \in Types, NEW prot \in AllProts
    PROVE  /\ Area(v, 1, type, prot, FALSE) \in Areas
           /\ Span(Area(v, 1, type, prot, FALSE)) = {v}
           /\ Area(v, 1, type, prot, FALSE).type = type
           /\ Area(v, 1, type, prot, FALSE).file = FALSE
<1>1. 1 \in 1 .. Top + 1 /\ v .. v + 1 - 1 = {v}
  BY VaFacts
<1> DEFINE a == Area(v, 1, type, prot, FALSE)
<1>2. a \in Areas /\ Span(a) = v .. v + 1 - 1 /\ a.type = type /\ a.file = FALSE
  BY <1>1 DEF Area, Areas, Span
<1> QED BY <1>1, <1>2

(* A change of the protection leaves the area where it is.                  *)
LEMMA NewProt ==
    ASSUME NEW a \in Areas, NEW prot \in AllProts
    PROVE  /\ [a EXCEPT !.prot = prot] \in Areas
           /\ Span([a EXCEPT !.prot = prot]) = Span(a)
           /\ [a EXCEPT !.prot = prot].prot = prot
           /\ [a EXCEPT !.prot = prot].type = a.type
           /\ [a EXCEPT !.prot = prot].file = a.file
           /\ [a EXCEPT !.prot = prot].size = a.size
           /\ [a EXCEPT !.prot = prot].clone = a.clone
BY DEF Areas, Span

(* What a child gets of an area of its parent.                              *)
LEMMA ClonedArea ==
    ASSUME NEW a \in Areas
    PROVE  /\ CloneArea(a) \in Areas
           /\ Span(CloneArea(a)) = Span(a)
           /\ CloneArea(a).type = a.type
           /\ CloneArea(a).file = a.file
           /\ CloneArea(a).size = a.size
           /\ Shared(a) => CloneArea(a).prot = {"R", "X"}
           /\ ~ Shared(a) => CloneArea(a) = a
BY DEF Areas, CloneArea, Shared, Span, AllProts

LEMMA SpansUnion ==
    ASSUME NEW A, NEW B
    PROVE  Spans(A \cup B) = Spans(A) \cup Spans(B)
BY DEF Spans

LEMMA SpanInSpans ==
    ASSUME NEW A, NEW a \in A
    PROVE  Span(a) \subseteq Spans(A)
BY DEF Spans

(* Areas added where there were none.                                       *)
LEMMA ApartAdd ==
    ASSUME NEW A, NEW B, Apart(A), Apart(B), Spans(A) \cap Spans(B) = {}
    PROVE  Apart(A \cup B)
BY SpanInSpans DEF Apart

LEMMA ApartSub ==
    ASSUME NEW A, NEW B, Apart(A), B \subseteq A
    PROVE  Apart(B) /\ Spans(B) \subseteq Spans(A)
BY DEF Apart, Spans

(* One area replaced by one in its place.                                   *)
LEMMA ApartReplace ==
    ASSUME NEW A, NEW a \in A, NEW b, Apart(A), Span(b) = Span(a)
    PROVE  Apart((A \ {a}) \cup {b}) /\ Spans((A \ {a}) \cup {b}) = Spans(A)
<1>1. Apart((A \ {a}) \cup {b})
  BY DEF Apart
<1>2. Spans((A \ {a}) \cup {b}) = Spans(A)
  BY DEF Spans
<1> QED BY <1>1, <1>2

(* All areas replaced.                                                      *)
LEMMA ApartClone ==
    ASSUME NEW A \in SUBSET Areas, Apart(A)
    PROVE  /\ Apart({CloneArea(a) : a \in A})
           /\ Spans({CloneArea(a) : a \in A}) = Spans(A)
           /\ {CloneArea(a) : a \in A} \in SUBSET Areas
<1>1. \A a \in A : Span(CloneArea(a)) = Span(a) /\ CloneArea(a) \in Areas
  BY ClonedArea
<1>2. Apart({CloneArea(a) : a \in A})
  BY <1>1 DEF Apart
<1>3. Spans({CloneArea(a) : a \in A}) = Spans(A)
  BY <1>1 DEF Spans
<1> QED BY <1>1, <1>2, <1>3

(* The area of an address.                                                  *)
LEMMA AtOne ==
    ASSUME NEW p \in Procs, NEW v, Apart(area[p])
    PROVE  /\ \A a \in At(p, v) : a \in area[p] /\ v \in Span(a) /\ At(p, v) = {a}
           /\ v \in Spans(area[p]) <=> At(p, v) # {}
<1>1. \A a, b \in At(p, v) : a = b
  BY DEF At, Apart
<1>2. v \in Spans(area[p]) <=> At(p, v) # {}
  BY DEF At, Spans
<1> QED BY <1>1, <1>2 DEF At

LEMMA ProtAtIs ==
    ASSUME NEW A, Apart(A), NEW a \in A, NEW v \in Span(a)
    PROVE  ProtAt(A, v) = a.prot
<1>1. \A b \in A : v \in Span(b) => b = a
  BY DEF Apart
<1> QED BY <1>1 DEF ProtAt

(* The areas that sys_brk makes are those of the pages it found free.       *)
LEMMA NewHeapAreas ==
    ASSUME TypeOK, NEW p \in Procs, NEW b \in Va
    PROVE  /\ NewHeap(p, b) \in SUBSET Areas
           /\ Apart(NewHeap(p, b))
           /\ Spans(NewHeap(p, b)) = (brk[p] + 1 .. b) \ Spans(area[p])
           /\ Spans(NewHeap(p, b)) \subseteq Va
           /\ \A a \in NewHeap(p, b) : a.type = "BRK" /\ ~ a.file
<1> DEFINE V == (brk[p] + 1 .. b) \ Spans(area[p])
<1>1. V \subseteq Va
  <2>1. brk[p] \in Va
    BY DEF TypeOK
  <2> QED BY <2>1, VaFacts
<1>2. NewHeap(p, b) = {Area(v, 1, "BRK", {"R", "W"}, FALSE) : v \in V}
  BY DEF NewHeap
<1> HIDE DEF V
<1>3. \A v \in V : /\ Area(v, 1, "BRK", {"R", "W"}, FALSE) \in Areas
                   /\ Span(Area(v, 1, "BRK", {"R", "W"}, FALSE)) = {v}
                   /\ Area(v, 1, "BRK", {"R", "W"}, FALSE).type = "BRK"
                   /\ ~ Area(v, 1, "BRK", {"R", "W"}, FALSE).file
  BY <1>1, OnePage DEF Types, AllProts
<1>4. NewHeap(p, b) \in SUBSET Areas
  BY <1>2, <1>3
<1>5. Apart(NewHeap(p, b))
  <2>1. \A a \in NewHeap(p, b) : \E v \in V :
            a = Area(v, 1, "BRK", {"R", "W"}, FALSE) /\ Span(a) = {v}
    BY <1>2, <1>3
  <2>2. ASSUME NEW a \in NewHeap(p, b), NEW c \in NewHeap(p, b), a # c
        PROVE  Span(a) \cap Span(c) = {}
    <3>1. PICK v \in V : a = Area(v, 1, "BRK", {"R", "W"}, FALSE) /\ Span(a) = {v}
      BY <2>1
    <3>2. PICK w \in V : c = Area(w, 1, "BRK", {"R", "W"}, FALSE) /\ Span(c) = {w}
      BY <2>1
    <3>3. v # w
      BY <2>2, <3>1, <3>2
    <3> QED BY <3>1, <3>2, <3>3
  <2> QED BY <2>2 DEF Apart
<1>6. Spans(NewHeap(p, b)) = V
  <2>1. \A a \in NewHeap(p, b) : \E v \in V : Span(a) = {v}
    BY <1>2, <1>3
  <2>2. \A v \in V : \E a \in NewHeap(p, b) : Span(a) = {v}
    BY <1>2, <1>3
  <2> QED BY <2>1, <2>2 DEF Spans
<1>7. \A a \in NewHeap(p, b) : a.type = "BRK" /\ ~ a.file
  BY <1>2, <1>3
<1> QED BY <1>1, <1>4, <1>5, <1>6, <1>7 DEF V

-----------------------------------------------------------------------------
(* Types and areas *)

PteRange == Ptes \cup {NoPte}

LEMMA PteType ==
    ASSUME NEW page \in Pages, NEW prot \in AllProts, NEW fork \in BOOLEAN
    PROVE  /\ Pte(page, prot, fork) \in Ptes
           /\ Pte(page, prot, fork) # NoPte
           /\ Pte(page, prot, fork).page = page
           /\ Pte(page, prot, fork).prot = prot
BY DEF Pte, Ptes

LEMMA Entries ==
    ASSUME TypeOK, NEW p \in Procs, NEW v \in Va
    PROVE  /\ pte[p][v] \in PteRange
           /\ pte[p][v] # NoPte => pte[p][v].page \in Pages /\ pte[p][v].prot \in AllProts
           /\ free \subseteq Pages
           /\ Backing(p, v) \subseteq Pages
BY DEF TypeOK, PteRange, Ptes, Backing

LEMMA PteTables ==
    TypeOK <=> /\ pc \in [Procs -> {"none", "user", "stuck", "lost"}]
               /\ area \in [Procs -> SUBSET Areas]
               /\ pte \in [Procs -> [Va -> PteRange]]
               /\ brk \in [Procs -> Va] /\ minbrk \in [Procs -> Va]
               /\ free \subseteq Pages
               /\ mem \in [Pages -> Values \cup {Old}]
BY DEF TypeOK, PteRange

LEMMA ProtAtType ==
    ASSUME NEW A \in SUBSET Areas, NEW v \in Spans(A)
    PROVE  ProtAt(A, v) \in AllProts
<1>1. \E a \in A : v \in Span(a)
  BY DEF Spans
<1>2. (CHOOSE a \in A : v \in Span(a)) \in Areas
  BY <1>1
<1> QED BY <1>2 DEF ProtAt, Areas

LEMMA TableType ==
    ASSUME NEW g \in Programs \cup {Boot}, NEW f \in [g.loaded -> Pages]
    PROVE  TableOf(g, f) \in [Va -> PteRange]
<1>1. g.areas \in SUBSET Areas /\ g.loaded \subseteq Spans(g.areas)
  BY DEF IsProgram
<1>2. \A v \in g.loaded : Pte(f[v], ProtAt(g.areas, v), FALSE) \in Ptes
  BY <1>1, ProtAtType, PteType
<1> QED BY <1>2 DEF TableOf, PteRange

LEMMA MapPageTypes ==
    ASSUME TypeOK, NEW p \in Procs, NEW v \in Va, NEW page \in Pages, NEW prot \in AllProts,
           MapPage(p, v, page, prot)
    PROVE  /\ pc' \in [Procs -> {"none", "user", "stuck", "lost"}]
           /\ pte' \in [Procs -> [Va -> PteRange]]
           /\ brk' \in [Procs -> Va] /\ minbrk' \in [Procs -> Va]
           /\ free' \subseteq Pages
<1>1. Pte(page, prot, FALSE) \in PteRange
  BY PteType DEF PteRange
<1> QED BY <1>1, PteTables DEF MapPage

LEMMA ClearedType ==
    ASSUME TypeOK, NEW page \in Pages
    PROVE  Cleared(page) \in Values \cup {Old}
BY DEF TypeOK, Cleared, Values

LEMMA ForgottenType ==
    ASSUME TypeOK, NEW gone
    PROVE  Forgotten(gone) \in [Pages -> Values \cup {Old}]
BY DEF TypeOK, Forgotten

LEMMA ReleasedType ==
    ASSUME TypeOK, NEW p \in Procs, NEW A
    PROVE  Released(p, A) \subseteq Pages
BY Entries DEF Released, Mapped, Emptied

LEMMA ReleaseTypes ==
    ASSUME TypeOK, AreasApart, NEW p \in Procs, NEW A, Release(p, A)
    PROVE  /\ area' \in [Procs -> SUBSET Areas]
           /\ AreasApart'
           /\ pte' \in [Procs -> [Va -> PteRange]]
           /\ free' \subseteq Pages
           /\ mem' \in [Pages -> Values \cup {Old}]
<1>1. area' \in [Procs -> SUBSET Areas] /\ \A q \in Procs : area'[q] \subseteq area[q]
  BY DEF TypeOK, Release
<1>2. AreasApart'
  BY <1>1, ApartSub DEF AreasApart
<1>3. \A E \in SUBSET Va : [v \in Va |-> IF v \in E THEN NoPte ELSE pte[p][v]] \in [Va -> PteRange]
  BY PteTables DEF PteRange
<1>4. pte' \in [Procs -> [Va -> PteRange]]
  <2>1. pte' = [pte EXCEPT ![p] = [v \in Va |-> IF v \in Emptied(A) THEN NoPte ELSE pte[p][v]]]
    BY PteTables DEF Release
  <2>2. Emptied(A) \in SUBSET Va
    BY DEF Emptied
  <2> QED BY <2>1, <2>2, <1>3, PteTables
<1>5. free' \subseteq Pages
  BY ReleasedType DEF Release, TypeOK
<1>6. mem' \in [Pages -> Values \cup {Old}]
  BY ForgottenType DEF Release
<1> QED BY <1>1, <1>2, <1>4, <1>5, <1>6

Areas1(p, A) ==
    /\ A \in SUBSET Areas
    /\ area' = [area EXCEPT ![p] = A]
    /\ Apart(A) /\ Spans(A) \subseteq Va

LEMMA NewAreas ==
    ASSUME TypeOK, AreasApart, NEW p \in Procs, NEW A, Areas1(p, A)
    PROVE  area' \in [Procs -> SUBSET Areas] /\ AreasApart'
<1>1. area \in [Procs -> SUBSET Areas]
  BY DEF TypeOK
<1>2. area' \in [Procs -> SUBSET Areas] /\ \A q \in Procs : area'[q] = area[q] \/ area'[q] = A
  BY <1>1 DEF Areas1
<1> QED BY <1>2 DEF AreasApart, Areas1

LEMMA SameAreas ==
    ASSUME TypeOK, AreasApart, UNCHANGED area
    PROVE  area' \in [Procs -> SUBSET Areas] /\ AreasApart'
BY DEF TypeOK, AreasApart

LEMMA TypesInit == Init => TypeOK /\ AreasApart
<1> SUFFICES ASSUME Init PROVE TypeOK /\ AreasApart
  OBVIOUS
<1>1. PICK p \in Procs, f \in {h \in [Boot.loaded -> Pages] : IsInjective(h)} :
        /\ pc = [q \in Procs |-> IF q = p THEN "user" ELSE "none"]
        /\ area = [q \in Procs |-> IF q = p THEN Boot.areas ELSE {}]
        /\ pte = [q \in Procs |-> IF q = p THEN TableOf(Boot, f) ELSE NoTable]
        /\ brk = [q \in Procs |-> 0]
        /\ minbrk = [q \in Procs |-> 0]
        /\ free = Pages \ Range(f)
        /\ mem = [g \in Pages |-> IF g \in Range(f) THEN Image ELSE Old]
  BY DEF Init
<1>2. TableOf(Boot, f) \in [Va -> PteRange] /\ NoTable \in [Va -> PteRange]
  BY TableType DEF NoTable, PteRange
<1>3. Boot.areas \in SUBSET Areas /\ Apart(Boot.areas) /\ Spans(Boot.areas) \subseteq Va
  BY DEF IsProgram
<1>4. Apart({}) /\ Spans({}) \subseteq Va
  BY DEF Apart, Spans
<1>5. TypeOK
  BY <1>1, <1>2, <1>3, VaFacts, PteTables DEF Values
<1>6. AreasApart
  BY <1>1, <1>3, <1>4 DEF AreasApart
<1> QED BY <1>5, <1>6

(* The areas after a fault, brk or mmap.                                    *)
LEMMA AddAreas ==
    ASSUME TypeOK, AreasApart, NEW p \in Procs, NEW B \in SUBSET Areas,
           Apart(B), Spans(B) \subseteq Va, Spans(B) \cap Spans(area[p]) = {},
           area' = [area EXCEPT ![p] = @ \cup B]
    PROVE  area' \in [Procs -> SUBSET Areas] /\ AreasApart'
<1>1. Areas1(p, area[p] \cup B)
  <2>1. area \in [Procs -> SUBSET Areas]
    BY DEF TypeOK
  <2>2. Apart(area[p]) /\ Spans(area[p]) \subseteq Va
    BY DEF AreasApart
  <2>3. Apart(area[p] \cup B) /\ Spans(area[p] \cup B) \subseteq Va
    BY <2>2, ApartAdd, SpansUnion
  <2> QED BY <2>1, <2>3 DEF Areas1
<1> QED BY <1>1, NewAreas

LEMMA StackArea ==
    ASSUME TypeOK, AreasApart, NEW p \in Procs, NEW v \in Va, FaultStack(p, v)
    PROVE  area' \in [Procs -> SUBSET Areas] /\ AreasApart'
<1> DEFINE b == Area(v, 1, "DATA", {"R", "W"}, FALSE)
<1>1. b \in Areas /\ Span(b) = {v}
  BY OnePage DEF Types, AllProts
<1>2. v \notin Spans(area[p])
  BY AtOne DEF FaultStack, AreasApart
<1>3. area' = [area EXCEPT ![p] = @ \cup {b}]
  BY DEF FaultStack
<1> HIDE DEF b
<1>4. Apart({b}) /\ Spans({b}) = {v}
  BY <1>1 DEF Apart, Spans
<1> QED BY <1>1, <1>2, <1>3, <1>4, AddAreas

LEMMA HeapAreas ==
    ASSUME TypeOK, AreasApart, NEW p \in Procs, NEW b \in Va, Grow(p, b)
    PROVE  area' \in [Procs -> SUBSET Areas] /\ AreasApart'
BY NewHeapAreas, AddAreas DEF Grow

(* The range of an mmap.                                                    *)
LEMMA MmapArea ==
    ASSUME TypeOK, AreasApart, NEW p \in Procs, NEW v \in Va, NEW len \in 1 .. MaxLen,
           NEW prot \in Prots, NEW file \in BOOLEAN, Mmap(p, v, len, prot, file)
    PROVE  /\ area' \in [Procs -> SUBSET Areas] /\ AreasApart'
           /\ \E b \in Areas :
                /\ Span(b) \cap Spans(area[p]) = {}
                /\ area' = [area EXCEPT ![p] = @ \cup {b}]
                /\ b.type = "MMAP"
                /\ b.file => b.size = 1 \/ "file" \in Careless
<1> DEFINE b == Area(v, len, "MMAP", prot, file)
<1>1. v \in MapLow .. MapTop - 1 /\ v \in Nat /\ len \in Nat /\ len <= Top + 1
      /\ v + len - 1 <= Top /\ prot \in AllProts
  BY VaFacts DEF Mmap
<1>2. len \in 1 .. Top + 1
  BY <1>1, VaFacts
<1>3. b \in Areas /\ Span(b) = v .. v + len - 1 /\ b.type = "MMAP" /\ b.file = file /\ b.size = len
  BY <1>1, <1>2 DEF Area, Areas, Span, Types
<1>4. Span(b) \subseteq Va
  BY <1>1, <1>3, VaFacts DEF Va
<1>5. Span(b) \cap Spans(area[p]) = {}
  BY <1>3 DEF Mmap, Room
<1>6. area' = [area EXCEPT ![p] = @ \cup {b}]
  BY DEF Mmap
<1> HIDE DEF b
<1>7. Apart({b}) /\ Spans({b}) = Span(b)
  BY DEF Apart, Spans
<1>8. area' \in [Procs -> SUBSET Areas] /\ AreasApart'
  BY <1>3, <1>4, <1>5, <1>6, <1>7, AddAreas
<1>9. b.type = "MMAP" /\ (b.file => b.size = 1 \/ "file" \in Careless)
  BY <1>1, <1>3 DEF Mmap
<1> QED BY <1>3, <1>5, <1>6, <1>8, <1>9

LEMMA FaultProgFacts ==
    ASSUME TypeOK, AreasApart, NEW p \in Procs, NEW v \in Va, FaultProg(p, v)
    PROVE  \E a \in At(p, v), page \in Backing(p, v), prot \in AllProts :
             /\ Fault(p, v) /\ a.type = "PROG"
             /\ MapPage(p, v, page, prot)
             /\ prot = IF pte[p][v] # NoPte THEN a.prot \cup {"R", "W"} ELSE a.prot
             /\ area' = [area EXCEPT ![p] = (@ \ {a}) \cup {[a EXCEPT !.prot = prot]}]
             /\ mem' = [mem EXCEPT ![page] =
                    IF a.clone /\ pte[p][v] # NoPte /\ pte[p][v].fork THEN mem[page] ELSE Image]
             /\ a \in area[p] /\ a \in Areas /\ page \in Pages
<1>1. PICK a \in At(p, v), page \in Backing(p, v) :
        LET was == pte[p][v]
            copy == a.clone /\ was # NoPte /\ was.fork
            prot == IF was # NoPte THEN a.prot \cup {"R", "W"} ELSE a.prot
        IN
        /\ Fault(p, v)
        /\ a.type = "PROG"
        /\ MapPage(p, v, page, prot)
        /\ area' = [area EXCEPT ![p] = (@ \ {a}) \cup {[a EXCEPT !.prot = prot]}]
        /\ mem' = [mem EXCEPT ![page] = IF copy THEN mem[page] ELSE Image]
  BY DEF FaultProg
<1> DEFINE prot == IF pte[p][v] # NoPte THEN a.prot \cup {"R", "W"} ELSE a.prot
<1>2. a \in area[p] /\ a \in Areas
  BY DEF TypeOK, At
<1>3. prot \in AllProts
  BY <1>2 DEF Areas, AllProts
<1>4. page \in Pages
  BY Entries
<1> QED BY <1>1, <1>2, <1>3, <1>4

LEMMA ProgAreas ==
    ASSUME TypeOK, AreasApart, NEW p \in Procs, NEW a \in area[p], NEW prot \in AllProts,
           area' = [area EXCEPT ![p] = (@ \ {a}) \cup {[a EXCEPT !.prot = prot]}]
    PROVE  area' \in [Procs -> SUBSET Areas] /\ AreasApart'
<1> DEFINE b == [a EXCEPT !.prot = prot]
<1>1. area \in [Procs -> SUBSET Areas] /\ a \in Areas
  BY DEF TypeOK
<1>2. b \in Areas /\ Span(b) = Span(a)
  BY <1>1, NewProt
<1>3. area' = [area EXCEPT ![p] = (area[p] \ {a}) \cup {b}]
  BY <1>1
<1> HIDE DEF b
<1>4. Apart(area[p]) /\ Spans(area[p]) \subseteq Va
  BY DEF AreasApart
<1>5. Apart((area[p] \ {a}) \cup {b}) /\ Spans((area[p] \ {a}) \cup {b}) \subseteq Va
  BY <1>2, <1>4, ApartReplace
<1>6. Areas1(p, (area[p] \ {a}) \cup {b})
  BY <1>1, <1>2, <1>3, <1>5 DEF Areas1
<1> QED BY <1>6, NewAreas

-----------------------------------------------------------------------------
LEMMA CloneTypes ==
    ASSUME TypeOK, AreasApart, NEW p \in Procs, NEW c \in Procs, Clone(p, c)
    PROVE  TypeOK' /\ AreasApart'
<1>1. PICK f \in Supplies(Copied(p)) :
        /\ pc' = [pc EXCEPT ![c] = "user"]
        /\ area' = [area EXCEPT ![c] = {CloneArea(a) : a \in area[p]}]
        /\ pte' = [pte EXCEPT ![c] = [v \in Va |->
                IF v \in Copied(p) THEN Pte(f[v], ProtAt(area[p], v), FALSE)
                ELSE IF v \in SharedPart(p) THEN Pte(pte[p][v].page, {"R", "X"}, TRUE)
                ELSE NoPte]]
        /\ free' = free \ Range(f)
        /\ mem' = [g \in Pages |-> IF g \in Range(f) THEN mem[CopiedTo(p, f, g)] ELSE mem[g]]
        /\ brk' = [brk EXCEPT ![c] = 0]
        /\ minbrk' = [minbrk EXCEPT ![c] = 0]
  BY DEF Clone
<1>2. area' \in [Procs -> SUBSET Areas] /\ AreasApart'
  <2>1. area \in [Procs -> SUBSET Areas] /\ Apart(area[p]) /\ Spans(area[p]) \subseteq Va
    BY DEF TypeOK, AreasApart
  <2>2. Areas1(c, {CloneArea(a) : a \in area[p]})
    BY <1>1, <2>1, ApartClone DEF Areas1
  <2> QED BY <2>2, NewAreas
<1>3. f \in [Copied(p) -> Pages]
  BY DEF Supplies, TypeOK
<1>4. pte' \in [Procs -> [Va -> PteRange]]
  <2>1. \A v \in Copied(p) : Pte(f[v], ProtAt(area[p], v), FALSE) \in PteRange
    <3> SUFFICES ASSUME NEW v \in Copied(p) PROVE Pte(f[v], ProtAt(area[p], v), FALSE) \in PteRange
      OBVIOUS
    <3>1. v \in Spans(area[p]) /\ area[p] \in SUBSET Areas
      BY DEF Copied, At, Spans, TypeOK
    <3>2. ProtAt(area[p], v) \in AllProts
      BY <3>1, ProtAtType
    <3> QED BY <1>3, <3>2, PteType DEF PteRange
  <2>2. \A v \in SharedPart(p) : Pte(pte[p][v].page, {"R", "X"}, TRUE) \in PteRange
    BY Entries, PteType DEF SharedPart, Mapped, PteRange, AllProts
  <2>3. NoPte \in PteRange
    BY DEF PteRange
  <2> DEFINE t == [v \in Va |->
                IF v \in Copied(p) THEN Pte(f[v], ProtAt(area[p], v), FALSE)
                ELSE IF v \in SharedPart(p) THEN Pte(pte[p][v].page, {"R", "X"}, TRUE)
                ELSE NoPte]
  <2>4. t \in [Va -> PteRange]
    BY <2>1, <2>2, <2>3
  <2>5. pte' = [pte EXCEPT ![c] = t]
    BY <1>1
  <2> HIDE DEF t
  <2> QED BY <2>4, <2>5, PteTables
<1>5. mem' \in [Pages -> Values \cup {Old}]
  <2>1. \A g \in Range(f) : CopiedTo(p, f, g) \in Pages
    <3> SUFFICES ASSUME NEW g \in Range(f) PROVE CopiedTo(p, f, g) \in Pages
      OBVIOUS
    <3>1. \E v \in Copied(p) : f[v] = g
      BY <1>3 DEF Range
    <3>2. (CHOOSE v \in Copied(p) : f[v] = g) \in Copied(p)
      BY <3>1
    <3> QED BY <3>2, Entries DEF CopiedTo, Copied, Mapped
  <2> QED BY <1>1, <2>1 DEF TypeOK
<1>6. pc' \in [Procs -> {"none", "user", "stuck", "lost"}]
      /\ brk' \in [Procs -> Va] /\ minbrk' \in [Procs -> Va] /\ free' \subseteq Pages
  BY <1>1, VaFacts DEF TypeOK
<1>7. TypeOK'
  BY <1>2, <1>4, <1>5, <1>6 DEF TypeOK, PteRange
<1> QED BY <1>2, <1>7

LEMMA ExecveTypes ==
    ASSUME TypeOK, AreasApart, NEW p \in Procs, NEW g \in Programs, Execve(p, g)
    PROVE  TypeOK' /\ AreasApart'
<1>1. PICK f \in Supplies(g.loaded) :
        /\ area' = [area EXCEPT ![p] = g.areas]
        /\ pte' = [pte EXCEPT ![p] = TableOf(g, f)]
        /\ free' = (free \ Range(f)) \cup Released(p, area[p])
        /\ mem' = [h \in Pages |-> IF h \in Range(f) THEN Image ELSE Forgotten(Released(p, area[p]))[h]]
        /\ brk' = [brk EXCEPT ![p] = g.brk]
        /\ minbrk' = [minbrk EXCEPT ![p] = g.brk]
        /\ UNCHANGED pc
  BY DEF Execve
<1>2. g.areas \in SUBSET Areas /\ Apart(g.areas) /\ Spans(g.areas) \subseteq Va /\ g.brk \in Va
  BY DEF IsProgram
<1>3. area' \in [Procs -> SUBSET Areas] /\ AreasApart'
  BY <1>1, <1>2, NewAreas DEF Areas1
<1>4. f \in [g.loaded -> Pages]
  BY DEF Supplies, TypeOK
<1>5. TableOf(g, f) \in [Va -> PteRange]
  BY <1>4, TableType
<1>6. pte' \in [Procs -> [Va -> PteRange]]
  BY <1>1, <1>5, PteTables
<1>7. mem' \in [Pages -> Values \cup {Old}]
  <2>1. Forgotten(Released(p, area[p])) \in [Pages -> Values \cup {Old}]
    BY ForgottenType
  <2> QED BY <1>1, <2>1 DEF Values
<1>8. free' \subseteq Pages
  BY <1>1, ReleasedType DEF TypeOK
<1>9. TypeOK'
  BY <1>1, <1>2, <1>3, <1>6, <1>7, <1>8 DEF TypeOK, PteRange
<1> QED BY <1>3, <1>9

LEMMA LostTypes ==
    ASSUME TypeOK, AreasApart, Lost
    PROVE  TypeOK' /\ AreasApart'
BY DEF TypeOK, AreasApart, Lost

(* The steps of one process at an address.                                  *)
LEMMA FaultTypes ==
    ASSUME TypeOK, AreasApart, NEW p \in Procs, NEW v \in Va,
           \/ \E x \in Data : Store(p, v, x)
           \/ FaultStack(p, v)
           \/ FaultProg(p, v)
           \/ FaultAnon(p, v)
           \/ FaultFile(p, v)
           \/ FaultExec(p, v)
    PROVE  TypeOK' /\ AreasApart'
<1>1. ASSUME NEW x \in Data, Store(p, v, x)
      PROVE  TypeOK' /\ AreasApart'
  <2>1. UNCHANGED <<pc, area, pte, brk, minbrk, free>>
    BY <1>1 DEF Store
  <2>2. mem' \in [Pages -> Values \cup {Old}]
    BY <1>1 DEF Store, TypeOK, Values
  <2> QED BY <2>1, <2>2, SameAreas DEF TypeOK
<1>2. CASE FaultStack(p, v)
  <2>1. PICK page \in Backing(p, v) :
            /\ MapPage(p, v, page, {"R", "W"})
            /\ mem' = [mem EXCEPT ![page] = Cleared(page)]
    BY <1>2 DEF FaultStack
  <2>2. page \in Pages /\ {"R", "W"} \in AllProts
    BY Entries DEF AllProts
  <2>3. mem' \in [Pages -> Values \cup {Old}]
    BY <2>1, <2>2, ClearedType DEF TypeOK
  <2> QED BY <1>2, <2>1, <2>2, <2>3, MapPageTypes, StackArea, PteTables DEF TypeOK, PteRange
<1>3. CASE FaultProg(p, v)
  <2>1. PICK a \in At(p, v), page \in Backing(p, v), prot \in AllProts :
             /\ MapPage(p, v, page, prot)
             /\ area' = [area EXCEPT ![p] = (@ \ {a}) \cup {[a EXCEPT !.prot = prot]}]
             /\ mem' = [mem EXCEPT ![page] =
                    IF a.clone /\ pte[p][v] # NoPte /\ pte[p][v].fork THEN mem[page] ELSE Image]
             /\ a \in area[p] /\ page \in Pages
    BY <1>3, FaultProgFacts
  <2>2. mem' \in [Pages -> Values \cup {Old}]
    BY <2>1 DEF TypeOK, Values
  <2>3. area' \in [Procs -> SUBSET Areas] /\ AreasApart'
    BY <2>1, ProgAreas
  <2> QED BY <2>1, <2>2, <2>3, MapPageTypes DEF TypeOK, PteRange
<1>4. CASE FaultAnon(p, v)
  <2>1. PICK a \in At(p, v), page \in Backing(p, v) :
            /\ MapPage(p, v, page, a.prot)
            /\ mem' = [mem EXCEPT ![page] = Cleared(page)]
            /\ UNCHANGED area
    BY <1>4 DEF FaultAnon
  <2>2. page \in Pages /\ a.prot \in AllProts
    BY Entries DEF TypeOK, At, Areas
  <2>3. mem' \in [Pages -> Values \cup {Old}]
    BY <2>1, <2>2, ClearedType DEF TypeOK
  <2> QED BY <2>1, <2>2, <2>3, MapPageTypes, SameAreas DEF TypeOK, PteRange
<1>5. CASE FaultFile(p, v)
  <2>1. PICK a \in At(p, v) : \E page \in IF pte[p][a.va] # NoPte THEN {pte[p][a.va].page} ELSE Backing(p, v) :
            LET first == pte[p][a.va]
                was == pte[p][v]
                freed == IF first # NoPte /\ was # NoPte THEN {was.page} ELSE {}
            IN
            /\ pte' = [pte EXCEPT ![p][a.va] = IF first # NoPte THEN @ ELSE Pte(page, a.prot, FALSE),
                                  ![p][v] = Pte(page, a.prot, FALSE)]
            /\ free' = (free \ {page}) \cup freed
            /\ mem' = [mem EXCEPT ![page] = IF page \in freed THEN Old ELSE Cleared(page)]
            /\ UNCHANGED <<pc, area, brk, minbrk>>
    BY <1>5 DEF FaultFile
  <2>2. a.va \in Va /\ a.prot \in AllProts
    BY DEF TypeOK, At, Areas
  <2>3. PICK page \in Pages, freed \in SUBSET Pages :
            /\ pte' = [pte EXCEPT ![p][a.va] = IF pte[p][a.va] # NoPte THEN @ ELSE Pte(page, a.prot, FALSE),
                                  ![p][v] = Pte(page, a.prot, FALSE)]
            /\ free' = (free \ {page}) \cup freed
            /\ mem' = [mem EXCEPT ![page] = IF page \in freed THEN Old ELSE Cleared(page)]
            /\ UNCHANGED <<pc, area, brk, minbrk>>
    <3>1. PICK page \in IF pte[p][a.va] # NoPte THEN {pte[p][a.va].page} ELSE Backing(p, v) :
            LET first == pte[p][a.va]
                was == pte[p][v]
                freed == IF first # NoPte /\ was # NoPte THEN {was.page} ELSE {}
            IN
            /\ pte' = [pte EXCEPT ![p][a.va] = IF first # NoPte THEN @ ELSE Pte(page, a.prot, FALSE),
                                  ![p][v] = Pte(page, a.prot, FALSE)]
            /\ free' = (free \ {page}) \cup freed
            /\ mem' = [mem EXCEPT ![page] = IF page \in freed THEN Old ELSE Cleared(page)]
            /\ UNCHANGED <<pc, area, brk, minbrk>>
      BY <2>1
    <3> DEFINE freed == IF pte[p][a.va] # NoPte /\ pte[p][v] # NoPte THEN {pte[p][v].page} ELSE {}
    <3>2. page \in Pages
      BY <2>2, Entries
    <3>3. freed \in SUBSET Pages
      BY Entries
    <3> QED BY <3>1, <3>2, <3>3
  <2>4. Pte(page, a.prot, FALSE) \in PteRange
    BY <2>2, PteType DEF PteRange
  <2>5. pte' \in [Procs -> [Va -> PteRange]]
    <3>1. pte \in [Procs -> [Va -> PteRange]]
      BY PteTables
    <3> QED BY <2>2, <2>3, <2>4, <3>1
  <2>6. mem' \in [Pages -> Values \cup {Old}]
    BY <2>3, ClearedType DEF TypeOK
  <2>7. free' \subseteq Pages
    BY <2>3 DEF TypeOK
  <2> QED BY <2>3, <2>5, <2>6, <2>7, SameAreas DEF TypeOK, PteRange
<1>6. CASE FaultExec(p, v)
  <2>1. PICK a \in At(p, v), page \in free :
            /\ MapPage(p, v, page, a.prot)
            /\ mem' = [mem EXCEPT ![page] = Image]
            /\ UNCHANGED area
    BY <1>6 DEF FaultExec
  <2>2. page \in Pages /\ a.prot \in AllProts
    BY DEF TypeOK, At, Areas
  <2>3. mem' \in [Pages -> Values \cup {Old}]
    BY <2>1 DEF TypeOK, Values
  <2> QED BY <2>1, <2>2, <2>3, MapPageTypes, SameAreas DEF TypeOK, PteRange
<1> QED BY <1>1, <1>2, <1>3, <1>4, <1>5, <1>6

LEMMA TypesNext == TypeOK /\ AreasApart /\ [Next]_vars => TypeOK' /\ AreasApart'
<1> SUFFICES ASSUME TypeOK, AreasApart, [Next]_vars PROVE TypeOK' /\ AreasApart'
  OBVIOUS
<1>1. CASE UNCHANGED vars
  BY <1>1 DEF vars, TypeOK, AreasApart
<1>2. ASSUME NEW p \in Procs, NEW v \in Va,
           \/ \E x \in Data : Store(p, v, x)
           \/ FaultStack(p, v)
           \/ FaultProg(p, v)
           \/ FaultAnon(p, v)
           \/ FaultFile(p, v)
           \/ FaultExec(p, v)
      PROVE  TypeOK' /\ AreasApart'
  BY <1>2, FaultTypes
<1>3. ASSUME NEW p \in Procs, NEW v \in Va, Grow(p, v)
      PROVE  TypeOK' /\ AreasApart'
  BY <1>3, HeapAreas DEF Grow, TypeOK
<1>4. ASSUME NEW p \in Procs, NEW v \in Va, Shrink(p, v)
      PROVE  TypeOK' /\ AreasApart'
  <2>1. Release(p, Cut(p, v)) /\ brk' = [brk EXCEPT ![p] = v] /\ UNCHANGED <<pc, minbrk>>
    BY <1>4 DEF Shrink
  <2> QED BY <2>1, ReleaseTypes DEF TypeOK, PteRange
<1>5. ASSUME NEW p \in Procs, NEW v \in Va, Munmap(p, v)
      PROVE  TypeOK' /\ AreasApart'
  <2>1. Release(p, At(p, v)) /\ UNCHANGED <<pc, brk, minbrk>>
    BY <1>5 DEF Munmap
  <2> QED BY <2>1, ReleaseTypes DEF TypeOK, PteRange
<1>6. ASSUME NEW p \in Procs, NEW v \in Va, NEW len \in 1 .. MaxLen, NEW prot \in Prots,
             NEW file \in BOOLEAN, Mmap(p, v, len, prot, file)
      PROVE  TypeOK' /\ AreasApart'
  BY <1>6, MmapArea DEF Mmap, TypeOK
<1>7. ASSUME NEW p \in Procs, FaultIllegal(p) \/ FaultNoPage(p) \/ ShrinkNull(p)
      PROVE  TypeOK' /\ AreasApart'
  <2>1. CASE FaultIllegal(p)
    BY <2>1, SameAreas DEF FaultIllegal, TypeOK
  <2>2. CASE Lost
    BY <2>2, LostTypes
  <2> QED BY <1>7, <2>1, <2>2 DEF FaultNoPage, ShrinkNull
<1>8. ASSUME NEW p \in Procs, NEW c \in Procs, Clone(p, c) \/ CloneNoPage(p, c)
      PROVE  TypeOK' /\ AreasApart'
  BY <1>8, CloneTypes, LostTypes DEF CloneNoPage
<1>9. ASSUME NEW p \in Procs, NEW g \in Programs, Execve(p, g) \/ ExecveNoPage(p, g)
      PROVE  TypeOK' /\ AreasApart'
  BY <1>9, ExecveTypes, LostTypes DEF ExecveNoPage
<1>10. ASSUME NEW p \in Procs, Exit(p)
       PROVE  TypeOK' /\ AreasApart'
  <2>1. area' = [area EXCEPT ![p] = {}] /\ pte' = [pte EXCEPT ![p] = NoTable]
        /\ free' = free \cup Released(p, area[p]) /\ mem' = Forgotten(Released(p, area[p]))
        /\ pc' = [pc EXCEPT ![p] = "none"] /\ UNCHANGED <<brk, minbrk>>
    BY <1>10 DEF Exit
  <2>2. Apart({}) /\ Spans({}) \subseteq Va
    BY DEF Apart, Spans
  <2>3. area' \in [Procs -> SUBSET Areas] /\ AreasApart'
    BY <2>1, <2>2, NewAreas DEF Areas1
  <2>4. pte' \in [Procs -> [Va -> PteRange]]
    <3>1. NoTable \in [Va -> PteRange]
      BY DEF NoTable, PteRange
    <3> QED BY <2>1, <3>1, PteTables
  <2>5. mem' \in [Pages -> Values \cup {Old}] /\ free' \subseteq Pages
    BY <2>1, ForgottenType, ReleasedType DEF TypeOK
  <2> QED BY <2>1, <2>3, <2>4, <2>5 DEF TypeOK, PteRange
<1> QED
  BY <1>1, <1>2, <1>3, <1>4, <1>5, <1>6, <1>7, <1>8, <1>9, <1>10 DEF Next

(* Types, whatever programs do and however many processes and pages there   *)
(* are.                                                                     *)
THEOREM VmmTypes == Spec => []TypeOK
<1>1. Spec => [](TypeOK /\ AreasApart)
  BY TypesInit, TypesNext, PTL DEF Spec
<1> QED BY <1>1, PTL

(* The areas of a process never overlap, whatever order of brk, mmap,       *)
(* munmap, clone, execve and faults leads there (README.md:194).            *)
THEOREM VmmAreasApart == Spec => []AreasApart
<1>1. Spec => [](TypeOK /\ AreasApart)
  BY TypesInit, TypesNext, PTL DEF Spec
<1> QED BY <1>1, PTL

-----------------------------------------------------------------------------
(* Owners.  A page that is not free is owned by one place, and one that is  *)
(* lent (PTE_F) is owned by another process.                                *)

HIDE VmmAssumption

Owns(e) == e # NoPte /\ ~ e.fork
Lent(e) == e # NoPte /\ e.fork

Tables == [Procs -> [Va -> PteRange]]

OwnersKept(T, F) ==
    \A p \in Procs, v \in Va : Owns(T[p][v]) => T[p][v].page \notin F
OwnerExists(T, F) ==
    \A g \in Pages \ F : \E p \in Procs, v \in Va : Owns(T[p][v]) /\ T[p][v].page = g
OwnerUnique(T) ==
    \A p, q \in Procs, v, w \in Va :
        Owns(T[p][v]) /\ Owns(T[q][w]) /\ T[p][v].page = T[q][w].page => p = q /\ v = w
LenderExists(T) ==
    \A p \in Procs, v \in Va :
        Lent(T[p][v]) => \E q \in Procs \ {p}, w \in Va :
            Owns(T[q][w]) /\ T[q][w].page = T[p][v].page

Owned(T, F) == OwnersKept(T, F) /\ OwnerExists(T, F) /\ OwnerUnique(T) /\ LenderExists(T)

LEMMA OwnedEntry ==
    ASSUME NEW page \in Pages, NEW prot \in AllProts, NEW e, e = Pte(page, prot, FALSE)
    PROVE  Owns(e) /\ ~ Lent(e) /\ e # NoPte /\ e.page = page /\ e.prot = prot
BY PteType DEF Owns, Lent, Pte

LEMMA LentEntry ==
    ASSUME NEW page \in Pages, NEW prot \in AllProts, NEW e, e = Pte(page, prot, TRUE)
    PROVE  Lent(e) /\ ~ Owns(e) /\ e # NoPte /\ e.page = page /\ e.prot = prot
BY PteType DEF Owns, Lent, Pte

LEMMA OwnOrLent == \A e : e # NoPte <=> Owns(e) \/ Lent(e)
BY DEF Owns, Lent

LEMMA NotBoth == \A e : ~ (Owns(e) /\ Lent(e)) /\ ~ Owns(NoPte) /\ ~ Lent(NoPte)
BY DEF Owns, Lent

(* A page mapped at one address: a new one, or the one that was there.      *)
LEMMA OwnedMap ==
    ASSUME NEW T, NEW F, Owned(T, F), NEW p \in Procs, NEW v \in Va, NEW page,
           NEW T2, Owns(T2[p][v]), T2[p][v].page = page,
           \A q \in Procs, w \in Va : q # p \/ w # v => T2[q][w] = T[q][w],
           \/ T[p][v] = NoPte /\ page \in F
           \/ Owns(T[p][v]) /\ page = T[p][v].page
    PROVE  Owned(T2, F \ {page})
<1>1. ASSUME NEW q \in Procs, NEW w \in Va, Owns(T[q][w]), T[q][w].page = page
      PROVE  q = p /\ w = v
  BY <1>1 DEF Owned, OwnersKept, OwnerUnique
<1>2. OwnersKept(T2, F \ {page})
  BY DEF Owned, OwnersKept
<1>3. OwnerExists(T2, F \ {page})
  <2> SUFFICES ASSUME NEW g \in Pages \ (F \ {page})
               PROVE  \E q \in Procs, w \in Va : Owns(T2[q][w]) /\ T2[q][w].page = g
    BY DEF OwnerExists
  <2>1. CASE g = page
    BY <2>1
  <2>2. CASE g # page
    <3>1. PICK q \in Procs, w \in Va : Owns(T[q][w]) /\ T[q][w].page = g
      BY <2>2 DEF Owned, OwnerExists
    <3>2. q # p \/ w # v
      BY <3>1, <2>2, NotBoth
    <3> QED BY <3>1, <3>2
  <2> QED BY <2>1, <2>2
<1>4. OwnerUnique(T2)
  <2>1. ASSUME NEW q \in Procs, NEW w \in Va, Owns(T2[q][w]), T2[q][w].page = page
        PROVE  q = p /\ w = v
    BY <1>1, <2>1
  <2> SUFFICES ASSUME NEW q \in Procs, NEW w \in Va, NEW r \in Procs, NEW x \in Va,
                      Owns(T2[q][w]), Owns(T2[r][x]), T2[q][w].page = T2[r][x].page
               PROVE  q = r /\ w = x
    BY DEF OwnerUnique
  <2>2. CASE T2[q][w].page = page
    BY <2>1, <2>2
  <2>3. CASE T2[q][w].page # page
    <3>1. T2[q][w] = T[q][w] /\ T2[r][x] = T[r][x]
      BY <2>3
    <3> QED BY <3>1 DEF Owned, OwnerUnique
  <2> QED BY <2>2, <2>3
<1>5. LenderExists(T2)
  <2> SUFFICES ASSUME NEW q \in Procs, NEW w \in Va, Lent(T2[q][w])
               PROVE  \E r \in Procs \ {q}, x \in Va :
                        Owns(T2[r][x]) /\ T2[r][x].page = T2[q][w].page
    BY DEF LenderExists
  <2>1. T2[q][w] = T[q][w]
    BY NotBoth
  <2>2. PICK r \in Procs \ {q}, x \in Va : Owns(T[r][x]) /\ T[r][x].page = T[q][w].page
    BY <2>1 DEF Owned, LenderExists
  <2>3. Owns(T2[r][x]) /\ T2[r][x].page = T[r][x].page
    BY <2>2, NotBoth
  <2> QED BY <2>1, <2>2, <2>3
<1> QED BY <1>2, <1>3, <1>4, <1>5 DEF Owned

(* Pages freed and taken from the table, which no other process maps.       *)
LEMMA OwnedRelease ==
    ASSUME NEW T, NEW F, Owned(T, F), NEW p \in Procs, NEW E \in SUBSET Va,
           NEW T2, NEW F2,
           \A v \in E : T2[p][v] = NoPte,
           \A q \in Procs, w \in Va : q # p \/ w \notin E => T2[q][w] = T[q][w],
           \A g : g \in F2 <=> g \in F \/ \E v \in E : Owns(T[p][v]) /\ T[p][v].page = g,
           \A v \in E, q \in Procs \ {p}, w \in Va :
                Owns(T[p][v]) /\ T[q][w] # NoPte => T[q][w].page # T[p][v].page
    PROVE  Owned(T2, F2)
<1>1. \A q \in Procs, w \in Va : T2[q][w] # NoPte => T2[q][w] = T[q][w] /\ (q # p \/ w \notin E)
  OBVIOUS
<1>2. OwnersKept(T2, F2)
  <2> SUFFICES ASSUME NEW q \in Procs, NEW w \in Va, Owns(T2[q][w]), T2[q][w].page \in F2
               PROVE  FALSE
    BY DEF OwnersKept
  <2>1. T2[q][w] = T[q][w] /\ (q # p \/ w \notin E) /\ Owns(T[q][w])
    BY <1>1, OwnOrLent
  <2>2. T[q][w].page \notin F
    BY <2>1 DEF Owned, OwnersKept
  <2>3. PICK v \in E : Owns(T[p][v]) /\ T[p][v].page = T[q][w].page
    BY <2>1, <2>2
  <2>4. v \in Va
    OBVIOUS
  <2>5. q = p /\ w = v
    BY <2>1, <2>3, <2>4 DEF Owned, OwnerUnique
  <2> QED BY <2>1, <2>3, <2>5
<1>3. OwnerExists(T2, F2)
  <2> SUFFICES ASSUME NEW g \in Pages \ F2
               PROVE  \E q \in Procs, w \in Va : Owns(T2[q][w]) /\ T2[q][w].page = g
    BY DEF OwnerExists
  <2>1. PICK q \in Procs, w \in Va : Owns(T[q][w]) /\ T[q][w].page = g
    BY DEF Owned, OwnerExists
  <2>2. q # p \/ w \notin E
    BY <2>1
  <2> QED BY <2>1, <2>2
<1>4. OwnerUnique(T2)
  BY <1>1, OwnOrLent DEF Owned, OwnerUnique
<1>5. LenderExists(T2)
  <2> SUFFICES ASSUME NEW q \in Procs, NEW w \in Va, Lent(T2[q][w])
               PROVE  \E r \in Procs \ {q}, x \in Va :
                        Owns(T2[r][x]) /\ T2[r][x].page = T2[q][w].page
    BY DEF LenderExists
  <2>1. T2[q][w] = T[q][w] /\ T[q][w] # NoPte
    BY <1>1, OwnOrLent
  <2>2. PICK r \in Procs \ {q}, x \in Va : Owns(T[r][x]) /\ T[r][x].page = T[q][w].page
    BY <2>1 DEF Owned, LenderExists
  <2>3. r # p \/ x \notin E
    BY <2>1, <2>2
  <2> QED BY <2>1, <2>2, <2>3
<1> QED BY <1>2, <1>3, <1>4, <1>5 DEF Owned

(* A table filled with new pages, and with pages of another process.        *)
TableLoaded(T, F, T2, p, S, f) ==
    /\ S \in SUBSET Va /\ f \in [S -> F]
    /\ \A v, w \in S : f[v] = f[w] => v = w
    /\ \A v \in Va : T[p][v] = NoPte
    /\ \A q \in Procs \ {p}, w \in Va : T2[q][w] = T[q][w]
    /\ \A v \in S : Owns(T2[p][v]) /\ T2[p][v].page = f[v]
    /\ \A v \in Va \ S : ~ Owns(T2[p][v])
    /\ \A v \in Va : Lent(T2[p][v]) => \E q \in Procs \ {p}, w \in Va :
                Owns(T[q][w]) /\ T[q][w].page = T2[p][v].page

LEMMA OwnedLoad ==
    ASSUME NEW T, NEW F, Owned(T, F), NEW p \in Procs, NEW S, NEW f, NEW T2,
           TableLoaded(T, F, T2, p, S, f)
    PROVE  Owned(T2, F \ Range(f))
<1> USE DEF TableLoaded
<1>1. Range(f) = {f[v] : v \in S} /\ DOMAIN f = S
  BY DEF Range
<1>2. \A q \in Procs, w \in Va : Owns(T[q][w]) => q # p /\ T2[q][w] = T[q][w]
  BY NotBoth
<1>3. OwnersKept(T2, F \ Range(f))
  <2> SUFFICES ASSUME NEW q \in Procs, NEW w \in Va, Owns(T2[q][w])
               PROVE  T2[q][w].page \notin F \ Range(f)
    BY DEF OwnersKept
  <2>1. CASE q = p
    <3>1. w \in S /\ T2[q][w].page = f[w]
      BY <2>1
    <3> QED BY <3>1, <1>1
  <2>2. CASE q # p
    BY <2>2 DEF Owned, OwnersKept
  <2> QED BY <2>1, <2>2
<1>4. OwnerExists(T2, F \ Range(f))
  <2> SUFFICES ASSUME NEW g \in Pages \ (F \ Range(f))
               PROVE  \E q \in Procs, w \in Va : Owns(T2[q][w]) /\ T2[q][w].page = g
    BY DEF OwnerExists
  <2>1. CASE g \in Range(f)
    <3>1. PICK v \in S : g = f[v]
      BY <2>1, <1>1
    <3>2. v \in Va /\ Owns(T2[p][v]) /\ T2[p][v].page = g
      BY <3>1
    <3> QED BY <3>2
  <2>2. CASE g \notin F
    <3>1. PICK q \in Procs, w \in Va : Owns(T[q][w]) /\ T[q][w].page = g
      BY <2>2 DEF Owned, OwnerExists
    <3> QED BY <3>1, <1>2
  <2> QED BY <2>1, <2>2
<1>5. OwnerUnique(T2)
  <2> SUFFICES ASSUME NEW q \in Procs, NEW w \in Va, NEW r \in Procs, NEW x \in Va,
                      Owns(T2[q][w]), Owns(T2[r][x]), T2[q][w].page = T2[r][x].page
               PROVE  q = r /\ w = x
    BY DEF OwnerUnique
  <2>1. \A y \in Va : Owns(T2[p][y]) => y \in S /\ T2[p][y].page = f[y] /\ f[y] \in F
    OBVIOUS
  <2>2. \A y \in Procs \ {p}, z \in Va : Owns(T2[y][z]) => Owns(T[y][z]) /\ T2[y][z] = T[y][z]
                                                         /\ T[y][z].page \notin F
    BY DEF Owned, OwnersKept
  <2>3. CASE q = p /\ r = p
    BY <2>1, <2>3
  <2>4. CASE q # p /\ r # p
    <3>1. Owns(T[q][w]) /\ Owns(T[r][x]) /\ T[q][w].page = T[r][x].page
      BY <2>2, <2>4
    <3> QED BY <3>1 DEF Owned, OwnerUnique
  <2>5. CASE q = p /\ r # p
    BY <2>1, <2>2, <2>5
  <2>6. CASE q # p /\ r = p
    BY <2>1, <2>2, <2>6
  <2> QED BY <2>3, <2>4, <2>5, <2>6
<1>6. LenderExists(T2)
  <2> SUFFICES ASSUME NEW q \in Procs, NEW w \in Va, Lent(T2[q][w])
               PROVE  \E r \in Procs \ {q}, x \in Va :
                        Owns(T2[r][x]) /\ T2[r][x].page = T2[q][w].page
    BY DEF LenderExists
  <2>1. CASE q = p
    <3>1. PICK r \in Procs \ {p}, x \in Va : Owns(T[r][x]) /\ T[r][x].page = T2[p][w].page
      BY <2>1
    <3> QED BY <3>1, <1>2, <2>1
  <2>2. CASE q # p
    <3>1. T2[q][w] = T[q][w]
      BY <2>2
    <3>2. PICK r \in Procs \ {q}, x \in Va : Owns(T[r][x]) /\ T[r][x].page = T[q][w].page
      BY <3>1 DEF Owned, LenderExists
    <3> QED BY <3>1, <3>2, <1>2
  <2> QED BY <2>1, <2>2
<1> QED BY <1>3, <1>4, <1>5, <1>6 DEF Owned

-----------------------------------------------------------------------------
(* The invariant for programs that are not Careless.                        *)

NoMemory == \A p \in Procs : pc[p] = "none" => area[p] = {} /\ pte[p] = NoTable

FilesSmall == \A p \in Procs : \A a \in area[p] : a.file => a.size = 1

MappedInAreas == \A p \in Procs : Mapped(p) \subseteq Spans(area[p])

\* A page of the program that may not be written to is as it was loaded; a
\* page that is lent is one of code.
ProgramEntry(a, e, M) ==
    e # NoPte =>
        /\ "W" \in e.prot => "R" \in e.prot /\ "W" \in a.prot
        /\ Owns(e) /\ "W" \notin e.prot => M[e.page] = Image
        /\ Lent(e) => "X" \in a.prot

ProgramArea(a, t, M) ==
    a.type = "PROG" =>
        /\ "W" \in a.prot => "R" \in a.prot
        /\ \A v \in Span(a) : ProgramEntry(a, t[v], M)

Program(p) == \A a \in area[p] : ProgramArea(a, pte[p], mem)

VInv ==
    /\ TypeOK /\ AreasApart
    /\ NoMemory /\ FilesSmall /\ MappedInAreas
    /\ Owned(pte, free)
    /\ \A p \in Procs : Program(p)

\* What is read at v, from areas A, entry e and memory M.
ReadOf(A, e, M, v) ==
    IF v \notin Spans(A) THEN Nothing
    ELSE IF e # NoPte THEN M[e.page]
    ELSE IF \E a \in A : v \in Span(a) /\ a.type = "PROG" THEN Image
    ELSE Zero

LEMMA ReadIs ==
    ASSUME NEW p \in Procs, NEW v \in Va
    PROVE  /\ Read(p, v) = ReadOf(area[p], pte[p][v], mem, v)
           /\ Read(p, v)' = ReadOf(area'[p], pte'[p][v], mem', v)
BY DEF Read, Content, At, ReadOf, Spans

LEMMA ReadAt ==
    ASSUME NEW A, Apart(A), NEW a \in A, NEW v \in Span(a), NEW e, NEW M
    PROVE  ReadOf(A, e, M, v) =
             IF e # NoPte THEN M[e.page] ELSE IF a.type = "PROG" THEN Image ELSE Zero
<1>1. v \in Spans(A)
  BY DEF Spans
<1>2. \A b \in A : v \in Span(b) => b = a
  BY DEF Apart
<1> QED BY <1>1, <1>2 DEF ReadOf

LEMMA ReadNone ==
    ASSUME NEW A, NEW v, v \notin Spans(A), NEW e, NEW M
    PROVE  ReadOf(A, e, M, v) = Nothing
BY DEF ReadOf

LEMMA ElsewhereIs ==
    ASSUME NEW p \in Procs
    PROVE  \A g : g \in Elsewhere(p) <=>
                \E q \in Procs \ {p}, v \in Va : pte[q][v] # NoPte /\ pte[q][v].page = g
BY DEF Elsewhere, Mapped

LEMMA FreeUnmapped ==
    ASSUME Owned(pte, free), NEW p \in Procs, NEW v \in Va, pte[p][v] # NoPte
    PROVE  pte[p][v].page \notin free
<1>1. CASE Owns(pte[p][v])
  BY <1>1 DEF Owned, OwnersKept
<1>2. CASE Lent(pte[p][v])
  BY <1>2 DEF Owned, OwnersKept, LenderExists
<1> QED BY <1>1, <1>2, OwnOrLent

LEMMA LentElsewhere ==
    ASSUME Owned(pte, free), NEW p \in Procs, NEW v \in Va, Lent(pte[p][v])
    PROVE  pte[p][v].page \in Elsewhere(p)
<1>1. PICK q \in Procs \ {p}, w \in Va : Owns(pte[q][w]) /\ pte[q][w].page = pte[p][v].page
  BY DEF Owned, LenderExists
<1> QED BY <1>1, ElsewhereIs, OwnOrLent

-----------------------------------------------------------------------------
(* A step of p leaves the others alone.                                     *)

Quiet(p) ==
    /\ \A q \in Procs \ {p} : area'[q] = area[q] /\ pte'[q] = pte[q]
    /\ \A g \in Elsewhere(p) : mem'[g] = mem[g]

LEMMA OthersRead ==
    ASSUME NEW p \in Procs, Quiet(p), NEW q \in Procs \ {p}, NEW v \in Va
    PROVE  Read(q, v)' = Read(q, v)
<1>1. area'[q] = area[q] /\ pte'[q][v] = pte[q][v]
  BY DEF Quiet
<1>2. pte[q][v] # NoPte => mem'[pte[q][v].page] = mem[pte[q][v].page]
  BY ElsewhereIs DEF Quiet
<1> QED BY <1>1, <1>2, ReadIs DEF ReadOf

LEMMA OthersPrograms ==
    ASSUME AreasApart, NEW p \in Procs, Quiet(p), NEW q \in Procs \ {p}, Program(q)
    PROVE  Program(q)'
<1>1. area'[q] = area[q] /\ pte'[q] = pte[q]
  BY DEF Quiet
<1>2. ASSUME NEW a \in area[q], NEW v \in Span(a), ProgramEntry(a, pte[q][v], mem)
      PROVE  ProgramEntry(a, pte[q][v], mem')
  <2>1. v \in Va
    BY SpanInSpans DEF AreasApart
  <2>2. pte[q][v] # NoPte => mem'[pte[q][v].page] = mem[pte[q][v].page]
    BY <2>1, ElsewhereIs DEF Quiet
  <2> QED BY <1>2, <2>2 DEF ProgramEntry
<1>3. \A a \in area[q] : ProgramArea(a, pte[q], mem) => ProgramArea(a, pte[q], mem')
  BY <1>2 DEF ProgramArea
<1> QED BY <1>1, <1>3 DEF Program

LEMMA OthersInAreas ==
    ASSUME NEW p \in Procs, Quiet(p), MappedInAreas, FilesSmall,
           (Mapped(p) \subseteq Spans(area[p]))', \A a \in area'[p] : a.file => a.size = 1
    PROVE  MappedInAreas' /\ FilesSmall'
BY DEF Quiet, MappedInAreas, FilesSmall, Mapped

-----------------------------------------------------------------------------
(* A fault gives an address a page, or one that it had other rights.        *)

Gives(p, v, page, prot) ==
    /\ CanRun(p) /\ UNCHANGED pc
    /\ pte' = [pte EXCEPT ![p][v] = Pte(page, prot, FALSE)]
    /\ free' = free \ {page}
    /\ \A q \in Procs \ {p} : area'[q] = area[q]
    /\ \A g \in Pages \ {page} : mem'[g] = mem[g]
    /\ \/ pte[p][v] = NoPte /\ page \in free
       \/ /\ Owns(pte[p][v]) /\ page = pte[p][v].page
          /\ page \notin Elsewhere(p)
    /\ v \in Spans(area'[p]) /\ Spans(area[p]) \subseteq Spans(area'[p])
    /\ \A a \in area'[p] : a.file => a.size = 1

LEMMA GivesFacts ==
    ASSUME VInv, NEW p \in Procs, NEW v \in Va, NEW page \in Pages, NEW prot \in AllProts,
           Gives(p, v, page, prot)
    PROVE  /\ pte'[p][v] = Pte(page, prot, FALSE)
           /\ \A w \in Va \ {v} : pte'[p][w] = pte[p][w]
           /\ \A w \in Va \ {v} : pte[p][w] # NoPte =>
                    mem'[pte[p][w].page] = mem[pte[p][w].page]
           /\ Quiet(p)
<1>1. pte \in [Procs -> [Va -> PteRange]] /\ area \in [Procs -> SUBSET Areas]
      /\ mem \in [Pages -> Values \cup {Old}] /\ free \subseteq Pages
  BY PteTables DEF VInv
<1>2. pte'[p][v] = Pte(page, prot, FALSE)
      /\ (\A w \in Va \ {v} : pte'[p][w] = pte[p][w])
      /\ \A q \in Procs \ {p} : pte'[q] = pte[q]
  BY <1>1 DEF Gives
<1>3. \A q \in Procs \ {p} : area'[q] = area[q]
  BY <1>1 DEF Gives
<1>4. \A g \in Pages : g # page => mem'[g] = mem[g]
  BY <1>1 DEF Gives
<1>5. page \notin Elsewhere(p)
  <2>1. CASE page \in free
    <3>1. Owned(pte, free)
      BY DEF VInv
    <3> QED BY <2>1, <3>1, FreeUnmapped, ElsewhereIs
  <2> QED BY <2>1 DEF Gives
<1>6. ASSUME NEW w \in Va \ {v}, pte[p][w] # NoPte
      PROVE  pte[p][w].page # page
  <2>1. Owned(pte, free)
    BY DEF VInv
  <2>2. CASE page \in free
    BY <2>1, <2>2, <1>6, FreeUnmapped
  <2>3. CASE Owns(pte[p][v]) /\ page = pte[p][v].page
    <3>1. CASE Owns(pte[p][w])
      BY <2>1, <2>3, <3>1 DEF Owned, OwnerUnique
    <3>2. CASE Lent(pte[p][w])
      BY <2>1, <3>2, <1>5, LentElsewhere
    <3> QED BY <3>1, <3>2, <1>6, OwnOrLent
  <2> QED BY <2>2, <2>3 DEF Gives
<1>7. Quiet(p)
  <2>1. \A g \in Elsewhere(p) : g \in Pages
    BY <1>1, ElsewhereIs DEF PteRange, Ptes
  <2> QED BY <1>2, <1>3, <1>4, <1>5, <2>1 DEF Quiet
<1>8. \A w \in Va \ {v} : pte[p][w] # NoPte => mem'[pte[p][w].page] = mem[pte[p][w].page]
  BY <1>1, <1>4, <1>6 DEF PteRange, Ptes
<1> QED BY <1>2, <1>3, <1>4, <1>7, <1>8

LEMMA GivesOwned ==
    ASSUME VInv, NEW p \in Procs, NEW v \in Va, NEW page \in Pages, NEW prot \in AllProts,
           Gives(p, v, page, prot)
    PROVE  Owned(pte, free)'
<1>1. pte \in [Procs -> [Va -> PteRange]] /\ Owned(pte, free)
  BY PteTables DEF VInv
<1>2. Owns(pte'[p][v]) /\ pte'[p][v].page = page
  <2>1. pte'[p][v] = Pte(page, prot, FALSE)
    BY GivesFacts
  <2> QED BY <2>1, OwnedEntry
<1>3. \A q \in Procs, w \in Va : q # p \/ w # v => pte'[q][w] = pte[q][w]
  BY <1>1 DEF Gives
<1>4. \/ pte[p][v] = NoPte /\ page \in free
      \/ Owns(pte[p][v]) /\ page = pte[p][v].page
  BY DEF Gives
<1>5. Owned(pte', free \ {page})
  BY <1>1, <1>2, <1>3, <1>4, OwnedMap
<1>6. free' = free \ {page}
  BY DEF Gives
<1> QED BY <1>5, <1>6

LEMMA GivesInAreas ==
    ASSUME VInv, NEW p \in Procs, NEW v \in Va, NEW page \in Pages, NEW prot \in AllProts,
           Gives(p, v, page, prot)
    PROVE  NoMemory' /\ MappedInAreas' /\ FilesSmall'
<1>1. Quiet(p) /\ \A w \in Va \ {v} : pte'[p][w] = pte[p][w]
  BY GivesFacts
<1>2. (Mapped(p) \subseteq Spans(area[p]))'
  <2>1. Mapped(p) \subseteq Spans(area[p])
    BY DEF VInv, MappedInAreas
  <2>2. v \in Spans(area'[p]) /\ Spans(area[p]) \subseteq Spans(area'[p])
    BY DEF Gives
  <2> QED BY <1>1, <2>1, <2>2 DEF Mapped
<1>3. \A a \in area'[p] : a.file => a.size = 1
  BY <1>1 DEF Gives
<1>4. MappedInAreas' /\ FilesSmall'
  BY <1>1, <1>2, <1>3, OthersInAreas DEF VInv
<1>5. NoMemory'
  <2>1. \A q \in Procs : pc'[q] = "none" => q # p /\ pc[q] = "none"
    BY DEF Gives, CanRun
  <2> QED BY <1>1, <2>1 DEF Quiet, NoMemory, VInv
<1> QED BY <1>4, <1>5

(* The invariant after such a step, of which the program of p is left.      *)
LEMMA GivesInv ==
    ASSUME VInv, TypeOK', AreasApart',
           NEW p \in Procs, NEW v \in Va, NEW page \in Pages, NEW prot \in AllProts,
           Gives(p, v, page, prot), Program(p)'
    PROVE  VInv'
<1>1. Quiet(p)
  BY GivesFacts
<1>2. \A q \in Procs : Program(q)'
  BY <1>1, OthersPrograms DEF VInv
<1> QED BY <1>2, GivesOwned, GivesInAreas DEF VInv

(* What p reads where it had no fault.                                      *)
LEMMA GivesRead ==
    ASSUME VInv, AreasApart', NEW p \in Procs, NEW v \in Va, NEW page \in Pages, NEW prot \in AllProts,
           Gives(p, v, page, prot),
           NEW w \in Va \ {v},
           \A a \in area[p] : w \in Span(a) =>
                \E b \in area'[p] : w \in Span(b) /\ b.type = a.type,
           w \notin Spans(area[p]) => w \notin Spans(area'[p])
    PROVE  Read(p, w)' = Read(p, w)
<1>1. /\ pte'[p][w] = pte[p][w]
      /\ pte[p][w] # NoPte => mem'[pte[p][w].page] = mem[pte[p][w].page]
  BY GivesFacts
<1>2. Apart(area[p]) /\ Apart(area'[p])
  BY <1>1 DEF VInv, AreasApart
<1>3. CASE w \notin Spans(area[p])
  BY <1>1, <1>3, ReadIs, ReadNone
<1>4. CASE w \in Spans(area[p])
  <2>1. PICK a \in area[p] : w \in Span(a)
    BY <1>4 DEF Spans
  <2>2. PICK b \in area'[p] : w \in Span(b) /\ b.type = a.type
    BY <2>1
  <2> QED BY <1>1, <1>2, <2>1, <2>2, ReadIs, ReadAt
<1> QED BY <1>3, <1>4

-----------------------------------------------------------------------------
(* Steps of the abstract memory                                             *)

LEMMA ViewSame ==
    ASSUME NEW p \in Procs, Quiet(p), \A v \in Va : Read(p, v)' = Read(p, v)
    PROVE  [q \in Procs |-> [v \in Va |-> Read(q, v)]]' = [q \in Procs |-> [v \in Va |-> Read(q, v)]]
<1>1. \A q \in Procs, v \in Va : Read(q, v)' = Read(q, v)
  BY OthersRead
<1> QED BY <1>1

LEMMA ViewMap ==
    ASSUME NEW p \in Procs, Quiet(p),
           \A v \in Va : Read(p, v)' # Read(p, v) => Read(p, v) = Nothing /\ Read(p, v)' = Zero
    PROVE  Own!Next
BY OthersRead DEF Own!Next, Own!Map, Own!Alone

LEMMA ViewUnmap ==
    ASSUME NEW p \in Procs, Quiet(p),
           \A v \in Va : Read(p, v)' # Read(p, v) => Read(p, v)' = Nothing
    PROVE  Own!Next
BY OthersRead DEF Own!Next, Own!Unmap, Own!Alone

LEMMA ViewStore ==
    ASSUME NEW p \in Procs, NEW v \in Va, Quiet(p),
           \A w \in Va \ {v} : Read(p, w)' = Read(p, w),
           Read(p, v) # Nothing, Read(p, v)' \in Values
    PROVE  Own!Next
BY OthersRead DEF Own!Next, Own!Store, Own!Alone

LEMMA ViewFork ==
    ASSUME NEW p \in Procs, NEW c \in Procs, Quiet(c),
           \A v \in Va : Read(c, v) = Nothing /\ Read(c, v)' = Read(p, v)
    PROVE  Own!Next
BY OthersRead DEF Own!Next, Own!Fork, Own!Alone, Own!Empty

LEMMA ViewBecome ==
    ASSUME NEW p \in Procs, Quiet(p), NEW g \in Programs,
           \A v \in Va : Read(p, v)' = Memory(g)[v]
    PROVE  Own!Next
BY OthersRead DEF Own!Next, Own!Become, Own!Alone, Memory

View == [p \in Procs |-> [v \in Va |-> Read(p, v)]]

-----------------------------------------------------------------------------
(* Faults *)

(* Where a fault may get its page from.                                     *)
LEMMA FaultPage ==
    ASSUME VInv, Careless = {}, NEW p \in Procs, NEW v \in Va, Fault(p, v),
           NEW page \in Backing(p, v)
    PROVE  /\ page \in Pages
           /\ \/ pte[p][v] = NoPte /\ page \in free
              \/ /\ Owns(pte[p][v]) /\ page = pte[p][v].page
                 /\ page \notin Elsewhere(p)
<1>1. page \in Pages
  BY Entries DEF VInv
<1>2. CASE pte[p][v] = NoPte
  BY <1>1, <1>2 DEF Backing
<1>3. CASE pte[p][v] # NoPte
  <2>1. page = pte[p][v].page /\ page \notin Elsewhere(p)
    BY <1>3 DEF Backing, Fault
  <2>2. Owns(pte[p][v])
    BY <1>3, <2>1, LentElsewhere, OwnOrLent DEF VInv
  <2> QED BY <1>1, <2>1, <2>2
<1> QED BY <1>2, <1>3

LEMMA GivesProgram ==
    ASSUME VInv, NEW p \in Procs, NEW v \in Va, NEW page \in Pages, NEW prot \in AllProts,
           Gives(p, v, page, prot), NEW a \in area[p], a.type = "PROG"
    PROVE  \A w \in Span(a) \ {v} : ProgramEntry(a, pte'[p][w], mem')
<1> SUFFICES ASSUME NEW w \in Span(a) \ {v} PROVE ProgramEntry(a, pte'[p][w], mem')
  OBVIOUS
<1>1. w \in Va
  BY SpanInSpans DEF VInv, AreasApart
<1>2. ProgramEntry(a, pte[p][w], mem)
  BY DEF VInv, Program, ProgramArea
<1>3. \A x \in Va \ {v} : pte'[p][x] = pte[p][x]
  BY GivesFacts
<1>4. \A x \in Va \ {v} : pte[p][x] # NoPte => mem'[pte[p][x].page] = mem[pte[p][x].page]
  BY GivesFacts
<1> QED BY <1>1, <1>2, <1>3, <1>4 DEF ProgramEntry

(* The program of p when its areas stay and v is not one of its pages.      *)
LEMMA GivesOther ==
    ASSUME VInv, NEW p \in Procs, NEW v \in Va, NEW page \in Pages, NEW prot \in AllProts,
           Gives(p, v, page, prot),
           \A a \in area'[p] : a.type = "PROG" => a \in area[p] /\ v \notin Span(a)
    PROVE  Program(p)'
<1>1. ASSUME NEW a \in area'[p], a.type = "PROG"
      PROVE  ProgramArea(a, pte'[p], mem')
  <2>1. a \in area[p] /\ v \notin Span(a)
    BY <1>1
  <2>2. \A w \in Span(a) \ {v} : ProgramEntry(a, pte'[p][w], mem')
    BY <1>1, <2>1, GivesProgram
  <2>3. "W" \in a.prot => "R" \in a.prot
    BY <1>1, <2>1 DEF VInv, Program, ProgramArea
  <2> QED BY <2>1, <2>2, <2>3 DEF ProgramArea
<1> QED BY <1>1 DEF Program, ProgramArea

LEMMA StackStep ==
    ASSUME VInv, TypeOK', AreasApart', Careless = {}, NEW p \in Procs, NEW v \in Va, FaultStack(p, v)
    PROVE  VInv' /\ [Own!Next]_View
<1> DEFINE b == Area(v, 1, "DATA", {"R", "W"}, FALSE)
<1>1. PICK page \in Backing(p, v) :
        /\ MapPage(p, v, page, {"R", "W"})
        /\ mem' = [mem EXCEPT ![page] = Cleared(page)]
        /\ area' = [area EXCEPT ![p] = @ \cup {b}]
  BY DEF FaultStack
<1>2. b \in Areas /\ Span(b) = {v} /\ b.type = "DATA" /\ b.file = FALSE
  BY OnePage DEF Types, AllProts
<1> HIDE DEF b
<1>3. v \notin Spans(area[p])
  BY AtOne DEF FaultStack, AreasApart, VInv
<1>4. pte[p][v] = NoPte
  BY <1>3 DEF VInv, MappedInAreas, Mapped
<1>5. page \in Pages /\ page \in free /\ {"R", "W"} \in AllProts
  <2>1. Fault(p, v)
    BY DEF FaultStack
  <2>2. page \in Pages /\ page \in free
    BY <2>1, <1>4, NotBoth, FaultPage
  <2> QED BY <2>2 DEF AllProts
<1>6. area'[p] = area[p] \cup {b} /\ \A q \in Procs \ {p} : area'[q] = area[q]
  BY <1>1 DEF VInv, TypeOK
<1>7. mem'[page] = Zero /\ \A g \in Pages \ {page} : mem'[g] = mem[g]
  BY <1>1, <1>5 DEF VInv, TypeOK, Cleared
<1>8. Spans(area'[p]) = Spans(area[p]) \cup {v}
  BY <1>2, <1>6 DEF Spans
<1>9. Gives(p, v, page, {"R", "W"})
  <2>1. \A a \in area'[p] : a.file => a.size = 1
    BY <1>2, <1>6 DEF VInv, FilesSmall
  <2> QED BY <1>1, <1>4, <1>5, <1>6, <1>7, <1>8, <2>1 DEF Gives, MapPage, FaultStack, Fault
<1>10. \A a \in area[p] : v \notin Span(a)
  BY <1>3, SpanInSpans
<1>11. Program(p)'
  <2>1. \A a \in area'[p] : a.type = "PROG" => a \in area[p] /\ v \notin Span(a)
    BY <1>2, <1>6, <1>10
  <2> QED BY <2>1, <1>5, <1>9, GivesOther
<1>12. VInv'
  BY <1>5, <1>9, <1>11, GivesInv
<1>13. \A w \in Va \ {v} : Read(p, w)' = Read(p, w)
  <2> SUFFICES ASSUME NEW w \in Va \ {v} PROVE Read(p, w)' = Read(p, w)
    OBVIOUS
  <2>1. \A a \in area[p] : w \in Span(a) => \E c \in area'[p] : w \in Span(c) /\ c.type = a.type
    BY <1>6
  <2>2. w \notin Spans(area[p]) => w \notin Spans(area'[p])
    BY <1>8
  <2> QED BY <1>5, <1>9, <2>1, <2>2, GivesRead
<1>14. Read(p, v) = Nothing /\ Read(p, v)' = Zero
  <2>1. Read(p, v) = Nothing
    BY <1>3, ReadIs, ReadNone
  <2>2. pte'[p][v] # NoPte /\ pte'[p][v].page = page
    <3>1. pte'[p][v] = Pte(page, {"R", "W"}, FALSE)
      BY <1>5, <1>9, GivesFacts
    <3> QED BY <3>1, <1>5, OwnedEntry
  <2>3. b \in area'[p] /\ v \in Span(b) /\ Apart(area'[p])
    BY <1>2, <1>6 DEF AreasApart
  <2>4. ReadOf(area'[p], pte'[p][v], mem', v) = Zero
    BY <1>7, <2>2, <2>3, ReadAt
  <2> QED BY <2>1, <2>4, ReadIs
<1>15. Quiet(p)
  BY <1>5, <1>9, GivesFacts
<1>16. Own!Next
  BY <1>13, <1>14, <1>15, ViewMap
<1> QED BY <1>12, <1>16

(* The faults that leave the areas as they are.                             *)
LEMMA GivesAt ==
    ASSUME VInv, NEW p \in Procs, NEW v \in Va, NEW a \in At(p, v), NEW page \in Pages,
           CanRun(p), MapPage(p, v, page, a.prot), UNCHANGED area,
           \A g \in Pages \ {page} : mem'[g] = mem[g],
           \/ pte[p][v] = NoPte /\ page \in free
           \/ Owns(pte[p][v]) /\ page = pte[p][v].page /\ page \notin Elsewhere(p)
    PROVE  Gives(p, v, page, a.prot)
<1>1. a \in area[p] /\ v \in Span(a)
  BY DEF At
<1>2. v \in Spans(area[p]) /\ area' = area
  BY <1>1 DEF Spans
<1>3. \A b \in area[p] : b.file => b.size = 1
  BY DEF VInv, FilesSmall
<1> QED BY <1>2, <1>3 DEF Gives, MapPage

LEMMA GivesReadSame ==
    ASSUME VInv, AreasApart', NEW p \in Procs, NEW v \in Va, NEW page \in Pages, NEW prot \in AllProts,
           Gives(p, v, page, prot), UNCHANGED area, NEW w \in Va \ {v}
    PROVE  Read(p, w)' = Read(p, w)
BY GivesRead

LEMMA AtFacts ==
    ASSUME VInv, NEW p \in Procs, NEW v \in Va, NEW a \in At(p, v)
    PROVE  /\ a \in area[p] /\ v \in Span(a) /\ a.prot \in AllProts /\ a \in Areas
           /\ Apart(area[p])
           /\ \A b \in area[p] : b # a => v \notin Span(b)
<1>1. a \in area[p] /\ v \in Span(a) /\ Apart(area[p])
  BY DEF At, VInv, AreasApart
<1>2. a.prot \in AllProts /\ a \in Areas
  BY <1>1 DEF VInv, TypeOK, Areas
<1>3. \A b \in area[p] : b # a => v \notin Span(b)
  BY <1>1 DEF Apart
<1> QED BY <1>1, <1>2, <1>3

(* What is read at v before and after.                                      *)
LEMMA ReadBefore ==
    ASSUME VInv, NEW p \in Procs, NEW v \in Va, NEW a \in At(p, v)
    PROVE  Read(p, v) = IF pte[p][v] # NoPte THEN mem[pte[p][v].page]
                        ELSE IF a.type = "PROG" THEN Image ELSE Zero
BY AtFacts, ReadIs, ReadAt

LEMMA GivesReadAfter ==
    ASSUME VInv, AreasApart', NEW p \in Procs, NEW v \in Va, NEW page \in Pages, NEW prot \in AllProts,
           Gives(p, v, page, prot)
    PROVE  Read(p, v)' = mem'[page]
<1>1. PICK b \in area'[p] : v \in Span(b)
  BY DEF Gives, Spans
<1>2. Apart(area'[p])
  BY DEF AreasApart
<1>3. pte'[p][v] # NoPte /\ pte'[p][v].page = page
  <2>1. pte'[p][v] = Pte(page, prot, FALSE)
    BY GivesFacts
  <2> QED BY <2>1, OwnedEntry
<1> QED BY <1>1, <1>2, <1>3, ReadIs, ReadAt

LEMMA AnonStep ==
    ASSUME VInv, TypeOK', AreasApart', Careless = {}, NEW p \in Procs, NEW v \in Va, FaultAnon(p, v)
    PROVE  VInv' /\ [Own!Next]_View
<1>1. PICK a \in At(p, v), page \in Backing(p, v) :
        /\ Fault(p, v) /\ a.type # "PROG"
        /\ MapPage(p, v, page, a.prot)
        /\ mem' = [mem EXCEPT ![page] = Cleared(page)]
        /\ UNCHANGED area
  BY DEF FaultAnon
<1>2. page \in Pages
  BY <1>1, FaultPage
<1>3. mem'[page] = Cleared(page) /\ \A g \in Pages \ {page} : mem'[g] = mem[g]
  BY <1>1, <1>2 DEF VInv, TypeOK
<1>4. \/ pte[p][v] = NoPte /\ page \in free
      \/ Owns(pte[p][v]) /\ page = pte[p][v].page /\ page \notin Elsewhere(p)
  BY <1>1, FaultPage
<1>5. Gives(p, v, page, a.prot) /\ a.prot \in AllProts
  BY <1>1, <1>2, <1>3, <1>4, GivesAt, AtFacts DEF Fault
<1>6. Program(p)'
  <2>1. \A b \in area'[p] : b.type = "PROG" => b \in area[p] /\ v \notin Span(b)
    BY <1>1, AtFacts
  <2> QED BY <2>1, <1>2, <1>5, GivesOther
<1>7. VInv'
  BY <1>2, <1>5, <1>6, GivesInv
<1>8. \A w \in Va \ {v} : Read(p, w)' = Read(p, w)
  BY <1>1, <1>2, <1>5, GivesReadSame
<1>9. Read(p, v)' = Read(p, v)
  <2>1. Read(p, v)' = Cleared(page)
    BY <1>2, <1>3, <1>5, GivesReadAfter
  <2>2. CASE pte[p][v] = NoPte /\ page \in free
    BY <1>1, <2>1, <2>2, ReadBefore DEF Cleared
  <2>3. CASE Owns(pte[p][v]) /\ page = pte[p][v].page
    <3>1. pte[p][v] # NoPte /\ page \notin free
      BY <2>3, OwnOrLent, FreeUnmapped DEF VInv
    <3> QED BY <2>1, <2>3, <3>1, ReadBefore DEF Cleared
  <2> QED BY <1>4, <2>2, <2>3
<1>10. View' = View
  <2>1. Quiet(p)
    BY <1>2, <1>5, GivesFacts
  <2>2. \A w \in Va : Read(p, w)' = Read(p, w)
    BY <1>8, <1>9
  <2> QED BY <2>1, <2>2, ViewSame DEF View
<1> QED BY <1>7, <1>10

LEMMA FileStep ==
    ASSUME VInv, TypeOK', AreasApart', Careless = {}, NEW p \in Procs, NEW v \in Va, FaultFile(p, v)
    PROVE  VInv' /\ [Own!Next]_View
<1>1. PICK a \in At(p, v) : a.file /\ a.type # "PROG" /\ Fault(p, v) /\ pte[p][v] = NoPte
        /\ \E page \in IF pte[p][a.va] # NoPte THEN {pte[p][a.va].page} ELSE Backing(p, v) :
             LET first == pte[p][a.va]
                 was == pte[p][v]
                 freed == IF first # NoPte /\ was # NoPte THEN {was.page} ELSE {}
             IN
             /\ pte' = [pte EXCEPT ![p][a.va] = IF first # NoPte THEN @ ELSE Pte(page, a.prot, FALSE),
                                   ![p][v] = Pte(page, a.prot, FALSE)]
             /\ free' = (free \ {page}) \cup freed
             /\ mem' = [mem EXCEPT ![page] = IF page \in freed THEN Old ELSE Cleared(page)]
             /\ UNCHANGED <<pc, area, brk, minbrk>>
  BY DEF FaultFile
<1>2. a.va = v /\ a \in area[p]
  <2>1. a \in area[p] /\ v \in Span(a) /\ a \in Areas /\ a.size = 1
    BY <1>1, AtFacts DEF VInv, FilesSmall
  <2>2. a.va \in Nat /\ v \in Nat
    BY <2>1, VaFacts DEF Areas
  <2> QED BY <2>1, <2>2 DEF Span
<1>3. PICK page \in Backing(p, v) :
        /\ pte' = [pte EXCEPT ![p][v] = Pte(page, a.prot, FALSE)]
        /\ free' = free \ {page}
        /\ mem' = [mem EXCEPT ![page] = Cleared(page)]
        /\ UNCHANGED <<pc, area, brk, minbrk>>
  <2>1. PICK page \in Backing(p, v) :
             /\ pte' = [pte EXCEPT ![p][v] = Pte(page, a.prot, FALSE), ![p][v] = Pte(page, a.prot, FALSE)]
             /\ free' = (free \ {page}) \cup {}
             /\ mem' = [mem EXCEPT ![page] = IF page \in {} THEN Old ELSE Cleared(page)]
             /\ UNCHANGED <<pc, area, brk, minbrk>>
    BY <1>1, <1>2
  <2>2. pte' = [pte EXCEPT ![p][v] = Pte(page, a.prot, FALSE)]
    BY <2>1 DEF VInv, TypeOK
  <2>3. free' = free \ {page} /\ mem' = [mem EXCEPT ![page] = Cleared(page)]
    BY <2>1
  <2> QED BY <2>1, <2>2, <2>3
<1>4. page \in Pages /\ page \in free
  BY <1>1, FaultPage, NotBoth
<1>5. mem'[page] = Zero /\ \A g \in Pages \ {page} : mem'[g] = mem[g]
  BY <1>3, <1>4 DEF VInv, TypeOK, Cleared
<1>6. Gives(p, v, page, a.prot) /\ a.prot \in AllProts
  <2>1. MapPage(p, v, page, a.prot) /\ CanRun(p)
    BY <1>1, <1>3 DEF MapPage, Fault
  <2> QED BY <1>1, <1>3, <1>4, <1>5, <2>1, GivesAt, AtFacts
<1>7. Program(p)'
  <2>1. \A b \in area'[p] : b.type = "PROG" => b \in area[p] /\ v \notin Span(b)
    BY <1>1, <1>3, AtFacts
  <2> QED BY <2>1, <1>4, <1>6, GivesOther
<1>8. VInv'
  BY <1>4, <1>6, <1>7, GivesInv
<1>9. \A w \in Va \ {v} : Read(p, w)' = Read(p, w)
  BY <1>3, <1>4, <1>6, GivesReadSame
<1>10. Read(p, v)' = Read(p, v)
  <2>1. Read(p, v)' = Zero
    BY <1>4, <1>5, <1>6, GivesReadAfter
  <2> QED BY <1>1, <2>1, ReadBefore
<1>11. View' = View
  <2>1. Quiet(p)
    BY <1>4, <1>6, GivesFacts
  <2>2. \A w \in Va : Read(p, w)' = Read(p, w)
    BY <1>9, <1>10
  <2> QED BY <2>1, <2>2, ViewSame DEF View
<1> QED BY <1>8, <1>11

(* A page of the program that is loaded into an area with the same rights.  *)
LEMMA ExecStep ==
    ASSUME VInv, TypeOK', AreasApart', Careless = {}, NEW p \in Procs, NEW v \in Va, FaultExec(p, v)
    PROVE  VInv' /\ [Own!Next]_View
<1>1. PICK a \in At(p, v), page \in free :
        /\ CanRun(p) /\ a.type = "PROG" /\ pte[p][v] = NoPte
        /\ MapPage(p, v, page, a.prot)
        /\ mem' = [mem EXCEPT ![page] = Image]
        /\ UNCHANGED area
  BY DEF FaultExec
<1>2. page \in Pages
  BY DEF VInv, TypeOK
<1>3. mem'[page] = Image /\ \A g \in Pages \ {page} : mem'[g] = mem[g]
  BY <1>1, <1>2 DEF VInv, TypeOK
<1>4. Gives(p, v, page, a.prot) /\ a.prot \in AllProts
  BY <1>1, <1>2, <1>3, GivesAt, AtFacts
<1>5. Program(p)'
  <2>1. ASSUME NEW b \in area[p], b.type = "PROG"
        PROVE  ProgramArea(b, pte'[p], mem')
    <3>1. \A w \in Span(b) \ {v} : ProgramEntry(b, pte'[p][w], mem')
      BY <1>2, <1>4, <2>1, GivesProgram
    <3>2. "W" \in b.prot => "R" \in b.prot
      BY <2>1 DEF VInv, Program, ProgramArea
    <3>3. b # a => v \notin Span(b)
      BY AtFacts
    <3>4. ProgramEntry(a, pte'[p][v], mem')
      <4>1. Owns(pte'[p][v]) /\ ~ Lent(pte'[p][v])
            /\ pte'[p][v].page = page /\ pte'[p][v].prot = a.prot
        <5>1. pte'[p][v] = Pte(page, a.prot, FALSE)
          BY <1>2, <1>4, GivesFacts
        <5>2. Owns(pte'[p][v]) /\ ~ Lent(pte'[p][v])
          BY <5>1, <1>2, <1>4, OwnedEntry
        <5>3. pte'[p][v].page = page
          BY <5>1 DEF Pte
        <5>4. pte'[p][v].prot = a.prot
          BY <5>1 DEF Pte
        <5> QED BY <5>2, <5>3, <5>4
      <4>2. "W" \in a.prot => "R" \in a.prot
        BY <1>1, AtFacts DEF VInv, Program, ProgramArea
      <4> QED BY <4>1, <4>2, <1>3 DEF ProgramEntry
    <3> QED BY <3>1, <3>2, <3>3, <3>4 DEF ProgramArea
  <2> QED BY <2>1, <1>1 DEF Program, ProgramArea
<1>6. VInv'
  BY <1>2, <1>4, <1>5, GivesInv
<1>7. \A w \in Va \ {v} : Read(p, w)' = Read(p, w)
  BY <1>1, <1>2, <1>4, GivesReadSame
<1>8. Read(p, v)' = Read(p, v)
  <2>1. Read(p, v)' = Image
    BY <1>2, <1>3, <1>4, GivesReadAfter
  <2> QED BY <1>1, <2>1, ReadBefore
<1>9. View' = View
  <2>1. Quiet(p)
    BY <1>2, <1>4, GivesFacts
  <2>2. \A w \in Va : Read(p, w)' = Read(p, w)
    BY <1>7, <1>8
  <2> QED BY <2>1, <2>2, ViewSame DEF View
<1> QED BY <1>6, <1>9

LEMMA ProgStep ==
    ASSUME VInv, TypeOK', AreasApart', Careless = {}, NEW p \in Procs, NEW v \in Va, FaultProg(p, v)
    PROVE  VInv' /\ [Own!Next]_View
<1>1. PICK a \in At(p, v), page \in Backing(p, v), prot \in AllProts :
             /\ Fault(p, v) /\ a.type = "PROG"
             /\ MapPage(p, v, page, prot)
             /\ prot = IF pte[p][v] # NoPte THEN a.prot \cup {"R", "W"} ELSE a.prot
             /\ area' = [area EXCEPT ![p] = (@ \ {a}) \cup {[a EXCEPT !.prot = prot]}]
             /\ mem' = [mem EXCEPT ![page] =
                    IF a.clone /\ pte[p][v] # NoPte /\ pte[p][v].fork THEN mem[page] ELSE Image]
             /\ a \in area[p] /\ a \in Areas /\ page \in Pages
  BY FaultProgFacts DEF VInv
<1> DEFINE b == [a EXCEPT !.prot = prot]
<1>2. Span(b) = Span(a) /\ b.prot = prot /\ b.type = "PROG" /\ b.file = a.file /\ b.size = a.size
  BY <1>1, NewProt
<1>3. area'[p] = (area[p] \ {a}) \cup {b} /\ \A q \in Procs \ {p} : area'[q] = area[q]
  BY <1>1 DEF VInv, TypeOK
<1> HIDE DEF b
<1>4. \/ pte[p][v] = NoPte /\ page \in free
      \/ Owns(pte[p][v]) /\ page = pte[p][v].page /\ page \notin Elsewhere(p)
  BY <1>1, FaultPage
<1>5. mem'[page] = Image /\ \A g \in Pages \ {page} : mem'[g] = mem[g]
  <2>1. ~ (a.clone /\ pte[p][v] # NoPte /\ pte[p][v].fork)
    BY <1>4 DEF Owns
  <2> QED BY <1>1, <2>1 DEF VInv, TypeOK
<1>6. Apart(area[p]) /\ v \in Span(a) /\ \A c \in area[p] : c # a => v \notin Span(c)
  BY AtFacts
<1>7. Spans(area'[p]) = Spans(area[p]) /\ v \in Spans(area[p])
  <2>1. Spans((area[p] \ {a}) \cup {b}) = Spans(area[p])
    BY <1>1, <1>2, <1>6, ApartReplace
  <2>2. v \in Spans(area[p])
    BY <1>1, <1>6, SpanInSpans
  <2> QED BY <1>3, <2>1, <2>2
<1>8. Gives(p, v, page, prot)
  <2>1. \A c \in area'[p] : c.file => c.size = 1
    <3>1. \A c \in area[p] : c.file => c.size = 1
      BY DEF VInv, FilesSmall
    <3> QED BY <3>1, <1>1, <1>2, <1>3
  <2>2. CanRun(p)
    BY <1>1 DEF Fault
  <2> QED BY <1>1, <1>3, <1>4, <1>5, <1>7, <2>1, <2>2 DEF Gives, MapPage
<1>9. pte'[p][v] = Pte(page, prot, FALSE)
  BY <1>1, <1>8, GivesFacts, ZenonT(60)
<1>10. ProgramArea(a, pte[p], mem)
  BY <1>1 DEF VInv, Program
<1>11. "W" \in prot => "R" \in prot
  BY <1>1, <1>10 DEF ProgramArea
<1>12. Program(p)'
  <2>1. ASSUME NEW c \in area[p], c.type = "PROG", c # a
        PROVE  ProgramArea(c, pte'[p], mem')
    <3>1. \A w \in Span(c) \ {v} : ProgramEntry(c, pte'[p][w], mem')
      BY <1>1, <1>8, <2>1, GivesProgram
    <3>2. "W" \in c.prot => "R" \in c.prot
      BY <2>1 DEF VInv, Program, ProgramArea
    <3> QED BY <1>6, <2>1, <3>1, <3>2 DEF ProgramArea
  <2>2. ProgramArea(b, pte'[p], mem')
    <3>1. \A w \in Span(a) \ {v} : ProgramEntry(a, pte'[p][w], mem')
      BY <1>1, <1>8, GivesProgram
    <3>2. \A w \in Span(a) \ {v} : ProgramEntry(b, pte'[p][w], mem')
      <4>1. a.prot \subseteq b.prot
        BY <1>1, <1>2
      <4> QED BY <3>1, <4>1 DEF ProgramEntry
    <3>3. ProgramEntry(b, pte'[p][v], mem')
      <4>1. Owns(pte'[p][v]) /\ ~ Lent(pte'[p][v])
            /\ pte'[p][v].page = page /\ pte'[p][v].prot = prot
        <5>1. Owns(pte'[p][v]) /\ ~ Lent(pte'[p][v])
          BY <1>1, <1>9, OwnedEntry
        <5>2. pte'[p][v].page = page
          BY <1>9 DEF Pte
        <5>3. pte'[p][v].prot = prot
          BY <1>9 DEF Pte
        <5> QED BY <5>1, <5>2, <5>3
      <4> QED BY <4>1, <1>2, <1>5, <1>11 DEF ProgramEntry
    <3> QED BY <3>2, <3>3, <1>2, <1>11 DEF ProgramArea
  <2>3. \A c \in area'[p] : c = b \/ (c \in area[p] /\ c # a)
    BY <1>3
  <2>4. \A c \in area'[p] : ProgramArea(c, pte'[p], mem')
    BY <2>1, <2>2, <2>3 DEF ProgramArea
  <2> QED BY <2>4 DEF Program
<1>13. VInv'
  BY <1>1, <1>8, <1>12, GivesInv
<1>14. \A w \in Va \ {v} : Read(p, w)' = Read(p, w)
  <2> SUFFICES ASSUME NEW w \in Va \ {v} PROVE Read(p, w)' = Read(p, w)
    OBVIOUS
  <2>1. \A c \in area[p] : w \in Span(c) => \E d \in area'[p] : w \in Span(d) /\ d.type = c.type
    BY <1>1, <1>2, <1>3
  <2>2. w \notin Spans(area[p]) => w \notin Spans(area'[p])
    BY <1>7
  <2> QED BY <1>1, <1>8, <2>1, <2>2, GivesRead
<1>15. Read(p, v)' = Read(p, v)
  <2>1. Read(p, v)' = Image
    BY <1>1, <1>5, <1>8, GivesReadAfter
  <2>2. CASE pte[p][v] = NoPte
    BY <1>1, <2>1, <2>2, ReadBefore
  <2>3. CASE Owns(pte[p][v])
    <3>1. pte[p][v] # NoPte
      BY <2>3, OwnOrLent
    <3>2. "R" \notin pte[p][v].prot \/ "W" \notin pte[p][v].prot
      BY <1>1, <3>1 DEF Fault, Refused
    <3>3. ProgramEntry(a, pte[p][v], mem)
      BY <1>1, <1>6, <1>10 DEF ProgramArea
    <3>4. mem[pte[p][v].page] = Image
      BY <2>3, <3>1, <3>2, <3>3 DEF ProgramEntry
    <3> QED BY <1>1, <2>1, <3>1, <3>4, ReadBefore
  <2> QED BY <1>4, <2>2, <2>3
<1>16. View' = View
  <2>1. Quiet(p)
    BY <1>1, <1>8, GivesFacts
  <2>2. \A w \in Va : Read(p, w)' = Read(p, w)
    BY <1>14, <1>15
  <2> QED BY <2>1, <2>2, ViewSame DEF View
<1> QED BY <1>13, <1>16

-----------------------------------------------------------------------------
(* Stores and new areas                                                     *)

LEMMA StoreStep ==
    ASSUME VInv, TypeOK', AreasApart', Careless = {}, NEW p \in Procs, NEW v \in Va, NEW x \in Data,
           Store(p, v, x)
    PROVE  VInv' /\ [Own!Next]_View
<1> DEFINE page == pte[p][v].page
<1>1. /\ pte[p][v] # NoPte /\ "W" \in pte[p][v].prot
      /\ page \notin Elsewhere(p)
      /\ mem' = [mem EXCEPT ![page] = x]
      /\ UNCHANGED <<pc, area, pte, brk, minbrk, free>>
  <2>1. pte[p][v] # NoPte
    BY DEF Store, Refused
  <2> QED BY <2>1 DEF Store, Refused
<1>2. page \in Pages /\ mem \in [Pages -> Values \cup {Old}]
  BY <1>1, Entries DEF VInv, TypeOK
<1>3. mem'[page] = x /\ \A g \in Pages : g # page => mem'[g] = mem[g]
  BY <1>1, <1>2
<1>4. Owns(pte[p][v])
  BY <1>1, LentElsewhere, OwnOrLent DEF VInv
<1>5. ASSUME NEW w \in Va, w # v, pte[p][w] # NoPte
      PROVE  mem'[pte[p][w].page] = mem[pte[p][w].page]
  <2>1. pte[p][w].page \in Pages
    BY <1>5, Entries DEF VInv
  <2>2. pte[p][w].page # page
    <3>1. CASE Owns(pte[p][w])
      BY <1>4, <1>5, <3>1 DEF VInv, Owned, OwnerUnique
    <3>2. CASE Lent(pte[p][w])
      BY <1>1, <3>2, LentElsewhere DEF VInv
    <3> QED BY <1>5, <3>1, <3>2, OwnOrLent
  <2> QED BY <1>3, <2>1, <2>2
<1>6. Quiet(p)
  <2>1. ASSUME NEW g \in Elsewhere(p) PROVE mem'[g] = mem[g]
    <3>1. PICK q \in Procs \ {p}, w \in Va : pte[q][w] # NoPte /\ pte[q][w].page = g
      BY <2>1, ElsewhereIs
    <3>2. g \in Pages
      BY <3>1, Entries DEF VInv
    <3>3. g # page
      BY <1>1, <2>1
    <3> QED BY <1>3, <3>2, <3>3
  <2> QED BY <1>1, <2>1 DEF Quiet
<1>7. Program(p)'
  <2>1. ASSUME NEW a \in area[p], a.type = "PROG"
        PROVE  ProgramArea(a, pte[p], mem')
    <3>1. ProgramArea(a, pte[p], mem)
      BY DEF VInv, Program
    <3>2. ASSUME NEW w \in Span(a), ProgramEntry(a, pte[p][w], mem)
          PROVE  ProgramEntry(a, pte[p][w], mem')
      <4>1. w \in Va
        BY SpanInSpans DEF VInv, AreasApart
      <4>2. CASE w = v
        BY <1>1, <3>2, <4>2 DEF ProgramEntry
      <4>3. CASE w # v
        BY <1>5, <3>2, <4>1, <4>3 DEF ProgramEntry
      <4> QED BY <4>2, <4>3
    <3> QED BY <2>1, <3>1, <3>2 DEF ProgramArea
  <2> QED BY <1>1, <2>1 DEF Program, ProgramArea
<1>8. VInv'
  <2>1. \A q \in Procs : Program(q)'
    BY <1>6, <1>7, OthersPrograms DEF VInv
  <2>2. NoMemory' /\ FilesSmall' /\ MappedInAreas' /\ Owned(pte, free)'
    BY <1>1 DEF VInv, NoMemory, FilesSmall, MappedInAreas, Mapped
  <2> QED BY <2>1, <2>2 DEF VInv
<1>9. \A w \in Va \ {v} : Read(p, w)' = Read(p, w)
  BY <1>1, <1>5, ReadIs DEF ReadOf
<1>10. Read(p, v) # Nothing /\ Read(p, v)' \in Values
  <2>1. v \in Spans(area[p])
    BY <1>1 DEF VInv, MappedInAreas, Mapped
  <2>2. Read(p, v) = mem[page] /\ Read(p, v)' = x
    BY <1>1, <1>3, <2>1, ReadIs DEF ReadOf
  <2>3. mem[page] # Nothing
    BY <1>2, VmmAssumption DEF Values, Zero, Image, Old, Nothing
  <2> QED BY <2>2, <2>3 DEF Values
<1>11. Own!Next
  BY <1>6, <1>9, <1>10, ViewStore
<1> QED BY <1>8, <1>11

(* brk and mmap: areas without pages.                                       *)
LEMMA AddStep ==
    ASSUME VInv, TypeOK', AreasApart', NEW p \in Procs, CanRun(p), NEW B,
           area' = [area EXCEPT ![p] = @ \cup B], Spans(B) \cap Spans(area[p]) = {},
           \A a \in B : a.type # "PROG" /\ (a.file => a.size = 1),
           UNCHANGED <<pc, pte, free, mem>>
    PROVE  VInv' /\ [Own!Next]_View
<1>1. area'[p] = area[p] \cup B /\ \A q \in Procs \ {p} : area'[q] = area[q]
  BY DEF VInv, TypeOK
<1>2. Quiet(p)
  BY <1>1 DEF Quiet
<1>3. Program(p)'
  BY <1>1 DEF VInv, Program, ProgramArea
<1>4. \A q \in Procs : Program(q)'
  BY <1>2, <1>3, OthersPrograms DEF VInv
<1>5. MappedInAreas' /\ FilesSmall'
  <2>1. (Mapped(p) \subseteq Spans(area[p]))'
    BY <1>1, SpansUnion DEF VInv, MappedInAreas, Mapped
  <2>2. \A a \in area'[p] : a.file => a.size = 1
    BY <1>1 DEF VInv, FilesSmall
  <2> QED BY <1>2, <2>1, <2>2, OthersInAreas DEF VInv
<1>6. NoMemory'
  BY <1>1 DEF VInv, NoMemory, CanRun
<1>7. VInv'
  BY <1>4, <1>5, <1>6 DEF VInv
<1>8. ASSUME NEW v \in Va
      PROVE  Read(p, v)' = Read(p, v) \/ (Read(p, v) = Nothing /\ Read(p, v)' = Zero)
  <2>1. CASE v \in Spans(area[p])
    <3>1. PICK a \in area[p] : v \in Span(a)
      BY <2>1 DEF Spans
    <3>2. Apart(area[p]) /\ Apart(area'[p]) /\ a \in area'[p]
      BY <1>1 DEF VInv, AreasApart
    <3> QED BY <3>1, <3>2, ReadIs, ReadAt
  <2>2. CASE v \notin Spans(area[p]) /\ v \notin Spans(B)
    <3>1. v \notin Spans(area'[p])
      BY <1>1, <2>2, SpansUnion
    <3>2. Read(p, v) = Nothing
      BY <2>2, ReadIs, ReadNone
    <3>3. Read(p, v)' = Nothing
      BY <3>1, ReadIs, ReadNone
    <3> QED BY <3>2, <3>3
  <2>3. CASE v \notin Spans(area[p]) /\ v \in Spans(B)
    <3>1. PICK a \in B : v \in Span(a)
      BY <2>3 DEF Spans
    <3>2. Apart(area'[p]) /\ a \in area'[p] /\ a.type # "PROG"
      BY <1>1 DEF AreasApart
    <3>3. pte'[p][v] = NoPte
      BY <2>3 DEF VInv, MappedInAreas, Mapped
    <3> QED BY <2>3, <3>1, <3>2, <3>3, ReadIs, ReadAt, ReadNone
  <2> QED BY <2>1, <2>2, <2>3
<1>9. Own!Next
  BY <1>2, <1>8, ViewMap
<1> QED BY <1>7, <1>9

LEMMA GrowStep ==
    ASSUME VInv, TypeOK', AreasApart', NEW p \in Procs, NEW b \in Va, Grow(p, b)
    PROVE  VInv' /\ [Own!Next]_View
<1>1. /\ Spans(NewHeap(p, b)) \cap Spans(area[p]) = {}
      /\ \A a \in NewHeap(p, b) : a.type # "PROG" /\ ~ a.file
  BY NewHeapAreas DEF VInv
<1>2. /\ CanRun(p) /\ area' = [area EXCEPT ![p] = @ \cup NewHeap(p, b)]
      /\ UNCHANGED <<pc, pte, free, mem>>
  BY DEF Grow
<1> QED BY <1>1, <1>2, AddStep

LEMMA MmapStep ==
    ASSUME VInv, TypeOK', AreasApart', Careless = {}, NEW p \in Procs, NEW v \in Va,
           NEW len \in 1 .. MaxLen, NEW prot \in Prots, NEW file \in BOOLEAN,
           Mmap(p, v, len, prot, file)
    PROVE  VInv' /\ [Own!Next]_View
<1>1. \E b \in Areas :
        /\ Span(b) \cap Spans(area[p]) = {}
        /\ area' = [area EXCEPT ![p] = @ \cup {b}]
        /\ b.type = "MMAP"
        /\ b.file => b.size = 1 \/ "file" \in Careless
  BY MmapArea DEF VInv
<1>2. PICK b \in Areas :
        /\ Span(b) \cap Spans(area[p]) = {}
        /\ area' = [area EXCEPT ![p] = @ \cup {b}]
        /\ b.type # "PROG" /\ (b.file => b.size = 1)
  BY <1>1
<1>3. CanRun(p) /\ UNCHANGED <<pc, pte, free, mem>>
  BY DEF Mmap
<1>4. Spans({b}) = Span(b)
  BY DEF Spans
<1>5. \A a \in {b} : a.type # "PROG" /\ (a.file => a.size = 1)
  BY <1>2
<1> QED BY <1>2, <1>3, <1>4, <1>5, AddStep

-----------------------------------------------------------------------------
(* Memory that is given up                                                  *)

LEMMA EmptiedIs ==
    ASSUME VInv, NEW p \in Procs, NEW A \in SUBSET area[p]
    PROVE  /\ Emptied(A) = Spans(A) /\ Spans(A) \subseteq Va
           /\ \A a \in area[p] \ A : Span(a) \cap Spans(A) = {}
<1>1. Spans(A) \subseteq Va /\ Apart(area[p])
  BY ApartSub DEF VInv, AreasApart
<1>2. \A a \in A : a.file => Span(a) = {a.va}
  <2> SUFFICES ASSUME NEW a \in A, a.file PROVE Span(a) = {a.va}
    OBVIOUS
  <2>1. a \in Areas /\ a.size = 1
    BY DEF VInv, FilesSmall, TypeOK
  <2>2. a.va \in Nat
    BY <2>1, VaFacts DEF Areas
  <2> QED BY <2>1, <2>2 DEF Span
<1>3. Emptied(A) = Spans(A)
  <2>1. ASSUME NEW v \in Emptied(A) PROVE v \in Spans(A)
    <3>1. PICK a \in A : IF a.file THEN v = a.va ELSE v \in Span(a)
      BY <2>1 DEF Emptied
    <3>2. v \in Span(a)
      BY <3>1, <1>2
    <3> QED BY <3>2, SpanInSpans
  <2>2. ASSUME NEW v \in Spans(A) PROVE v \in Emptied(A)
    <3>1. PICK a \in A : v \in Span(a)
      BY <2>2 DEF Spans
    <3>2. v \in Va
      BY <1>1, <2>2
    <3>3. IF a.file THEN v = a.va ELSE v \in Span(a)
      BY <3>1, <1>2
    <3> QED BY <3>2, <3>3 DEF Emptied
  <2> QED BY <2>1, <2>2
<1>4. \A a \in area[p] \ A : Span(a) \cap Spans(A) = {}
  BY <1>1 DEF Apart, Spans
<1> QED BY <1>1, <1>3, <1>4

LEMMA ReleasedFacts ==
    ASSUME VInv, Careless = {}, NEW p \in Procs, NEW A \in SUBSET area[p], MayRelease(p, A)
    PROVE  /\ \A g : g \in Released(p, A) <=>
                    \E v \in Spans(A) : Owns(pte[p][v]) /\ pte[p][v].page = g
           /\ \A g \in Released(p, A) : g \notin Elsewhere(p) /\ g \notin free /\ g \in Pages
<1>1. Emptied(A) = Spans(A) /\ Spans(A) \subseteq Va
  BY EmptiedIs
<1>2. \A g : g \in Released(p, A) <=> \E v \in Spans(A) : Owns(pte[p][v]) /\ pte[p][v].page = g
  BY <1>1 DEF Released, Mapped, Owns
<1>3. ASSUME NEW g \in Released(p, A)
      PROVE  g \notin Elsewhere(p) /\ g \notin free /\ g \in Pages
  <2>1. PICK v \in Spans(A) : Owns(pte[p][v]) /\ pte[p][v].page = g
    BY <1>2, <1>3
  <2>2. v \in Va /\ pte[p][v] # NoPte /\ ~ pte[p][v].fork
    BY <1>1, <2>1 DEF Owns
  <2>3. g \notin Elsewhere(p)
    BY <1>1, <2>1, <2>2 DEF MayRelease, Mapped
  <2>4. g \notin free
    BY <2>1, <2>2, FreeUnmapped DEF VInv
  <2>5. g \in Pages
    BY <2>1, <2>2, Entries DEF VInv
  <2> QED BY <2>3, <2>4, <2>5
<1> QED BY <1>2, <1>3

LEMMA ReleasedOwned ==
    ASSUME VInv, Careless = {}, NEW p \in Procs, NEW A \in SUBSET area[p], MayRelease(p, A),
           NEW T2,
           \A v \in Spans(A) : T2[p][v] = NoPte,
           \A q \in Procs, w \in Va : q # p \/ w \notin Spans(A) => T2[q][w] = pte[q][w]
    PROVE  Owned(T2, free \cup Released(p, A))
<1> DEFINE E == Spans(A)
           F2 == free \cup Released(p, A)
<1>1. E \in SUBSET Va /\ Owned(pte, free)
  BY EmptiedIs DEF VInv
<1>2. \A g : g \in F2 <=> g \in free \/ \E v \in E : Owns(pte[p][v]) /\ pte[p][v].page = g
  BY ReleasedFacts
<1>3. ASSUME NEW v \in E, NEW q \in Procs \ {p}, NEW w \in Va, Owns(pte[p][v]), pte[q][w] # NoPte
      PROVE  pte[q][w].page # pte[p][v].page
  <2>1. pte[p][v].page \in Released(p, A)
    BY <1>3, ReleasedFacts
  <2>2. pte[p][v].page \notin Elsewhere(p)
    BY <2>1, ReleasedFacts
  <2> QED BY <1>3, <2>2, ElsewhereIs
<1>4. \A v \in E : T2[p][v] = NoPte
  OBVIOUS
<1>5. \A q \in Procs, w \in Va : q # p \/ w \notin E => T2[q][w] = pte[q][w]
  OBVIOUS
<1> HIDE DEF E, F2
<1>6. Owned(T2, F2)
  BY <1>1, <1>2, <1>3, <1>4, <1>5, OwnedRelease
<1> QED BY <1>6 DEF F2

\* p gives up areas A, and nothing else happens to its memory.
Drops(p, A) ==
    /\ CanRun(p) /\ A \subseteq area[p] /\ MayRelease(p, A)
    /\ \A q \in Procs \ {p} : area'[q] = area[q] /\ pte'[q] = pte[q]
    /\ area'[p] = area[p] \ A
    /\ \A v \in Va : pte'[p][v] = IF v \in Spans(A) THEN NoPte ELSE pte[p][v]
    /\ free' = free \cup Released(p, A)
    /\ mem' = Forgotten(Released(p, A))
    /\ \A q \in Procs : pc'[q] = "none" =>
            pc[q] = "none" \/ (q = p /\ A = area[p] /\ pte'[p] = NoTable)

LEMMA DropsStep ==
    ASSUME VInv, TypeOK', AreasApart', Careless = {}, NEW p \in Procs, NEW A, Drops(p, A)
    PROVE  VInv' /\ [Own!Next]_View
<1>0. A \in SUBSET area[p] /\ MayRelease(p, A)
  BY DEF Drops
<1>1. Spans(A) \subseteq Va /\ \A a \in area[p] \ A : Span(a) \cap Spans(A) = {}
  BY <1>0, EmptiedIs
<1>2. \A v \in Va : v \notin Spans(A) => pte'[p][v] = pte[p][v]
  BY DEF Drops
<1>3. \A g \in Pages : g \notin Released(p, A) => mem'[g] = mem[g]
  BY DEF Drops, Forgotten
<1>4. Quiet(p)
  <2>1. ASSUME NEW g \in Elsewhere(p) PROVE mem'[g] = mem[g]
    <3>1. g \in Pages
      BY <2>1, ElsewhereIs, Entries DEF VInv
    <3>2. g \notin Released(p, A)
      BY <1>0, <2>1, ReleasedFacts
    <3> QED BY <1>3, <3>1, <3>2
  <2> QED BY <2>1 DEF Quiet, Drops
<1>5. ASSUME NEW v \in Va, v \notin Spans(A), pte[p][v] # NoPte
      PROVE  mem'[pte[p][v].page] = mem[pte[p][v].page]
  <2>1. pte[p][v].page \in Pages
    BY <1>5, Entries DEF VInv
  <2>2. CASE Owns(pte[p][v])
    <3>1. pte[p][v].page \notin Released(p, A)
      <4> SUFFICES ASSUME pte[p][v].page \in Released(p, A) PROVE FALSE
        OBVIOUS
      <4>1. PICK w \in Spans(A) : Owns(pte[p][w]) /\ pte[p][w].page = pte[p][v].page
        BY <1>0, ReleasedFacts
      <4>2. w \in Va
        BY <1>1
      <4>3. w = v
        BY <2>2, <4>1, <4>2 DEF VInv, Owned, OwnerUnique
      <4> QED BY <1>5, <4>1, <4>3
    <3> QED BY <1>3, <2>1, <3>1
  <2>3. CASE Lent(pte[p][v])
    BY <1>4, <2>3, LentElsewhere DEF Quiet, VInv
  <2> QED BY <1>5, <2>2, <2>3, OwnOrLent
<1>6. Program(p)'
  <2>1. ASSUME NEW a \in area[p] \ A, a.type = "PROG"
        PROVE  ProgramArea(a, pte'[p], mem')
    <3>1. ProgramArea(a, pte[p], mem)
      BY DEF VInv, Program
    <3>2. ASSUME NEW v \in Span(a), ProgramEntry(a, pte[p][v], mem)
          PROVE  ProgramEntry(a, pte'[p][v], mem')
      <4>1. v \in Va /\ v \notin Spans(A)
        BY <1>1, SpanInSpans DEF VInv, AreasApart
      <4> QED BY <1>2, <1>5, <3>2, <4>1 DEF ProgramEntry
    <3> QED BY <2>1, <3>1, <3>2 DEF ProgramArea
  <2>2. area'[p] = area[p] \ A
    BY DEF Drops
  <2> QED BY <2>1, <2>2 DEF Program, ProgramArea
<1>7. \A q \in Procs : Program(q)'
  BY <1>4, <1>6, OthersPrograms DEF VInv
<1>8. MappedInAreas' /\ FilesSmall'
  <2>1. ASSUME NEW v \in Va, pte'[p][v] # NoPte PROVE v \in Spans(area'[p])
    <3>1. v \notin Spans(A) /\ pte[p][v] # NoPte
      BY <2>1, <1>2 DEF Drops
    <3>2. PICK a \in area[p] : v \in Span(a)
      BY <3>1 DEF VInv, MappedInAreas, Mapped, Spans
    <3>3. a \notin A
      BY <3>1, <3>2 DEF Spans
    <3> QED BY <3>2, <3>3 DEF Drops, Spans
  <2>2. (Mapped(p) \subseteq Spans(area[p]))'
    BY <2>1 DEF Mapped
  <2>3. \A a \in area'[p] : a.file => a.size = 1
    BY DEF VInv, FilesSmall, Drops
  <2> QED BY <1>4, <2>2, <2>3, OthersInAreas DEF VInv
<1>9. NoMemory'
  <2> SUFFICES ASSUME NEW q \in Procs, pc'[q] = "none"
               PROVE  area'[q] = {} /\ pte'[q] = NoTable
    BY DEF NoMemory
  <2>1. CASE pc[q] = "none"
    <3>1. q # p
      BY <2>1 DEF Drops, CanRun
    <3> QED BY <2>1, <3>1 DEF Drops, VInv, NoMemory
  <2>2. CASE q = p /\ A = area[p] /\ pte'[p] = NoTable
    BY <2>2 DEF Drops
  <2> QED BY <2>1, <2>2 DEF Drops
<1>10. Owned(pte, free)'
  <2>1. \A v \in Spans(A) : pte'[p][v] = NoPte
    BY <1>1 DEF Drops
  <2>2. \A q \in Procs, w \in Va : q # p \/ w \notin Spans(A) => pte'[q][w] = pte[q][w]
    BY DEF Drops
  <2>3. Owned(pte', free \cup Released(p, A))
    BY <1>0, <2>1, <2>2, ReleasedOwned
  <2> QED BY <2>3 DEF Drops
<1>11. VInv'
  BY <1>7, <1>8, <1>9, <1>10 DEF VInv
<1>12. ASSUME NEW v \in Va
       PROVE  Read(p, v)' = Read(p, v) \/ Read(p, v)' = Nothing
  <2>1. CASE v \notin Spans(area'[p])
    BY <2>1, ReadIs, ReadNone
  <2>2. CASE v \in Spans(area'[p])
    <3>1. PICK a \in area[p] \ A : v \in Span(a) /\ a \in area'[p]
      BY <2>2 DEF Spans, Drops
    <3>2. v \notin Spans(A)
      BY <1>1, <3>1
    <3>3. Apart(area[p]) /\ Apart(area'[p])
      BY DEF VInv, AreasApart
    <3> QED BY <1>2, <1>5, <3>1, <3>2, <3>3, ReadIs, ReadAt
  <2> QED BY <2>1, <2>2
<1>13. Own!Next
  BY <1>4, <1>12, ViewUnmap
<1> QED BY <1>11, <1>13

LEMMA ReleaseStep ==
    ASSUME VInv, TypeOK', AreasApart', Careless = {}, NEW p \in Procs, CanRun(p),
           NEW A \in SUBSET area[p], Release(p, A), UNCHANGED pc
    PROVE  VInv' /\ [Own!Next]_View
<1>1. Emptied(A) = Spans(A) /\ pte \in [Procs -> [Va -> PteRange]] /\ area \in [Procs -> SUBSET Areas]
  BY EmptiedIs, PteTables DEF VInv
<1>2. \A q \in Procs \ {p} : area'[q] = area[q] /\ pte'[q] = pte[q]
  BY <1>1 DEF Release
<1>3. area'[p] = area[p] \ A /\ \A v \in Va : pte'[p][v] = IF v \in Spans(A) THEN NoPte ELSE pte[p][v]
  BY <1>1 DEF Release
<1>4. Drops(p, A)
  BY <1>2, <1>3 DEF Drops, Release
<1> QED BY <1>4, DropsStep

LEMMA ExitStep ==
    ASSUME VInv, TypeOK', AreasApart', Careless = {}, NEW p \in Procs, Exit(p)
    PROVE  VInv' /\ [Own!Next]_View
<1>1. pte \in [Procs -> [Va -> PteRange]] /\ area \in [Procs -> SUBSET Areas]
      /\ pc \in [Procs -> {"none", "user", "stuck", "lost"}]
  BY PteTables DEF VInv
<1>2. \A q \in Procs \ {p} : area'[q] = area[q] /\ pte'[q] = pte[q] /\ pc'[q] = pc[q]
  BY <1>1 DEF Exit
<1>3. area'[p] = {} /\ pte'[p] = NoTable
  BY <1>1 DEF Exit
<1>4. \A v \in Va : pte'[p][v] = IF v \in Spans(area[p]) THEN NoPte ELSE pte[p][v]
  BY <1>3 DEF NoTable, VInv, MappedInAreas, Mapped
<1>5. Drops(p, area[p])
  BY <1>2, <1>3, <1>4 DEF Drops, Exit
<1> QED BY <1>5, DropsStep

-----------------------------------------------------------------------------
(* execve and the first process: a program is loaded into an empty table    *)

(* What f, the pages for the loaded part of g, puts into the table.         *)
LEMMA LoadedTable ==
    ASSUME NEW g \in Programs \cup {Boot}, NEW f \in [g.loaded -> Pages]
    PROVE  /\ \A v \in g.loaded : Owns(TableOf(g, f)[v]) /\ TableOf(g, f)[v].page = f[v]
           /\ \A v \in Va \ g.loaded : TableOf(g, f)[v] = NoPte
           /\ \A v \in Va : ~ Lent(TableOf(g, f)[v])
           /\ \A a \in g.areas : \A v \in Span(a) :
                v \in g.loaded => TableOf(g, f)[v].prot = a.prot
<1>1. g.areas \in SUBSET Areas /\ g.loaded \subseteq Spans(g.areas) /\ g.loaded \subseteq Va
      /\ Apart(g.areas)
  BY VmmAssumption DEF IsProgram
<1>2. \A v \in g.loaded : ProtAt(g.areas, v) \in AllProts /\ f[v] \in Pages
  BY <1>1, ProtAtType
<1>3. \A v \in g.loaded : TableOf(g, f)[v] = Pte(f[v], ProtAt(g.areas, v), FALSE)
  BY <1>1 DEF TableOf
<1> DEFINE t == TableOf(g, f)
<1> HIDE DEF t
<1>4. \A v \in g.loaded : Owns(t[v]) /\ ~ Lent(t[v])
  <2> SUFFICES ASSUME NEW v \in g.loaded PROVE Owns(t[v]) /\ ~ Lent(t[v])
    OBVIOUS
  <2>1. t[v] = Pte(f[v], ProtAt(g.areas, v), FALSE)
    BY <1>3 DEF t
  <2>2. f[v] \in Pages /\ ProtAt(g.areas, v) \in AllProts
    BY <1>2
  <2> QED BY <2>1, <2>2, OwnedEntry
<1>5. \A v \in g.loaded : t[v].page = f[v] /\ t[v].prot = ProtAt(g.areas, v)
  <2> SUFFICES ASSUME NEW v \in g.loaded
               PROVE  t[v].page = f[v] /\ t[v].prot = ProtAt(g.areas, v)
    OBVIOUS
  <2>1. t[v] = Pte(f[v], ProtAt(g.areas, v), FALSE)
    BY <1>3 DEF t
  <2> QED BY <2>1 DEF Pte
<1>6. \A v \in Va \ g.loaded : TableOf(g, f)[v] = NoPte
  BY DEF TableOf
<1>7. \A a \in g.areas : \A v \in Span(a) : ProtAt(g.areas, v) = a.prot
  BY <1>1, ProtAtIs
<1> USE DEF t
<1> QED BY <1>4, <1>5, <1>6, <1>7, NotBoth

\* In memory M is the program g in the pages f.
Holds(M, g, f) == \A v \in g.loaded : M[f[v]] = Image

(* What is read there, and that it is as it was loaded.                     *)
LEMMA LoadedFacts ==
    ASSUME NEW g \in Programs \cup {Boot}, NEW f \in [g.loaded -> Pages], NEW M, Holds(M, g, f)
    PROVE  /\ \A a \in g.areas : ProgramArea(a, TableOf(g, f), M) /\ ~ a.file
           /\ \A v \in Va : TableOf(g, f)[v] # NoPte => v \in Spans(g.areas)
           /\ \A v \in Va : ReadOf(g.areas, TableOf(g, f)[v], M, v) = Memory(g)[v]
<1>1. /\ g.loaded \subseteq Spans(g.areas) /\ Spans(g.areas) \subseteq Va /\ Apart(g.areas)
      /\ \A a \in g.areas : /\ ~ a.file /\ ("W" \in a.prot => "R" \in a.prot)
                            /\ a.type # "PROG" => Span(a) \subseteq g.loaded
  BY VmmAssumption DEF IsProgram
<1> DEFINE t == TableOf(g, f)
<1>2. \A v \in g.loaded : Owns(t[v]) /\ ~ Lent(t[v]) /\ t[v] # NoPte /\ t[v].page = f[v]
  <2>1. \A v \in g.loaded : Owns(t[v]) /\ t[v].page = f[v]
    BY LoadedTable
  <2> HIDE DEF t
  <2> QED BY <2>1, NotBoth, OwnOrLent
<1>3. \A v \in Va \ g.loaded : t[v] = NoPte
  BY LoadedTable
<1>4. \A a \in g.areas : \A v \in Span(a) : v \in g.loaded => t[v].prot = a.prot
  BY LoadedTable
<1> HIDE DEF t
<1>5. ASSUME NEW a \in g.areas, NEW v \in Span(a)
      PROVE  ProgramEntry(a, t[v], M)
  <2>1. v \in Va
    BY <1>1, SpanInSpans
  <2>2. CASE v \in g.loaded
    BY <1>1, <1>2, <1>4, <2>2 DEF ProgramEntry, Holds
  <2>3. CASE v \notin g.loaded
    BY <1>3, <2>1, <2>3 DEF ProgramEntry
  <2> QED BY <2>2, <2>3
<1>6. \A a \in g.areas : ProgramArea(a, t, M) /\ ~ a.file
  BY <1>1, <1>5 DEF ProgramArea
<1>7. \A v \in Va : t[v] # NoPte => v \in Spans(g.areas)
  BY <1>1, <1>3
<1>8. ASSUME NEW v \in Va PROVE ReadOf(g.areas, t[v], M, v) = Memory(g)[v]
  <2>1. CASE v \notin Spans(g.areas)
    BY <2>1, ReadNone DEF Memory
  <2>2. CASE v \in Spans(g.areas)
    <3>1. PICK a \in g.areas : v \in Span(a)
      BY <2>2 DEF Spans
    <3>2. ReadOf(g.areas, t[v], M, v) =
            IF t[v] # NoPte THEN M[t[v].page] ELSE IF a.type = "PROG" THEN Image ELSE Zero
      BY <1>1, <3>1, ReadAt
    <3>3. v \in g.loaded => t[v] # NoPte /\ M[t[v].page] = Image
      BY <1>2 DEF Holds
    <3>4. v \notin g.loaded => t[v] = NoPte /\ a.type = "PROG"
      BY <1>1, <1>3, <3>1
    <3>5. ReadOf(g.areas, t[v], M, v) = Image
      BY <3>2, <3>3, <3>4
    <3> QED BY <2>2, <3>5 DEF Memory
  <2> QED BY <2>1, <2>2
<1> USE DEF t
<1> QED BY <1>6, <1>7, <1>8

\* p has become program g.
Loads(p, g, f) == area'[p] = g.areas /\ pte'[p] = TableOf(g, f) /\ Holds(mem', g, f)

LEMMA LoadsFacts ==
    ASSUME NEW g \in Programs \cup {Boot}, NEW f \in [g.loaded -> Pages],
           NEW p \in Procs, Loads(p, g, f)
    PROVE  /\ Program(p)'
           /\ (Mapped(p) \subseteq Spans(area[p]))'
           /\ \A a \in area'[p] : a.file => a.size = 1
           /\ \A v \in Va : Read(p, v)' = Memory(g)[v]
<1>1. area'[p] = g.areas /\ pte'[p] = TableOf(g, f) /\ Holds(mem', g, f)
  BY DEF Loads
<1>2. /\ \A a \in area'[p] : ProgramArea(a, pte'[p], mem') /\ ~ a.file
      /\ \A v \in Va : pte'[p][v] # NoPte => v \in Spans(area'[p])
      /\ \A v \in Va : ReadOf(area'[p], pte'[p][v], mem', v) = Memory(g)[v]
  BY <1>1, LoadedFacts
<1>3. Program(p)' /\ (Mapped(p) \subseteq Spans(area[p]))'
  BY <1>2 DEF Program, Mapped
<1> QED BY <1>2, <1>3, ReadIs

LEMMA LoadedOwned ==
    ASSUME NEW T, NEW F, Owned(T, F), F \subseteq Pages, NEW p \in Procs, \A v \in Va : T[p][v] = NoPte,
           NEW g \in Programs \cup {Boot}, NEW f \in [g.loaded -> F], IsInjective(f),
           NEW T2, \A q \in Procs \ {p}, w \in Va : T2[q][w] = T[q][w], T2[p] = TableOf(g, f)
    PROVE  Owned(T2, F \ Range(f))
<1>1. g.loaded \in SUBSET Va /\ f \in [g.loaded -> Pages]
  BY VmmAssumption DEF IsProgram
<1>2. \A v, w \in g.loaded : f[v] = f[w] => v = w
  BY DEF IsInjective
<1>3. \A v \in g.loaded : Owns(T2[p][v]) /\ T2[p][v].page = f[v]
  BY <1>1, LoadedTable
<1>4. \A v \in Va \ g.loaded : ~ Owns(T2[p][v])
  BY <1>1, LoadedTable, NotBoth
<1>5. \A v \in Va : ~ Lent(T2[p][v])
  BY <1>1, LoadedTable
<1> DEFINE S == g.loaded
<1>6. f \in [S -> F] /\ S \in SUBSET Va
  BY <1>1
<1> HIDE DEF S
<1>7. \A v, w \in S : f[v] = f[w] => v = w
  BY <1>2 DEF S
<1>8. \A v \in S : Owns(T2[p][v]) /\ T2[p][v].page = f[v]
  BY <1>3 DEF S
<1>9. \A v \in Va \ S : ~ Owns(T2[p][v])
  BY <1>4 DEF S
<1>10. \A v \in Va : Lent(T2[p][v]) => \E q \in Procs \ {p}, w \in Va :
                Owns(T[q][w]) /\ T[q][w].page = T2[p][v].page
  BY <1>5
<1>11. \A q \in Procs \ {p}, w \in Va : T2[q][w] = T[q][w]
  OBVIOUS
<1>12. TableLoaded(T, F, T2, p, S, f)
  BY <1>6, <1>7, <1>8, <1>9, <1>10, <1>11 DEF TableLoaded
<1> QED BY <1>12, OwnedLoad

LEMMA ExecveStep ==
    ASSUME VInv, TypeOK', AreasApart', Careless = {}, NEW p \in Procs, NEW g \in Programs, Execve(p, g)
    PROVE  VInv' /\ [Own!Next]_View
<1> DEFINE R == Released(p, area[p])
<1>1. PICK f \in Supplies(g.loaded) :
        /\ area' = [area EXCEPT ![p] = g.areas]
        /\ pte' = [pte EXCEPT ![p] = TableOf(g, f)]
        /\ free' = (free \ Range(f)) \cup R
        /\ mem' = [h \in Pages |-> IF h \in Range(f) THEN Image ELSE Forgotten(R)[h]]
        /\ UNCHANGED pc
  BY DEF Execve
<1>2. f \in [g.loaded -> free] /\ IsInjective(f) /\ f \in [g.loaded -> Pages] /\ free \subseteq Pages
  BY DEF Supplies, VInv, TypeOK
<1>3. Range(f) = {f[v] : v \in g.loaded} /\ Range(f) \subseteq free
  BY <1>2 DEF Range
<1>4. \A h \in R : h \notin Elsewhere(p) /\ h \notin free /\ h \in Pages
  BY ReleasedFacts DEF Execve
<1>5. area'[p] = g.areas /\ pte'[p] = TableOf(g, f)
      /\ \A q \in Procs \ {p} : area'[q] = area[q] /\ pte'[q] = pte[q]
  BY <1>1 DEF VInv, TypeOK
<1>6. Quiet(p)
  <2>1. ASSUME NEW h \in Elsewhere(p) PROVE mem'[h] = mem[h]
    <3>1. h \in Pages /\ h \notin free
      BY <2>1, ElsewhereIs, Entries, FreeUnmapped DEF VInv
    <3>2. h \notin R /\ h \notin Range(f)
      BY <1>3, <1>4, <2>1, <3>1
    <3>3. mem'[h] = Forgotten(R)[h]
      BY <1>1, <3>1, <3>2
    <3> QED BY <3>1, <3>2, <3>3 DEF Forgotten
  <2> QED BY <1>5, <2>1 DEF Quiet
<1>7. Loads(p, g, f)
  <2>1. \A v \in g.loaded : mem'[f[v]] = Image
    BY <1>1, <1>2, <1>3
  <2> QED BY <1>5, <2>1 DEF Loads, Holds
<1>8. Owned(pte, free)'
  <2>1. PICK T : T = [pte EXCEPT ![p] = NoTable]
    OBVIOUS
  <2>2. (\A q \in Procs \ {p} : T[q] = pte[q]) /\ T[p] = NoTable
    BY <2>1 DEF VInv, TypeOK
  <2>3. area[p] \in SUBSET area[p] /\ MayRelease(p, area[p])
    BY DEF Execve
  <2>4. \A v \in Va : T[p][v] = NoPte
    BY <2>2 DEF NoTable
  <2>5. \A v \in Spans(area[p]) : T[p][v] = NoPte
    BY <2>4 DEF VInv, AreasApart
  <2>6. \A q \in Procs, w \in Va : q # p \/ w \notin Spans(area[p]) => T[q][w] = pte[q][w]
    BY <2>2, <2>4 DEF VInv, MappedInAreas, Mapped
  <2>7. Owned(T, free \cup R)
    BY <2>3, <2>5, <2>6, ReleasedOwned
  <2>8. f \in [g.loaded -> free \cup R] /\ free \cup R \subseteq Pages
    BY <1>2, <1>4
  <2>9. \A q \in Procs \ {p}, w \in Va : pte'[q][w] = T[q][w]
    BY <1>5, <2>2
  <2> HIDE DEF R
  <2>10. Owned(pte', (free \cup R) \ Range(f))
    BY <1>2, <1>5, <2>4, <2>7, <2>8, <2>9, LoadedOwned
  <2>11. free' = (free \cup R) \ Range(f)
    BY <1>1, <1>3, <1>4
  <2> QED BY <2>10, <2>11
<1>9. VInv'
  <2>1. \A q \in Procs : Program(q)'
    BY <1>2, <1>6, <1>7, LoadsFacts, OthersPrograms DEF VInv
  <2>2. MappedInAreas' /\ FilesSmall'
    BY <1>2, <1>6, <1>7, LoadsFacts, OthersInAreas DEF VInv
  <2>3. NoMemory'
    BY <1>1, <1>5 DEF VInv, NoMemory, Execve, CanRun
  <2> QED BY <1>8, <2>1, <2>2, <2>3 DEF VInv
<1>10. Own!Next
  <2>1. \A v \in Va : Read(p, v)' = Memory(g)[v]
    BY <1>2, <1>7, LoadsFacts
  <2> QED BY <1>6, <2>1, ViewBecome
<1> QED BY <1>9, <1>10

-----------------------------------------------------------------------------
(* clone                                                                    *)

\* c has become a copy of p, with the pages f.
Clones(p, c, f) ==
    /\ f \in [Copied(p) -> free]
    /\ \A v, w \in Copied(p) : f[v] = f[w] => v = w
    /\ area'[c] = {CloneArea(a) : a \in area[p]}
    /\ \A v \in Va : pte'[c][v] =
            IF v \in Copied(p) THEN Pte(f[v], ProtAt(area[p], v), FALSE)
            ELSE IF v \in SharedPart(p) THEN Pte(pte[p][v].page, {"R", "X"}, TRUE)
            ELSE NoPte
    /\ \A q \in Procs \ {c} : area'[q] = area[q] /\ pte'[q] = pte[q] /\ pc'[q] = pc[q]
    /\ pc'[c] = "user"
    /\ free' = free \ Range(f)
    /\ \A g \in Pages : g \notin Range(f) => mem'[g] = mem[g]
    /\ \A v \in Copied(p) : mem'[f[v]] = mem[pte[p][v].page]

LEMMA CloneClones ==
    ASSUME VInv, NEW p \in Procs, NEW c \in Procs, Clone(p, c)
    PROVE  \E f : Clones(p, c, f)
<1>1. PICK f \in Supplies(Copied(p)) :
        /\ pc' = [pc EXCEPT ![c] = "user"]
        /\ area' = [area EXCEPT ![c] = {CloneArea(a) : a \in area[p]}]
        /\ pte' = [pte EXCEPT ![c] = [v \in Va |->
                IF v \in Copied(p) THEN Pte(f[v], ProtAt(area[p], v), FALSE)
                ELSE IF v \in SharedPart(p) THEN Pte(pte[p][v].page, {"R", "X"}, TRUE)
                ELSE NoPte]]
        /\ free' = free \ Range(f)
        /\ mem' = [g \in Pages |-> IF g \in Range(f) THEN mem[CopiedTo(p, f, g)] ELSE mem[g]]
  BY DEF Clone
<1>2. /\ pc \in [Procs -> {"none", "user", "stuck", "lost"}] /\ area \in [Procs -> SUBSET Areas]
      /\ pte \in [Procs -> [Va -> PteRange]] /\ free \subseteq Pages
  BY PteTables DEF VInv
<1>3. f \in [Copied(p) -> free] /\ \A v, w \in Copied(p) : f[v] = f[w] => v = w
  BY DEF Supplies, IsInjective
<1>4. \A q \in Procs \ {c} : area'[q] = area[q] /\ pte'[q] = pte[q] /\ pc'[q] = pc[q]
  BY <1>1, <1>2
<1>5. area'[c] = {CloneArea(a) : a \in area[p]} /\ pc'[c] = "user"
  BY <1>1, <1>2
<1>6. \A v \in Va : pte'[c][v] =
            IF v \in Copied(p) THEN Pte(f[v], ProtAt(area[p], v), FALSE)
            ELSE IF v \in SharedPart(p) THEN Pte(pte[p][v].page, {"R", "X"}, TRUE)
            ELSE NoPte
  BY <1>1, <1>2
<1>7. \A g \in Pages : g \notin Range(f) => mem'[g] = mem[g]
  BY <1>1
<1>8. \A v \in Copied(p) : mem'[f[v]] = mem[pte[p][v].page]
  <2> SUFFICES ASSUME NEW v \in Copied(p) PROVE mem'[f[v]] = mem[pte[p][v].page]
    OBVIOUS
  <2>1. f[v] \in Range(f) /\ f[v] \in Pages
    BY <1>2, <1>3 DEF Range
  <2>2. (CHOOSE w \in Copied(p) : f[w] = f[v]) = v
    BY <1>3
  <2>3. CopiedTo(p, f, f[v]) = pte[p][v].page
    BY <2>2 DEF CopiedTo
  <2> QED BY <1>1, <2>1, <2>3
<1> QED BY <1>1, <1>3, <1>4, <1>5, <1>6, <1>7, <1>8 DEF Clones

(* Each mapped page of the parent is either copied or lent.                 *)
LEMMA CloneTable ==
    ASSUME VInv, NEW p \in Procs, NEW c \in Procs, NEW f, Clones(p, c, f),
           NEW a \in area[p], NEW v \in Span(a)
    PROVE  /\ v \in Va
           /\ pte[p][v] = NoPte => pte'[c][v] = NoPte
           /\ pte[p][v] # NoPte /\ ~ Shared(a) =>
                /\ v \in Copied(p) /\ Owns(pte'[c][v]) /\ ~ Lent(pte'[c][v])
                /\ pte'[c][v].page = f[v] /\ pte'[c][v].prot = a.prot
           /\ pte[p][v] # NoPte /\ Shared(a) =>
                /\ v \notin Copied(p) /\ Lent(pte'[c][v]) /\ ~ Owns(pte'[c][v])
                /\ pte'[c][v].page = pte[p][v].page /\ pte'[c][v].prot = {"R", "X"}
<1>1. v \in Va /\ Apart(area[p]) /\ area[p] \in SUBSET Areas /\ a \in Areas
  BY SpanInSpans DEF VInv, AreasApart, TypeOK
<1>2. \A b \in At(p, v) : b = a
  BY <1>1 DEF At, Apart
<1>3. a \in At(p, v)
  BY DEF At
<1>4. pte[p][v] = NoPte => pte'[c][v] = NoPte
  BY <1>1 DEF Clones, Copied, SharedPart, Mapped
<1>5. ASSUME pte[p][v] # NoPte, ~ Shared(a)
      PROVE  /\ v \in Copied(p) /\ Owns(pte'[c][v]) /\ ~ Lent(pte'[c][v])
             /\ pte'[c][v].page = f[v] /\ pte'[c][v].prot = a.prot
  <2>1. v \in Copied(p)
    BY <1>1, <1>3, <1>5 DEF Copied, Mapped
  <2>2. ProtAt(area[p], v) = a.prot
    BY <1>1, ProtAtIs
  <2>3. pte'[c][v] = Pte(f[v], a.prot, FALSE)
    BY <1>1, <2>1, <2>2 DEF Clones
  <2>4. f[v] \in Pages /\ a.prot \in AllProts
    BY <1>1, <2>1 DEF Clones, Areas, VInv, TypeOK
  <2>5. Owns(pte'[c][v]) /\ ~ Lent(pte'[c][v])
    BY <2>3, <2>4, OwnedEntry
  <2>6. pte'[c][v].page = f[v] /\ pte'[c][v].prot = a.prot
    BY <2>3 DEF Pte
  <2> QED BY <2>1, <2>5, <2>6
<1>6. ASSUME pte[p][v] # NoPte, Shared(a)
      PROVE  /\ v \notin Copied(p) /\ Lent(pte'[c][v]) /\ ~ Owns(pte'[c][v])
             /\ pte'[c][v].page = pte[p][v].page /\ pte'[c][v].prot = {"R", "X"}
  <2>1. v \notin Copied(p) /\ v \in SharedPart(p)
    BY <1>1, <1>2, <1>3, <1>6 DEF Copied, SharedPart, Mapped
  <2>2. pte'[c][v] = Pte(pte[p][v].page, {"R", "X"}, TRUE)
    BY <1>1, <2>1 DEF Clones
  <2>3. pte[p][v].page \in Pages /\ {"R", "X"} \in AllProts
    BY <1>1, <1>6, Entries DEF VInv, AllProts
  <2>4. Lent(pte'[c][v]) /\ ~ Owns(pte'[c][v])
    BY <2>2, <2>3, LentEntry
  <2>5. pte'[c][v].page = pte[p][v].page /\ pte'[c][v].prot = {"R", "X"}
    BY <2>2 DEF Pte
  <2> QED BY <2>1, <2>4, <2>5
<1> QED BY <1>1, <1>4, <1>5, <1>6

LEMMA CloneStep ==
    ASSUME VInv, TypeOK', AreasApart', Careless = {}, NEW p \in Procs, NEW c \in Procs, Clone(p, c)
    PROVE  VInv' /\ [Own!Next]_View
<1>1. PICK f : Clones(p, c, f)
  BY CloneClones
<1>2. pc[c] = "none" /\ pc[p] = "user" /\ c # p
  BY DEF Clone, CanRun
<1>3. area[c] = {} /\ pte[c] = NoTable
  BY <1>2 DEF VInv, NoMemory
<1>4. \A a \in area[p] : CloneArea(a) \in area'[c] /\ Span(CloneArea(a)) = Span(a)
  BY <1>1, ClonedArea DEF Clones, VInv, TypeOK
<1>5. \A b \in area'[c] : \E a \in area[p] : b = CloneArea(a)
  BY <1>1 DEF Clones
<1>6. Apart(area[p]) /\ Apart(area'[c]) /\ Spans(area'[c]) = Spans(area[p])
  BY <1>1, ApartClone DEF Clones, VInv, AreasApart, TypeOK
<1>7. \A v \in Va : v \notin Spans(area[p]) => pte'[c][v] = NoPte
  <2>1. \A v \in Va : v \notin Spans(area[p]) => v \notin Copied(p) /\ v \notin SharedPart(p)
    BY DEF Copied, SharedPart, At, Spans
  <2> QED BY <1>1, <2>1 DEF Clones
<1>8. Quiet(c)
  <2>1. ASSUME NEW h \in Elsewhere(c) PROVE mem'[h] = mem[h]
    <3>1. h \in Pages /\ h \notin free
      BY <2>1, ElsewhereIs, Entries, FreeUnmapped DEF VInv
    <3>2. h \notin Range(f)
      BY <1>1, <3>1 DEF Clones, Range
    <3> QED BY <1>1, <3>1, <3>2 DEF Clones
  <2> QED BY <1>1, <2>1 DEF Quiet, Clones
<1>9. ASSUME NEW v \in Va, pte[p][v] # NoPte
      PROVE  mem'[pte[p][v].page] = mem[pte[p][v].page]
  <2>1. pte[p][v].page \in Elsewhere(c)
    BY <1>2, <1>9, ElsewhereIs
  <2> QED BY <1>8, <2>1 DEF Quiet
<1>10. ASSUME NEW v \in Va PROVE Read(c, v)' = Read(p, v)
  <2>1. CASE v \notin Spans(area[p])
    <3>1. Read(c, v)' = Nothing
      BY <1>6, <2>1, ReadIs, ReadNone
    <3>2. Read(p, v) = Nothing
      BY <2>1, ReadIs, ReadNone
    <3> QED BY <3>1, <3>2
  <2>2. CASE v \in Spans(area[p])
    <3>1. PICK a \in area[p] : v \in Span(a)
      BY <2>2 DEF Spans
    <3>2. CloneArea(a) \in area'[c] /\ v \in Span(CloneArea(a)) /\ CloneArea(a).type = a.type
      BY <1>4, <3>1, ClonedArea DEF VInv, TypeOK
    <3>3. Read(p, v) = IF pte[p][v] # NoPte THEN mem[pte[p][v].page]
                       ELSE IF a.type = "PROG" THEN Image ELSE Zero
      BY <1>6, <3>1, ReadIs, ReadAt
    <3>4. Read(c, v)' = IF pte'[c][v] # NoPte THEN mem'[pte'[c][v].page]
                        ELSE IF a.type = "PROG" THEN Image ELSE Zero
      <4>1. Read(c, v)' = IF pte'[c][v] # NoPte THEN mem'[pte'[c][v].page]
                          ELSE IF CloneArea(a).type = "PROG" THEN Image ELSE Zero
        BY <1>6, <3>2, ReadIs, ReadAt
      <4> QED BY <4>1, <3>2
    <3>5. CASE pte[p][v] = NoPte
      BY <1>1, <3>1, <3>3, <3>4, <3>5, CloneTable
    <3>6. CASE pte[p][v] # NoPte /\ ~ Shared(a)
      <4>1. v \in Copied(p) /\ pte'[c][v] # NoPte /\ pte'[c][v].page = f[v]
        BY <1>1, <3>1, <3>6, CloneTable, OwnOrLent
      <4>2. mem'[f[v]] = mem[pte[p][v].page]
        BY <1>1, <4>1 DEF Clones
      <4> QED BY <3>3, <3>4, <3>6, <4>1, <4>2
    <3>7. CASE pte[p][v] # NoPte /\ Shared(a)
      <4>1. pte'[c][v] # NoPte /\ pte'[c][v].page = pte[p][v].page
        BY <1>1, <3>1, <3>7, CloneTable, OwnOrLent
      <4> QED BY <1>9, <3>3, <3>4, <3>7, <4>1
    <3> QED BY <3>5, <3>6, <3>7
  <2> QED BY <2>1, <2>2
<1>11. ASSUME NEW b \in area'[c] PROVE ProgramArea(b, pte'[c], mem')
  <2>1. PICK a \in area[p] : b = CloneArea(a)
    BY <1>5
  <2>2. a \in Areas /\ Span(b) = Span(a) /\ b.type = a.type
        /\ (Shared(a) => b.prot = {"R", "X"}) /\ (~ Shared(a) => b = a)
    BY <2>1, ClonedArea DEF VInv, TypeOK
  <2> SUFFICES ASSUME a.type = "PROG"
               PROVE  /\ "W" \in b.prot => "R" \in b.prot
                      /\ \A v \in Span(a) : ProgramEntry(b, pte'[c][v], mem')
    BY <2>2 DEF ProgramArea
  <2>3. "W" \in a.prot => "R" \in a.prot
    BY DEF VInv, Program, ProgramArea
  <2>4. "W" \in b.prot => "R" \in b.prot
    BY <2>2, <2>3
  <2>5. ASSUME NEW v \in Span(a) PROVE ProgramEntry(b, pte'[c][v], mem')
    <3>1. ProgramEntry(a, pte[p][v], mem)
      BY DEF VInv, Program, ProgramArea
    <3>2. CASE pte[p][v] = NoPte
      <4>1. pte'[c][v] = NoPte
        BY <1>1, <3>2, CloneTable
      <4> QED BY <4>1 DEF ProgramEntry
    <3>3. CASE pte[p][v] # NoPte /\ ~ Shared(a)
      <4>1. /\ v \in Copied(p) /\ Owns(pte'[c][v]) /\ ~ Lent(pte'[c][v])
            /\ pte'[c][v].page = f[v] /\ pte'[c][v].prot = a.prot
        BY <1>1, <3>3, CloneTable
      <4>2. mem'[f[v]] = mem[pte[p][v].page]
        BY <1>1, <4>1 DEF Clones
      <4>3. "X" \notin a.prot
        BY <3>3 DEF Shared
      <4>4. Owns(pte[p][v])
        BY <3>1, <3>3, <4>3, OwnOrLent DEF ProgramEntry
      <4>5. "W" \notin a.prot => mem[pte[p][v].page] = Image
        BY <3>1, <3>3, <4>4 DEF ProgramEntry
      <4> QED BY <2>2, <2>3, <3>3, <4>1, <4>2, <4>5 DEF ProgramEntry
    <3>4. CASE pte[p][v] # NoPte /\ Shared(a)
      <4>1. Lent(pte'[c][v]) /\ ~ Owns(pte'[c][v]) /\ pte'[c][v].prot = {"R", "X"}
        BY <1>1, <3>4, CloneTable
      <4> QED BY <2>2, <3>4, <4>1 DEF ProgramEntry
    <3> QED BY <3>2, <3>3, <3>4
  <2> QED BY <2>4, <2>5
<1>12. TableLoaded(pte, free, pte', c, Copied(p), f)
  <2>1. Copied(p) \in SUBSET Va
    BY DEF Copied, Mapped
  <2>2. \A v \in Va : pte[c][v] = NoPte
    BY <1>3 DEF NoTable
  <2>3. ASSUME NEW v \in Copied(p) PROVE Owns(pte'[c][v]) /\ pte'[c][v].page = f[v]
    <3>1. PICK a \in area[p] : v \in Span(a) /\ ~ Shared(a)
      BY <2>3 DEF Copied, At
    <3>2. pte[p][v] # NoPte
      BY <2>3 DEF Copied, Mapped
    <3> QED BY <1>1, <3>1, <3>2, CloneTable
  <2>4. ASSUME NEW v \in Va, v \notin Copied(p) PROVE ~ Owns(pte'[c][v])
    <3>1. CASE v \notin Spans(area[p])
      BY <1>7, <3>1, NotBoth
    <3>2. CASE v \in Spans(area[p])
      <4>1. PICK a \in area[p] : v \in Span(a)
        BY <3>2 DEF Spans
      <4> QED BY <1>1, <2>4, <4>1, CloneTable, NotBoth
    <3> QED BY <3>1, <3>2
  <2>5. ASSUME NEW v \in Va, Lent(pte'[c][v])
        PROVE  \E q \in Procs \ {c}, w \in Va : Owns(pte[q][w]) /\ pte[q][w].page = pte'[c][v].page
    <3>1. v \in Spans(area[p])
      BY <1>7, <2>5, NotBoth
    <3>2. PICK a \in area[p] : v \in Span(a)
      BY <3>1 DEF Spans
    <3>3. pte[p][v] # NoPte /\ pte'[c][v].page = pte[p][v].page
      BY <1>1, <2>5, <3>2, CloneTable, NotBoth
    <3>4. CASE Owns(pte[p][v])
      BY <1>2, <3>3, <3>4
    <3>5. CASE Lent(pte[p][v])
      <4>1. PICK q \in Procs \ {p}, w \in Va : Owns(pte[q][w]) /\ pte[q][w].page = pte[p][v].page
        BY <3>5 DEF VInv, Owned, LenderExists
      <4>2. q # c
        BY <2>2, <4>1, NotBoth
      <4> QED BY <3>3, <4>1, <4>2
    <3> QED BY <3>3, <3>4, <3>5, OwnOrLent
  <2>6. \A q \in Procs \ {c}, w \in Va : pte'[q][w] = pte[q][w]
    BY <1>1 DEF Clones
  <2> QED BY <1>1, <2>1, <2>2, <2>3, <2>4, <2>5, <2>6 DEF TableLoaded, Clones
<1>13. VInv'
  <2>1. \A q \in Procs : Program(q)'
    BY <1>8, <1>11, OthersPrograms DEF VInv, Program
  <2>2. (Mapped(c) \subseteq Spans(area[c]))'
    BY <1>6, <1>7 DEF Mapped
  <2>3. ASSUME NEW b \in area'[c] PROVE b.file => b.size = 1
    <3>1. PICK a \in area[p] : b = CloneArea(a)
      BY <1>5
    <3> QED BY <3>1, ClonedArea DEF VInv, FilesSmall, TypeOK
  <2>4. MappedInAreas' /\ FilesSmall'
    BY <1>8, <2>2, <2>3, OthersInAreas DEF VInv
  <2>5. NoMemory'
    <3> SUFFICES ASSUME NEW q \in Procs, pc'[q] = "none" PROVE area'[q] = {} /\ pte'[q] = NoTable
      BY DEF NoMemory
    <3>1. q # c
      BY <1>1 DEF Clones
    <3> QED BY <1>1, <3>1 DEF Clones, VInv, NoMemory
  <2>6. Owned(pte', free')
    <3>1. Owned(pte', free \ Range(f))
      BY <1>12, OwnedLoad DEF VInv
    <3> QED BY <1>1, <3>1 DEF Clones
  <2> QED BY <2>1, <2>4, <2>5, <2>6 DEF VInv
<1>14. Own!Next
  <2>1. \A v \in Va : Read(c, v) = Nothing
    <3>1. \A v : v \notin Spans(area[c])
      BY <1>3 DEF Spans
    <3> QED BY <3>1, ReadIs, ReadNone
  <2> QED BY <1>8, <1>10, <2>1, ViewFork
<1> QED BY <1>13, <1>14

-----------------------------------------------------------------------------
(* The other steps                                                          *)

LEMMA InitStep == Init => VInv /\ Own!Init
<1> SUFFICES ASSUME Init PROVE VInv /\ Own!Init
  OBVIOUS
<1>1. PICK p \in Procs, f \in {h \in [Boot.loaded -> Pages] : IsInjective(h)} :
        /\ pc = [q \in Procs |-> IF q = p THEN "user" ELSE "none"]
        /\ area = [q \in Procs |-> IF q = p THEN Boot.areas ELSE {}]
        /\ pte = [q \in Procs |-> IF q = p THEN TableOf(Boot, f) ELSE NoTable]
        /\ free = Pages \ Range(f)
        /\ mem = [g \in Pages |-> IF g \in Range(f) THEN Image ELSE Old]
  BY DEF Init
<1>2. TypeOK /\ AreasApart
  BY TypesInit
<1>3. f \in [Boot.loaded -> Pages] /\ IsInjective(f)
  OBVIOUS
<1>4. area[p] = Boot.areas /\ pte[p] = TableOf(Boot, f)
      /\ \A q \in Procs \ {p} : area[q] = {} /\ pte[q] = NoTable
  BY <1>1
<1>5. Holds(mem, Boot, f)
  BY <1>1, <1>3 DEF Holds, Range
<1>6. /\ \A a \in area[p] : ProgramArea(a, pte[p], mem) /\ ~ a.file
      /\ \A v \in Va : pte[p][v] # NoPte => v \in Spans(area[p])
      /\ \A v \in Va : ReadOf(area[p], pte[p][v], mem, v) = Memory(Boot)[v]
  BY <1>3, <1>4, <1>5, LoadedFacts
<1>7. \A q \in Procs : Program(q)
  BY <1>4, <1>6 DEF Program
<1>8. MappedInAreas /\ FilesSmall
  BY <1>4, <1>6 DEF MappedInAreas, FilesSmall, Mapped, NoTable
<1>9. NoMemory
  BY <1>1, <1>4 DEF NoMemory
<1>10. Owned(pte, free)
  <2>1. PICK T : T = [q \in Procs |-> NoTable]
    OBVIOUS
  <2>2. \A q \in Procs, v \in Va : T[q][v] = NoPte
    BY <2>1 DEF NoTable
  <2>3. Owned(T, Pages)
    BY <2>2, NotBoth DEF Owned, OwnersKept, OwnerExists, OwnerUnique, LenderExists
  <2>4. \A q \in Procs \ {p}, w \in Va : pte[q][w] = T[q][w]
    BY <1>4, <2>2 DEF NoTable
  <2>5. Owned(pte, Pages \ Range(f))
    BY <1>3, <1>4, <2>2, <2>3, <2>4, LoadedOwned
  <2> QED BY <1>1, <2>5
<1>11. VInv
  BY <1>2, <1>7, <1>8, <1>9, <1>10 DEF VInv
<1>12. Own!Init
  <2>1. \A v \in Va : Read(p, v) = Memory(Boot)[v]
    BY <1>6, ReadIs
  <2>2. ASSUME NEW q \in Procs \ {p}, NEW v \in Va PROVE Read(q, v) = Nothing
    <3>1. v \notin Spans(area[q])
      BY <1>4 DEF Spans
    <3> QED BY <3>1, ReadIs, ReadNone
  <2>3. [v \in Va |-> Read(p, v)] = Memory(Boot)
    BY <2>1 DEF Memory
  <2>4. \A q \in Procs \ {p} : [v \in Va |-> Read(q, v)] = [v \in Va |-> Nothing]
    BY <2>2
  <2>5. [q \in Procs |-> [v \in Va |-> Read(q, v)]] =
            [q \in Procs |-> IF q = p THEN Memory(Boot) ELSE Own!Empty]
    BY <2>3, <2>4 DEF Own!Empty
  <2> QED BY <2>5 DEF Own!Init
<1> QED BY <1>11, <1>12

(* Steps after which no process can be told from before.                    *)
LEMMA StillStep ==
    ASSUME VInv, TypeOK', AreasApart', UNCHANGED <<area, pte, free, mem>>,
           \A q \in Procs : pc'[q] = "none" => pc[q] = "none"
    PROVE  VInv' /\ UNCHANGED View
<1>1. NoMemory'
  BY DEF VInv, NoMemory
<1>2. MappedInAreas' /\ FilesSmall'
  BY DEF VInv, MappedInAreas, Mapped, FilesSmall
<1>3. \A q \in Procs : Program(q)'
  BY DEF VInv, Program
<1>4. Owned(pte', free')
  BY DEF VInv
<1>5. VInv'
  BY <1>1, <1>2, <1>3, <1>4 DEF VInv
<1>6. \A q \in Procs, v \in Va : Read(q, v)' = Read(q, v)
  BY ReadIs
<1> QED BY <1>5, <1>6 DEF View

LEMMA LostStep ==
    ASSUME VInv, TypeOK', AreasApart', Lost
    PROVE  VInv' /\ [Own!Next]_View
<1>1. \A q \in Procs : pc'[q] # "none"
  BY DEF Lost
<1> QED BY <1>1, StillStep DEF Lost

LEMMA IllegalStep ==
    ASSUME VInv, TypeOK', AreasApart', NEW p \in Procs, FaultIllegal(p)
    PROVE  VInv' /\ [Own!Next]_View
<1>1. \A q \in Procs : pc'[q] = "none" => pc[q] = "none"
  BY DEF FaultIllegal, VInv, TypeOK
<1> QED BY <1>1, StillStep DEF FaultIllegal

(* The invariant is kept and the memory of the processes changes as is      *)
(* promised.                                                                *)
LEMMA VInvNext ==
    ASSUME VInv, Careless = {}, [Next]_vars
    PROVE  VInv' /\ [Own!Next]_View
<1>1. TypeOK' /\ AreasApart'
  BY TypesNext DEF VInv
<1>2. CASE UNCHANGED vars
  BY <1>1, <1>2, StillStep DEF vars
<1>3. ASSUME NEW p \in Procs, NEW v \in Va, NEW x \in Data, Store(p, v, x)
      PROVE  VInv' /\ [Own!Next]_View
  BY <1>1, <1>3, StoreStep
<1>4. ASSUME NEW p \in Procs, NEW v \in Va, FaultStack(p, v)
      PROVE  VInv' /\ [Own!Next]_View
  BY <1>1, <1>4, StackStep
<1>5. ASSUME NEW p \in Procs, NEW v \in Va, FaultProg(p, v)
      PROVE  VInv' /\ [Own!Next]_View
  BY <1>1, <1>5, ProgStep
<1>6. ASSUME NEW p \in Procs, NEW v \in Va, FaultAnon(p, v)
      PROVE  VInv' /\ [Own!Next]_View
  BY <1>1, <1>6, AnonStep
<1>7. ASSUME NEW p \in Procs, NEW v \in Va, FaultFile(p, v)
      PROVE  VInv' /\ [Own!Next]_View
  BY <1>1, <1>7, FileStep
<1>8. ASSUME NEW p \in Procs, NEW v \in Va, FaultExec(p, v)
      PROVE  VInv' /\ [Own!Next]_View
  BY <1>1, <1>8, ExecStep
<1>9. ASSUME NEW p \in Procs, NEW v \in Va, Grow(p, v)
      PROVE  VInv' /\ [Own!Next]_View
  BY <1>1, <1>9, GrowStep
<1>10. ASSUME NEW p \in Procs, NEW v \in Va, Shrink(p, v)
       PROVE  VInv' /\ [Own!Next]_View
  <2>1. Cut(p, v) \in SUBSET area[p]
    BY DEF Cut, At
  <2>2. CanRun(p) /\ Release(p, Cut(p, v)) /\ UNCHANGED pc
    BY <1>10 DEF Shrink
  <2> QED BY <1>1, <2>1, <2>2, ReleaseStep
<1>11. ASSUME NEW p \in Procs, NEW v \in Va, Munmap(p, v)
       PROVE  VInv' /\ [Own!Next]_View
  <2>1. At(p, v) \in SUBSET area[p]
    BY DEF At
  <2>2. CanRun(p) /\ Release(p, At(p, v)) /\ UNCHANGED pc
    BY <1>11 DEF Munmap
  <2> QED BY <1>1, <2>1, <2>2, ReleaseStep
<1>12. ASSUME NEW p \in Procs, NEW v \in Va, NEW len \in 1 .. MaxLen, NEW prot \in Prots,
              NEW file \in BOOLEAN, Mmap(p, v, len, prot, file)
       PROVE  VInv' /\ [Own!Next]_View
  BY <1>1, <1>12, MmapStep
<1>13. ASSUME NEW p \in Procs, FaultIllegal(p) PROVE VInv' /\ [Own!Next]_View
  BY <1>1, <1>13, IllegalStep
<1>14. ASSUME NEW p \in Procs, NEW c \in Procs, Clone(p, c) PROVE VInv' /\ [Own!Next]_View
  BY <1>1, <1>14, CloneStep
<1>15. ASSUME NEW p \in Procs, NEW g \in Programs, Execve(p, g) PROVE VInv' /\ [Own!Next]_View
  BY <1>1, <1>15, ExecveStep
<1>16. ASSUME NEW p \in Procs, Exit(p) PROVE VInv' /\ [Own!Next]_View
  BY <1>1, <1>16, ExitStep
<1>17. CASE Lost
  BY <1>1, <1>17, LostStep
<1>18. CASE \E p \in Procs : FaultNoPage(p) \/ ShrinkNull(p)
                \/ (\E c \in Procs : CloneNoPage(p, c)) \/ (\E g \in Programs : ExecveNoPage(p, g))
  BY <1>17, <1>18 DEF FaultNoPage, ShrinkNull, CloneNoPage, ExecveNoPage
<1> QED BY <1>2, <1>3, <1>4, <1>5, <1>6, <1>7, <1>8, <1>9, <1>10, <1>11, <1>12, <1>13, <1>14,
           <1>15, <1>16, <1>18 DEF Next

(* For programs that are not Careless: no page that is mapped is free, none *)
(* is owned twice, none is lost.                                            *)
THEOREM VmmPagesOwned == Careless = {} => (Spec => []PagesOwned)
<1> SUFFICES ASSUME Careless = {} PROVE Spec => []PagesOwned
  OBVIOUS
<1>1. Init => VInv
  BY InitStep
<1>2. VInv /\ [Next]_vars => VInv'
  BY VInvNext
<1>3. VInv => PagesOwned
  <2> SUFFICES ASSUME VInv PROVE PagesOwned
    OBVIOUS
  <2>1. \A g, h : h \in MappedAt(g, FALSE) <=>
            \E q \in Procs, v \in Va : h = <<q, v>> /\ Owns(pte[q][v]) /\ pte[q][v].page = g
    BY DEF MappedAt, Owns, VInv, TypeOK, Ptes
  <2>2. \A g, h : h \in MappedAt(g, TRUE) <=>
            \E q \in Procs, v \in Va : h = <<q, v>> /\ Lent(pte[q][v]) /\ pte[q][v].page = g
    BY DEF MappedAt, Lent, VInv, TypeOK, Ptes
  <2>3. \A p \in Procs : Mapped(p) \subseteq Spans(area[p])
    BY DEF VInv, MappedInAreas
  <2>4. ASSUME NEW g \in Pages
        PROVE  /\ g \in free <=> MappedAt(g, FALSE) = {}
               /\ \A h, i \in MappedAt(g, FALSE) : h = i
    <3>1. g \in free => MappedAt(g, FALSE) = {}
      <4> SUFFICES ASSUME g \in free, NEW h \in MappedAt(g, FALSE) PROVE FALSE
        OBVIOUS
      <4>1. PICK q \in Procs, v \in Va : Owns(pte[q][v]) /\ pte[q][v].page = g
        BY <2>1
      <4> QED BY <4>1 DEF VInv, Owned, OwnersKept
    <3>2. g \notin free => MappedAt(g, FALSE) # {}
      <4> SUFFICES ASSUME g \notin free PROVE MappedAt(g, FALSE) # {}
        OBVIOUS
      <4>1. PICK q \in Procs, v \in Va : Owns(pte[q][v]) /\ pte[q][v].page = g
        BY DEF VInv, Owned, OwnerExists
      <4>2. <<q, v>> \in MappedAt(g, FALSE)
        BY <2>1, <4>1
      <4> QED BY <4>2
    <3>3. ASSUME NEW h \in MappedAt(g, FALSE), NEW i \in MappedAt(g, FALSE) PROVE h = i
      <4>1. PICK q \in Procs, v \in Va : h = <<q, v>> /\ Owns(pte[q][v]) /\ pte[q][v].page = g
        BY <2>1
      <4>2. PICK r \in Procs, w \in Va : i = <<r, w>> /\ Owns(pte[r][w]) /\ pte[r][w].page = g
        BY <2>1
      <4>3. q = r /\ v = w
        BY <4>1, <4>2 DEF VInv, Owned, OwnerUnique
      <4> QED BY <4>1, <4>2, <4>3
    <3> QED BY <3>1, <3>2, <3>3
  <2>5. ASSUME NEW g \in free PROVE MappedAt(g, TRUE) = {}
    <3>1. \A q \in Procs, v \in Va : pte[q][v] # NoPte => pte[q][v].page \notin free
      BY FreeUnmapped DEF VInv
    <3> SUFFICES ASSUME NEW h \in MappedAt(g, TRUE) PROVE FALSE
      OBVIOUS
    <3>2. PICK q \in Procs, v \in Va : Lent(pte[q][v]) /\ pte[q][v].page = g
      BY <2>2
    <3> QED BY <3>1, <3>2, OwnOrLent
  <2> QED BY <2>3, <2>4, <2>5 DEF PagesOwned
<1> QED BY <1>1, <1>2, <1>3, PTL DEF Spec

(* For programs that are not Careless, each process has a memory of its     *)
(* own.                                                                     *)
THEOREM VmmIsMemory == Careless = {} => (Spec => ImplementsMemory)
<1> SUFFICES ASSUME Careless = {} PROVE Spec => ImplementsMemory
  OBVIOUS
<1>1. Init => VInv /\ Own!Init
  BY InitStep
<1>2. VInv /\ [Next]_vars => VInv' /\ [Own!Next]_View
  BY VInvNext
<1>3. VInv /\ [Next]_vars => VInv' /\ [Own!Next]_[p \in Procs |-> [v \in Va |-> Read(p, v)]]
  BY <1>2 DEF View
<1> QED BY <1>1, <1>3, PTL DEF Spec, ImplementsMemory, Own!Spec
=============================================================================
