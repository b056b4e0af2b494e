----------------------------- MODULE ListLemmas -----------------------------
(***************************************************************************)
(* What the operations of os/kernel/include/list.h (add_after at the head, *)
(* add_before the head, del_list) do to the sequence that models a list:   *)
(* its elements afterwards, and that no element is linked twice.           *)
(***************************************************************************)
EXTENDS Integers, Sequences, SequencesExt, SequenceTheorems, TLAPS

(* Appending keeps the type, adds one element to the range, and keeps a     *)
(* list free of duplicates if the element was not on it.                    *)
LEMMA AppendList ==
    ASSUME NEW S, NEW s \in Seq(S), NEW e \in S
    PROVE  /\ Append(s, e) \in Seq(S)
           /\ Range(Append(s, e)) = Range(s) \cup {e}
           /\ IsInjective(s) /\ e \notin Range(s) => IsInjective(Append(s, e))
<1> DEFINE t == Append(s, e)
<1>1. t \in Seq(S) /\ Len(t) = Len(s) + 1 /\ t[Len(s) + 1] = e
  OBVIOUS
<1>2. \A i \in 1 .. Len(s) : t[i] = s[i]
  OBVIOUS
<1>3. DOMAIN t = 1 .. Len(s) + 1 /\ DOMAIN s = 1 .. Len(s) /\ Len(s) \in Nat
  BY <1>1
<1> HIDE DEF t
<1>4. Range(t) = Range(s) \cup {e}
  <2>1. ASSUME NEW x \in Range(t) PROVE x \in Range(s) \cup {e}
    <3>1. PICK i \in 1 .. Len(s) + 1 : x = t[i]
      BY <1>3 DEF Range
    <3>2. CASE i = Len(s) + 1
      BY <3>1, <3>2, <1>1
    <3>3. CASE i \in 1 .. Len(s)
      BY <3>1, <3>3, <1>2, <1>3 DEF Range
    <3> QED BY <3>1, <3>2, <3>3, <1>3
  <2>2. ASSUME NEW x \in Range(s) PROVE x \in Range(t)
    <3>1. PICK i \in 1 .. Len(s) : x = s[i]
      BY <1>3 DEF Range
    <3>2. i \in DOMAIN t /\ t[i] = x
      BY <3>1, <1>2, <1>3
    <3> QED BY <3>2 DEF Range
  <2>3. e \in Range(t)
    <3>1. Len(s) + 1 \in DOMAIN t
      BY <1>3
    <3> QED BY <3>1, <1>1 DEF Range
  <2> QED BY <2>1, <2>2, <2>3
<1>5. ASSUME IsInjective(s), e \notin Range(s) PROVE IsInjective(t)
  <2> SUFFICES ASSUME NEW i \in DOMAIN t, NEW j \in DOMAIN t, t[i] = t[j]
               PROVE  i = j
    BY DEF IsInjective
  <2>1. \A k \in 1 .. Len(s) : s[k] \in Range(s)
    BY <1>3 DEF Range
  <2>2. CASE i \in 1 .. Len(s) /\ j \in 1 .. Len(s)
    BY <2>2, <1>5, <1>2, <1>3 DEF IsInjective
  <2>3. CASE i = Len(s) + 1 /\ j \in 1 .. Len(s)
    BY <2>3, <2>1, <1>5, <1>1, <1>2
  <2>4. CASE j = Len(s) + 1 /\ i \in 1 .. Len(s)
    BY <2>4, <2>1, <1>5, <1>1, <1>2
  <2>5. CASE i = Len(s) + 1 /\ j = Len(s) + 1
    BY <2>5
  <2> QED BY <2>2, <2>3, <2>4, <2>5, <1>3
<1> QED BY <1>1, <1>4, <1>5 DEF t

(* The same for an insertion at the head.                                   *)
LEMMA ConsList ==
    ASSUME NEW S, NEW s \in Seq(S), NEW e \in S
    PROVE  /\ Cons(e, s) \in Seq(S)
           /\ Range(Cons(e, s)) = Range(s) \cup {e}
           /\ IsInjective(s) /\ e \notin Range(s) => IsInjective(Cons(e, s))
<1> DEFINE t == Cons(e, s)
<1>1. t \in Seq(S) /\ Len(t) = Len(s) + 1 /\ t[1] = e
  BY DEF Cons
<1>2. \A i \in 1 .. Len(s) : t[i + 1] = s[i]
  BY DEF Cons
<1>3. DOMAIN t = 1 .. Len(s) + 1 /\ DOMAIN s = 1 .. Len(s) /\ Len(s) \in Nat
  BY <1>1
<1> HIDE DEF t
<1>4. \A i \in DOMAIN t : i = 1 \/ (i - 1 \in 1 .. Len(s) /\ t[i] = s[i - 1])
  <2> SUFFICES ASSUME NEW i \in DOMAIN t, i # 1
               PROVE  i - 1 \in 1 .. Len(s) /\ t[i] = s[i - 1]
    OBVIOUS
  <2>1. i - 1 \in 1 .. Len(s) /\ (i - 1) + 1 = i
    BY <1>3
  <2> QED BY <2>1, <1>2
<1>5. \A i \in 1 .. Len(s) : s[i] \in Range(s)
  BY <1>3 DEF Range
<1>6. Range(t) = Range(s) \cup {e}
  <2>1. ASSUME NEW x \in Range(t) PROVE x \in Range(s) \cup {e}
    <3>1. PICK i \in DOMAIN t : x = t[i]
      BY DEF Range
    <3> QED BY <3>1, <1>1, <1>4, <1>5
  <2>2. ASSUME NEW x \in Range(s) PROVE x \in Range(t)
    <3>1. PICK i \in 1 .. Len(s) : x = s[i]
      BY <1>3 DEF Range
    <3>2. i + 1 \in DOMAIN t /\ t[i + 1] = x
      BY <3>1, <1>2, <1>3
    <3> QED BY <3>2 DEF Range
  <2>3. e \in Range(t)
    <3>1. 1 \in DOMAIN t
      BY <1>3
    <3> QED BY <3>1, <1>1 DEF Range
  <2> QED BY <2>1, <2>2, <2>3
<1>7. ASSUME IsInjective(s), e \notin Range(s) PROVE IsInjective(t)
  <2> SUFFICES ASSUME NEW i \in DOMAIN t, NEW j \in DOMAIN t, t[i] = t[j]
               PROVE  i = j
    BY DEF IsInjective
  <2>1. CASE i = 1 /\ j = 1
    BY <2>1
  <2>2. CASE i = 1 /\ j # 1
    BY <2>2, <1>1, <1>4, <1>5, <1>7
  <2>3. CASE i # 1 /\ j = 1
    BY <2>3, <1>1, <1>4, <1>5, <1>7
  <2>4. CASE i # 1 /\ j # 1
    <3>1. i - 1 \in DOMAIN s /\ j - 1 \in DOMAIN s /\ s[i - 1] = s[j - 1]
      BY <2>4, <1>3, <1>4
    <3>2. i - 1 = j - 1
      BY <3>1, <1>7 DEF IsInjective
    <3> QED BY <3>2, <1>3
  <2> QED BY <2>1, <2>2, <2>3, <2>4
<1> QED BY <1>1, <1>6, <1>7 DEF t

(* Unlinking the element at a position moves up the elements behind it.     *)
LEMMA RemoveAtElements ==
    ASSUME NEW S, NEW s \in Seq(S), NEW k \in 1 .. Len(s)
    PROVE  /\ RemoveAt(s, k) \in Seq(S)
           /\ Len(RemoveAt(s, k)) = Len(s) - 1
           /\ \A i \in 1 .. Len(s) - 1 :
                RemoveAt(s, k)[i] = IF i < k THEN s[i] ELSE s[i + 1]
<1> DEFINE t == RemoveAt(s, k)
<1>1. DOMAIN s = 1 .. Len(s) /\ Len(s) \in Nat /\ Len(s) > 0
  OBVIOUS
<1>0. k \in Int /\ Len(s) \in Int /\ 1 <= k /\ k <= Len(s)
  BY <1>1
<1> DEFINE lo == SubSeq(s, 1, k - 1)
           hi == SubSeq(s, k + 1, Len(s))
<1>2. lo \in Seq(S) /\ Len(lo) = k - 1 /\ \A i \in 1 .. k - 1 : lo[i] = s[i]
  <2>1. \A i \in 1 .. k - 1 : s[i] \in S
    BY <1>1
  <2> QED BY <2>1, SubSeqProperties
<1>3. /\ hi \in Seq(S) /\ Len(hi) = Len(s) - k
      /\ \A i \in 1 .. Len(s) - k : hi[i] = s[k + i]
  <2>1. \A i \in k + 1 .. Len(s) : s[i] \in S
    BY <1>1
  <2> HIDE DEF hi
  <2>2. /\ hi \in Seq(S)
        /\ Len(hi) = IF k + 1 <= Len(s) THEN Len(s) - (k + 1) + 1 ELSE 0
        /\ \A i \in 1 .. Len(s) - (k + 1) + 1 : hi[i] = s[k + 1 + i - 1]
    <3>1. k + 1 \in Int /\ Len(s) \in Int
      BY <1>1
    <3> QED BY ONLY <2>1, <3>1, SubSeqProperties DEF hi
  <2>3. Len(hi) = Len(s) - k
    <3>1. CASE k + 1 <= Len(s)
      BY <2>2, <1>0, <3>1
    <3>2. CASE k = Len(s)
      BY <2>2, <1>0, <3>2
    <3> QED BY <3>1, <3>2, <1>0
  <2>4. ASSUME NEW i \in 1 .. Len(s) - k PROVE hi[i] = s[k + i]
    <3>1. i \in 1 .. Len(s) - (k + 1) + 1 /\ k + 1 + i - 1 = k + i
      BY <1>1
    <3> QED BY <2>2, <3>1
  <2> QED BY <2>2, <2>3, <2>4
<1> HIDE DEF lo, hi
<1>4. /\ t \in Seq(S) /\ Len(t) = Len(s) - 1
      /\ \A i \in 1 .. Len(s) - 1 : t[i] = IF i < k THEN s[i] ELSE s[i + 1]
  <2>1. /\ lo \o hi \in Seq(S)
        /\ Len(lo \o hi) = Len(lo) + Len(hi)
        /\ \A i \in 1 .. Len(lo) + Len(hi) :
             (lo \o hi)[i] = IF i <= Len(lo) THEN lo[i] ELSE hi[i - Len(lo)]
    BY <1>2, <1>3, ConcatProperties
  <2>2. t = lo \o hi
    BY DEF RemoveAt, lo, hi
  <2> HIDE DEF t
  <2>3. ASSUME NEW i \in 1 .. Len(s) - 1
        PROVE  t[i] = IF i < k THEN s[i] ELSE s[i + 1]
    <3>1. CASE i < k
      BY <3>1, <2>1, <2>2, <1>1, <1>2, <1>3
    <3>2. CASE i >= k
      <4>1. i - (k - 1) \in 1 .. Len(s) - k /\ k + (i - (k - 1)) = i + 1
        BY <3>2, <1>1
      <4> QED BY <3>2, <4>1, <2>1, <2>2, <1>1, <1>2, <1>3
    <3> QED BY <3>1, <3>2, <1>1
  <2>4. t \in Seq(S)
    BY <2>1, <2>2
  <2>5. Len(t) = Len(s) - 1
    <3>1. Len(t) = (k - 1) + (Len(s) - k)
      BY <2>1, <2>2, <1>2, <1>3
    <3> QED BY <3>1, <1>0
  <2> QED BY <2>3, <2>4, <2>5
<1> QED BY <1>4 DEF t

(* Unlinking the element at a position of a list without duplicates removes *)
(* it from the range and leaves no duplicates.                              *)
LEMMA RemoveAtList ==
    ASSUME NEW S, NEW s \in Seq(S), NEW k \in 1 .. Len(s)
    PROVE  /\ RemoveAt(s, k) \in Seq(S)
           /\ Len(RemoveAt(s, k)) = Len(s) - 1
           /\ s[k] \in S /\ s[k] \in Range(s)
           /\ IsInjective(s) => /\ Range(RemoveAt(s, k)) = Range(s) \ {s[k]}
                                /\ IsInjective(RemoveAt(s, k))
<1> DEFINE t == RemoveAt(s, k)
<1>1. DOMAIN s = 1 .. Len(s) /\ Len(s) \in Nat /\ Len(s) > 0
  OBVIOUS
<1>4. /\ t \in Seq(S) /\ Len(t) = Len(s) - 1
      /\ \A i \in 1 .. Len(s) - 1 : t[i] = IF i < k THEN s[i] ELSE s[i + 1]
  BY RemoveAtElements
<1>5. DOMAIN t = 1 .. Len(s) - 1
  BY <1>4
<1>6. s[k] \in S /\ s[k] \in Range(s)
  BY <1>1 DEF Range
<1> HIDE DEF t
<1> DEFINE old(i) == IF i < k THEN i ELSE i + 1
<1>7. \A i \in DOMAIN t : old(i) \in DOMAIN s \ {k} /\ t[i] = s[old(i)]
  BY <1>1, <1>4, <1>5
<1>8. \A j \in DOMAIN s \ {k} : \E i \in DOMAIN t : old(i) = j
  <2> SUFFICES ASSUME NEW j \in DOMAIN s, j # k
               PROVE  \E i \in DOMAIN t : old(i) = j
    OBVIOUS
  <2>1. CASE j < k
    BY <2>1, <1>1, <1>5
  <2>2. CASE j > k
    <3>1. j - 1 \in DOMAIN t /\ old(j - 1) = j
      BY <2>2, <1>1, <1>5
    <3> QED BY <3>1
  <2> QED BY <2>1, <2>2, <1>1
<1>9. \A i, j \in DOMAIN t : old(i) = old(j) => i = j
  BY <1>5
<1> HIDE DEF old
<1>10. ASSUME IsInjective(s)
       PROVE  Range(t) = Range(s) \ {s[k]} /\ IsInjective(t)
  <2>1. ASSUME NEW x \in Range(t) PROVE x \in Range(s) \ {s[k]}
    <3>1. PICK i \in DOMAIN t : x = t[i]
      BY DEF Range
    <3>2. old(i) \in DOMAIN s /\ old(i) # k /\ x = s[old(i)] /\ k \in DOMAIN s
      BY <3>1, <1>7, <1>1
    <3> QED BY <3>2, <1>10 DEF Range, IsInjective
  <2>2. ASSUME NEW x \in Range(s) \ {s[k]} PROVE x \in Range(t)
    <3>1. PICK j \in DOMAIN s : x = s[j]
      BY DEF Range
    <3>2. j # k
      BY <3>1
    <3>3. PICK i \in DOMAIN t : old(i) = j
      BY <3>1, <3>2, <1>8
    <3>4. t[i] = x
      BY <3>1, <3>3, <1>7
    <3> QED BY <3>4 DEF Range
  <2>3. IsInjective(t)
    <3> SUFFICES ASSUME NEW i \in DOMAIN t, NEW j \in DOMAIN t, t[i] = t[j]
                 PROVE  i = j
      BY DEF IsInjective
    <3>1. old(i) = old(j)
      BY <1>7, <1>10 DEF IsInjective
    <3> QED BY <3>1, <1>9
  <2> QED BY <2>1, <2>2, <2>3
<1> QED BY <1>4, <1>6, <1>10 DEF t

(* What InsertAt returns, element by element.                               *)
LEMMA InsertAtElements ==
    ASSUME NEW S, NEW s \in Seq(S), NEW e \in S, NEW k \in 1 .. Len(s) + 1
    PROVE  /\ InsertAt(s, k, e) \in Seq(S)
           /\ Len(InsertAt(s, k, e)) = Len(s) + 1
           /\ \A i \in 1 .. Len(s) + 1 :
                InsertAt(s, k, e)[i] = IF i < k THEN s[i]
                                       ELSE IF i = k THEN e ELSE s[i - 1]
<1> DEFINE lo == SubSeq(s, 1, k - 1)
           hi == SubSeq(s, k, Len(s))
           t == InsertAt(s, k, e)
           m == lo \o <<e>>
<1>1. Len(s) \in Nat /\ k \in Nat /\ 1 <= k /\ k <= Len(s) + 1
  OBVIOUS
<1>2. lo \in Seq(S) /\ Len(lo) = k - 1 /\ \A i \in 1 .. k - 1 : lo[i] = s[i]
  <2>1. \A i \in 1 .. k - 1 : s[i] \in S
    BY <1>1
  <2> QED BY <1>1, <2>1, SubSeqProperties
<1>3. /\ hi \in Seq(S) /\ Len(hi) = Len(s) - k + 1
      /\ \A i \in 1 .. Len(s) - k + 1 : hi[i] = s[k + i - 1]
  <2>1. \A i \in k .. Len(s) : s[i] \in S
    BY <1>1
  <2>2. k <= Len(s) + 1 => /\ hi \in Seq(S)
                           /\ Len(hi) = IF k <= Len(s) THEN Len(s) - k + 1 ELSE 0
                           /\ \A i \in 1 .. Len(s) - k + 1 : hi[i] = s[k + i - 1]
    BY <1>1, <2>1, SubSeqProperties
  <2> QED BY <1>1, <2>2
<1> HIDE DEF lo, hi
<1>4. /\ m \in Seq(S) /\ Len(m) = k
      /\ \A i \in 1 .. k - 1 : m[i] = s[i]
      /\ m[k] = e
  BY <1>1, <1>2
<1> HIDE DEF m
<1>5. t = m \o hi
  BY DEF InsertAt, lo, hi, m
<1>6. /\ m \o hi \in Seq(S)
      /\ Len(m \o hi) = Len(m) + Len(hi)
      /\ \A i \in 1 .. Len(m) + Len(hi) :
           (m \o hi)[i] = IF i <= Len(m) THEN m[i] ELSE hi[i - Len(m)]
  BY <1>3, <1>4, ConcatProperties
<1> HIDE DEF t
<1>7. Len(t) = Len(s) + 1
  BY <1>1, <1>3, <1>4, <1>5, <1>6
<1>8. ASSUME NEW i \in 1 .. Len(s) + 1
      PROVE  t[i] = IF i < k THEN s[i] ELSE IF i = k THEN e ELSE s[i - 1]
  <2>1. CASE i <= k
    BY <2>1, <1>1, <1>3, <1>4, <1>5, <1>6
  <2>2. CASE i > k
    <3>1. i - k \in 1 .. Len(s) - k + 1 /\ k + (i - k) - 1 = i - 1
      BY <2>2, <1>1
    <3>2. t[i] = hi[i - k]
      BY <2>2, <1>1, <1>3, <1>4, <1>5, <1>6
    <3> QED BY <2>2, <3>1, <3>2, <1>3
  <2> QED BY <2>1, <2>2, <1>1
<1> QED BY <1>5, <1>6, <1>7, <1>8 DEF t

(* Linking an element at a position adds it to the range, moves the ones    *)
(* from the position on by one, and keeps a list free of duplicates if the  *)
(* element was not on it.                                                   *)
LEMMA InsertAtList ==
    ASSUME NEW S, NEW s \in Seq(S), NEW e \in S, NEW k \in 1 .. Len(s) + 1
    PROVE  /\ InsertAt(s, k, e) \in Seq(S)
           /\ Len(InsertAt(s, k, e)) = Len(s) + 1
           /\ k <= Len(s) => InsertAt(s, k, e)[k + 1] = s[k]
           /\ Range(InsertAt(s, k, e)) = Range(s) \cup {e}
           /\ IsInjective(s) /\ e \notin Range(s) => IsInjective(InsertAt(s, k, e))
<1> DEFINE t == InsertAt(s, k, e)
           old(i) == IF i < k THEN i ELSE i - 1
<1>1. DOMAIN s = 1 .. Len(s) /\ Len(s) \in Nat /\ k \in Nat /\ 1 <= k /\ k <= Len(s) + 1
  OBVIOUS
<1>2. /\ t \in Seq(S) /\ Len(t) = Len(s) + 1
      /\ \A i \in 1 .. Len(s) + 1 :
            t[i] = IF i < k THEN s[i] ELSE IF i = k THEN e ELSE s[i - 1]
  BY InsertAtElements
<1>3. DOMAIN t = 1 .. Len(s) + 1
  BY <1>2
<1> HIDE DEF t
<1>4. k \in DOMAIN t /\ t[k] = e
  BY <1>1, <1>2, <1>3
<1>5. \A i \in DOMAIN t \ {k} : old(i) \in DOMAIN s /\ t[i] = s[old(i)]
  BY <1>1, <1>2, <1>3
<1>6. \A j \in DOMAIN s : \E i \in DOMAIN t \ {k} : old(i) = j
  <2> SUFFICES ASSUME NEW j \in DOMAIN s
               PROVE  \E i \in DOMAIN t \ {k} : old(i) = j
    OBVIOUS
  <2>1. CASE j < k
    BY <2>1, <1>1, <1>3
  <2>2. CASE j >= k
    <3>1. j + 1 \in DOMAIN t \ {k} /\ old(j + 1) = j
      BY <2>2, <1>1, <1>3
    <3> QED BY <3>1
  <2> QED BY <2>1, <2>2, <1>1
<1>7. \A i, j \in DOMAIN t \ {k} : old(i) = old(j) => i = j
  BY <1>1, <1>3
<1>8. k <= Len(s) => t[k + 1] = s[k]
  BY <1>1, <1>2
<1> HIDE DEF old
<1>9. Range(t) = Range(s) \cup {e}
  <2>1. ASSUME NEW x \in Range(t) PROVE x \in Range(s) \cup {e}
    <3>1. PICK i \in DOMAIN t : x = t[i]
      BY DEF Range
    <3> QED BY <3>1, <1>4, <1>5 DEF Range
  <2>2. ASSUME NEW x \in Range(s) PROVE x \in Range(t)
    <3>1. PICK j \in DOMAIN s : x = s[j]
      BY DEF Range
    <3>2. PICK i \in DOMAIN t \ {k} : old(i) = j
      BY <1>6
    <3>3. t[i] = x
      BY <3>1, <3>2, <1>5
    <3> QED BY <3>3 DEF Range
  <2>3. e \in Range(t)
    BY <1>4 DEF Range
  <2> QED BY <2>1, <2>2, <2>3
<1>10. ASSUME IsInjective(s), e \notin Range(s) PROVE IsInjective(t)
  <2> SUFFICES ASSUME NEW i \in DOMAIN t, NEW j \in DOMAIN t, t[i] = t[j]
               PROVE  i = j
    BY DEF IsInjective
  <2>1. \A m \in DOMAIN t \ {k} : t[m] \in Range(s)
    BY <1>5 DEF Range
  <2>2. CASE i # k /\ j # k
    <3>1. old(i) = old(j)
      BY <2>2, <1>5, <1>10 DEF IsInjective
    <3> QED BY <2>2, <3>1, <1>7
  <2>3. CASE i = k \/ j = k
    BY <2>1, <2>3, <1>4, <1>10
  <2> QED BY <2>2, <2>3
<1> QED BY <1>2, <1>8, <1>9, <1>10 DEF t
=============================================================================
