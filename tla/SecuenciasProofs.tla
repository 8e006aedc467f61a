-------------------------- MODULE SecuenciasProofs --------------------------
(***************************************************************************)
(* Lemmas about the naturals and about sequences, with what appending and  *)
(* removing leave in them, that the proofs of several components cite.     *)
(***************************************************************************)
EXTENDS Integers, Sequences, SequencesExt, SequenceTheorems, WellFoundedInduction, TLAPS

\* Induction, for the set of the naturals that have the property.
LEMMA Induccion ==
  ASSUME NEW S \in SUBSET Nat, 0 \in S, \A n \in S : n + 1 \in S
  PROVE  S = Nat
<1> DEFINE R == {ss \in Nat \X Nat : ss[1] < ss[2]}
           T == Nat \ S
<1>1. IsWellFoundedOn(R, Nat)
  BY NatLessThanWellFounded DEF OpToRel
<1> HIDE DEF R
<1>2. SUFFICES ASSUME T # {} PROVE FALSE
  OBVIOUS
<1>3. PICK m \in T : \A y \in T : ~(<<y, m>> \in R)
  BY <1>1, <1>2, WFMin
<1>4. m # 0 /\ m - 1 \in Nat
  BY <1>3
<1>5. m - 1 \notin T
  <2>1. <<m - 1, m>> \in R
    BY <1>4 DEF R
  <2>2. QED
    BY <1>3, <2>1
<1>6. QED
  BY <1>3, <1>4, <1>5

\* Every non-empty set of naturals has a least element, the one Min chooses.
LEMMA MinPertenece ==
  ASSUME NEW S \in SUBSET Nat, S # {}
  PROVE  Min(S) \in S /\ \A y \in S : Min(S) <= y
<1> DEFINE R == {ss \in Nat \X Nat : ss[1] < ss[2]}
<1>1. IsWellFoundedOn(R, Nat)
  BY NatLessThanWellFounded DEF OpToRel
<1> HIDE DEF R
<1>2. \E x \in S : \A y \in S : ~(<<y, x>> \in R)
  BY <1>1, WFMin
<1>3. \A x, y \in S : ~(<<y, x>> \in R) => x <= y
  BY DEF R
<1>4. QED
  BY <1>2, <1>3 DEF Min

\* Taking one element out of a sequence leaves a sequence, one shorter.
LEMMA RemoveAtSeq ==
  ASSUME NEW S, NEW s \in Seq(S), NEW i \in 1 .. Len(s)
  PROVE  RemoveAt(s, i) \in Seq(S) /\ Len(RemoveAt(s, i)) = Len(s) - 1
<1>1. Len(s) \in Nat /\ \A j \in 1 .. Len(s) : s[j] \in S
  BY LenProperties, ElementOfSeq
<1>2. /\ SubSeq(s, 1, i - 1) \in Seq(S)
      /\ Len(SubSeq(s, 1, i - 1)) = i - 1
  BY <1>1, SubSeqProperties
<1>3. /\ SubSeq(s, i + 1, Len(s)) \in Seq(S)
      /\ Len(SubSeq(s, i + 1, Len(s))) = Len(s) - i
  BY <1>1, SubSeqProperties
<1>4. /\ RemoveAt(s, i) \in Seq(S)
      /\ Len(RemoveAt(s, i)) = Len(SubSeq(s, 1, i - 1)) + Len(SubSeq(s, i + 1, Len(s)))
  BY <1>2, <1>3, ConcatProperties, Zenon DEF RemoveAt
<1>5. (i - 1) + (Len(s) - i) = Len(s) - 1
  BY <1>1
<1>6. QED
  BY <1>2, <1>3, <1>4, <1>5, Zenon

\* list_remove_element: a sequence again, not longer; shorter only if it had e.
LEMMA RemoveFirstSeq ==
  ASSUME NEW S, NEW s \in Seq(S), NEW e
  PROVE  /\ RemoveFirst(s, e) \in Seq(S)
         /\ Len(RemoveFirst(s, e)) <= Len(s)
         /\ s = <<>> => RemoveFirst(s, e) = <<>>
<1> DEFINE I == {i \in 1 .. Len(s) : s[i] = e}
<1>1. Len(s) \in Nat
  BY LenProperties
<1>2. CASE I = {}
  <2>1. RemoveFirst(s, e) = s
    BY <1>2 DEF RemoveFirst
  <2>2. QED
    BY <2>1, <1>1
<1>3. CASE I # {}
  <2>1. Min(I) \in I
    BY <1>1, <1>3, MinPertenece, SMTT(30)
  <2>2. RemoveFirst(s, e) = RemoveAt(s, Min(I))
    BY <1>3 DEF RemoveFirst, SelectInSeq
  <2>3. Len(RemoveAt(s, Min(I))) = Len(s) - 1 /\ RemoveAt(s, Min(I)) \in Seq(S)
    BY <2>1, RemoveAtSeq
  <2>4. s # <<>>
    BY <2>1, <1>1
  <2>5. Len(s) - 1 <= Len(s)
    BY <1>1
  <2>6. QED
    BY <2>2, <2>3, <2>4, <2>5, Zenon
<1>4. QED
  BY <1>2, <1>3

\* Adding an element to a sequence.
LEMMA AppendSeq ==
  ASSUME NEW S, NEW s \in Seq(S), NEW e \in S
  PROVE  /\ Append(s, e) \in Seq(S)
         /\ Append(s, e) # <<>>
         /\ Len(Append(s, e)) = Len(s) + 1
  BY AppendProperties

-----------------------------------------------------------------------------
(***************************************************************************)
(* The elements of a list without repetitions, and their order.            *)
(***************************************************************************)
\* ToSet and IsInjective over the positions of a sequence.
LEMMA Posiciones ==
  ASSUME NEW S, NEW s \in Seq(S)
  PROVE  /\ Len(s) \in Nat /\ DOMAIN s = 1 .. Len(s) /\ ToSet(s) \subseteq S
         /\ \A i \in 1 .. Len(s) : s[i] \in S
         /\ \A x : x \in ToSet(s) <=> \E i \in 1 .. Len(s) : s[i] = x
         /\ IsInjective(s) <=> \A i, j \in 1 .. Len(s) : s[i] = s[j] => i = j
<1>1. /\ Len(s) \in Nat /\ DOMAIN s = 1 .. Len(s)
      /\ \A i \in 1 .. Len(s) : s[i] \in S
  BY LenProperties, ElementOfSeq
<1>2. QED
  BY <1>1 DEF ToSet, IsInjective

\* An element added at the end.
LEMMA AppendElementos ==
  ASSUME NEW S, NEW s \in Seq(S), NEW e \in S
  PROVE  /\ ToSet(Append(s, e)) = ToSet(s) \cup {e}
         /\ IsInjective(s) /\ e \notin ToSet(s) => IsInjective(Append(s, e))
         /\ \A i \in 1 .. Len(s) : Append(s, e)[i] = s[i]
<1> DEFINE t == Append(s, e)
<1>1. /\ t \in Seq(S) /\ Len(t) = Len(s) + 1 /\ t[Len(s) + 1] = e
      /\ \A i \in 1 .. Len(s) : t[i] = s[i]
  BY AppendProperties
<1> HIDE DEF t
<1>2. Len(s) \in Nat
  BY Posiciones
<1>3. ToSet(t) = ToSet(s) \cup {e}
  <2>1. \A x : x \in ToSet(t) <=> \E i \in 1 .. Len(t) : t[i] = x
    BY <1>1, Posiciones
  <2>2. \A x : x \in ToSet(s) <=> \E i \in 1 .. Len(s) : s[i] = x
    BY Posiciones
  <2>3. QED
    BY <1>1, <1>2, <2>1, <2>2
<1>4. ASSUME IsInjective(s), e \notin ToSet(s) PROVE IsInjective(t)
  <2>1. \A i, j \in 1 .. Len(s) : s[i] = s[j] => i = j
    BY <1>4, Posiciones
  <2>2. \A i \in 1 .. Len(s) : s[i] # e
    BY <1>4, Posiciones
  <2>3. \A i, j \in 1 .. Len(t) : t[i] = t[j] => i = j
    BY <1>1, <1>2, <2>1, <2>2
  <2>4. QED
    BY <1>1, <2>3, Posiciones
<1>5. QED
  BY <1>1, <1>3, <1>4 DEF t

\* An element taken out: those behind it move up one place.
LEMMA RemoveAtPosiciones ==
  ASSUME NEW S, NEW s \in Seq(S), NEW i \in 1 .. Len(s)
  PROVE  \A j \in 1 .. Len(RemoveAt(s, i)) : RemoveAt(s, i)[j] = IF j < i THEN s[j] ELSE s[j + 1]
<1> DEFINE t == RemoveAt(s, i)
           a == SubSeq(s, 1, i - 1)
           b == SubSeq(s, i + 1, Len(s))
<1>1. Len(s) \in Nat /\ t \in Seq(S) /\ Len(t) = Len(s) - 1
  BY RemoveAtSeq, Posiciones
<1>2. /\ a \in Seq(S) /\ Len(a) = i - 1
      /\ \A j \in 1 .. i - 1 : a[j] = s[j]
  BY <1>1, Posiciones, SubSeqProperties
<1>3. /\ b \in Seq(S) /\ Len(b) = Len(s) - i
      /\ \A j \in 1 .. Len(s) - i : b[j] = s[j + i]
  BY <1>1, Posiciones, SubSeqProperties
<1>4. t = a \o b
  BY DEF RemoveAt
<1> HIDE DEF t, a, b
<1>5. \A j \in 1 .. Len(t) : t[j] = IF j < i THEN s[j] ELSE s[j + 1]
  <2>1. \A j \in 1 .. Len(a) + Len(b) : t[j] = IF j <= Len(a) THEN a[j] ELSE b[j - Len(a)]
    BY <1>2, <1>3, <1>4, ConcatProperties
  <2>2. TAKE j \in 1 .. Len(t)
  <2>3. CASE j < i
    <3>1. j \in 1 .. i - 1 /\ j \in 1 .. Len(a) + Len(b) /\ j <= Len(a)
      BY <1>1, <1>2, <1>3, <2>3
    <3>2. QED
      BY <1>2, <2>1, <2>3, <3>1
  <2>4. CASE ~(j < i)
    <3>1. j - (i - 1) \in 1 .. Len(s) - i /\ j \in 1 .. Len(a) + Len(b) /\ ~(j <= Len(a))
      BY <1>1, <1>2, <1>3, <2>4
    <3>2. t[j] = b[j - (i - 1)] /\ (j - (i - 1)) + i = j + 1
      BY <1>1, <1>2, <2>1, <3>1
    <3>3. QED
      BY <1>3, <2>4, <3>1, <3>2
  <2>5. QED
    BY <2>3, <2>4
<1>6. QED
  BY <1>5 DEF t

\* With no repetitions, the element taken out is not there any more.
LEMMA RemoveAtElementos ==
  ASSUME NEW S, NEW s \in Seq(S), NEW i \in 1 .. Len(s), IsInjective(s)
  PROVE  /\ ToSet(RemoveAt(s, i)) = ToSet(s) \ {s[i]}
         /\ IsInjective(RemoveAt(s, i))
<1> DEFINE t == RemoveAt(s, i)
<1>1. Len(s) \in Nat /\ t \in Seq(S) /\ Len(t) = Len(s) - 1
  BY RemoveAtSeq, Posiciones
<1>2. \A j \in 1 .. Len(t) : t[j] = IF j < i THEN s[j] ELSE s[j + 1]
  BY RemoveAtPosiciones
<1> HIDE DEF t
<1>3. \A j, k \in 1 .. Len(s) : s[j] = s[k] => j = k
  BY Posiciones
<1>4. \A j, k \in 1 .. Len(t) : t[j] = t[k] => j = k
  BY <1>1, <1>2, <1>3
<1>5. \A j \in 1 .. Len(s) : j # i => \E k \in 1 .. Len(t) : t[k] = s[j]
  <2>1. ASSUME NEW j \in 1 .. Len(s), j < i PROVE j \in 1 .. Len(t) /\ t[j] = s[j]
    BY <1>1, <1>2, <2>1
  <2>2. ASSUME NEW j \in 1 .. Len(s), j > i PROVE j - 1 \in 1 .. Len(t) /\ t[j - 1] = s[j]
    BY <1>1, <1>2, <2>2
  <2>3. \A j \in 1 .. Len(s) : j # i => j < i \/ j > i
    OBVIOUS
  <2>4. TAKE j \in 1 .. Len(s)
  <2>5. CASE j < i
    BY <2>1, <2>5
  <2>6. CASE j > i
    BY <2>2, <2>6
  <2>7. QED
    BY <1>1, <2>3, <2>5, <2>6
<1>6. \A j \in 1 .. Len(t) : \E k \in 1 .. Len(s) : k # i /\ s[k] = t[j]
  <2>1. TAKE j \in 1 .. Len(t)
  <2>2. /\ j < i => j \in 1 .. Len(s) /\ j # i
        /\ ~(j < i) => j + 1 \in 1 .. Len(s) /\ j + 1 # i
    BY <1>1
  <2>3. QED
    BY <1>2, <2>2
<1>7. ToSet(t) = ToSet(s) \ {s[i]}
  <2>1. \A x : x \in ToSet(t) <=> \E j \in 1 .. Len(t) : t[j] = x
    BY <1>1, Posiciones
  <2>2. \A x : x \in ToSet(s) <=> \E j \in 1 .. Len(s) : s[j] = x
    BY Posiciones
  <2>3. \A x \in ToSet(t) : x \in ToSet(s) /\ x # s[i]
    BY ONLY <1>3, <1>6, <2>1, <2>2, i \in 1 .. Len(s)
  <2>4. \A x \in ToSet(s) : x # s[i] => x \in ToSet(t)
    BY ONLY <1>5, <2>1, <2>2
  <2>5. QED
    BY ONLY <2>3, <2>4
<1>8. QED
  BY <1>1, <1>4, <1>7, Posiciones DEF t

\* list_remove_element, of a list without repetitions.
LEMMA RemoveFirstElementos ==
  ASSUME NEW S, NEW s \in Seq(S), NEW e, IsInjective(s)
  PROVE  /\ ToSet(RemoveFirst(s, e)) = ToSet(s) \ {e}
         /\ IsInjective(RemoveFirst(s, e))
<1> DEFINE I == {i \in 1 .. Len(s) : s[i] = e}
<1>1. Len(s) \in Nat /\ \A x : x \in ToSet(s) <=> \E i \in 1 .. Len(s) : s[i] = x
  BY Posiciones
<1>2. CASE I = {}
  <2>1. RemoveFirst(s, e) = s
    BY <1>2 DEF RemoveFirst
  <2>2. e \notin ToSet(s)
    BY <1>1, <1>2
  <2>3. QED
    BY <2>1, <2>2
<1>3. CASE I # {}
  <2>1. Min(I) \in I
    <3>1. I \in SUBSET Nat
      BY <1>1
    <3>2. QED
      BY <1>3, <3>1, MinPertenece, Zenon
  <2>2. RemoveFirst(s, e) = RemoveAt(s, Min(I))
    BY <1>3 DEF RemoveFirst, SelectInSeq
  <2>3. Min(I) \in 1 .. Len(s) /\ s[Min(I)] = e
    BY <2>1
  <2>4. QED
    BY <2>2, <2>3, RemoveAtElementos
<1>4. QED
  BY <1>2, <1>3

LEMMA VacioElementos == ToSet(<<>>) = {} /\ IsInjective(<<>>)
  BY DEF ToSet, IsInjective

-----------------------------------------------------------------------------
(***************************************************************************)
(* The range of a list, with or without repetitions.                       *)
(***************************************************************************)
LEMMA RangoDeSeq ==
  ASSUME NEW S, NEW s \in Seq(S)
  PROVE  Range(s) \subseteq S /\ (Range(s) # {} => s # <<>>)
<1>1. Len(s) \in Nat /\ DOMAIN s = 1 .. Len(s) /\ \A i \in 1 .. Len(s) : s[i] \in S
  BY LenProperties, ElementOfSeq
<1>2. Range(s) \subseteq S
  BY <1>1 DEF Range
<1>3. s = <<>> => Len(s) = 0
  BY EmptySeq
<1>4. 1 .. 0 = {}
  OBVIOUS
<1>5. s = <<>> => Range(s) = {}
  BY <1>1, <1>3, <1>4, Zenon DEF Range
<1>6. QED
  BY <1>2, <1>5

\* Removing and adding leave no element but those there were and the one added.
LEMMA RangoDespues ==
  ASSUME NEW S, NEW s \in Seq(S), NEW e
  PROVE  /\ Range(RemoveFirst(s, e)) \subseteq Range(s)
         /\ Range(Append(s, e)) \subseteq Range(s) \cup {e}
<1>1. Len(s) \in Nat /\ DOMAIN s = 1 .. Len(s) /\ s \in [1 .. Len(s) -> S]
  BY LenProperties
<1>2. s \in [1 .. Len(s) -> Range(s)] /\ s \in [1 .. Len(s) -> Range(s) \cup {e}]
  BY <1>1 DEF Range
<1>3. s \in Seq(Range(s)) /\ s \in Seq(Range(s) \cup {e})
  BY <1>1, <1>2, SeqDef
<1>4. RemoveFirst(s, e) \in Seq(Range(s)) /\ Append(s, e) \in Seq(Range(s) \cup {e})
  BY <1>3, RemoveFirstSeq, AppendProperties
<1>5. QED
  BY <1>4, RangoDeSeq

\* list_remove_element of the first element leaves the others.
LEMMA RemoveFirstCabeza ==
  ASSUME NEW S, NEW s \in Seq(S), s # <<>>
  PROVE  RemoveFirst(s, s[1]) = Tail(s)
<1> DEFINE I == {i \in 1 .. Len(s) : s[i] = s[1]}
<1>1. /\ Len(s) \in Nat \ {0} /\ Tail(s) \in Seq(S) /\ Len(Tail(s)) = Len(s) - 1
      /\ \A k \in 1 .. Len(Tail(s)) : Tail(s)[k] = s[k + 1]
  BY HeadTailProperties, EmptySeq, LenProperties
<1>2. 1 \in 1 .. Len(s) /\ I \in SUBSET Nat /\ 1 \in I
  BY <1>1
<1>3. Min(I) \in I /\ Min(I) <= 1
  BY <1>2, MinPertenece
<1>4. Min(I) = 1
  BY <1>1, <1>3
<1>5. RemoveFirst(s, s[1]) = RemoveAt(s, 1)
  BY <1>2, <1>4 DEF RemoveFirst, SelectInSeq
<1>6. RemoveAt(s, 1) \in Seq(S) /\ Len(RemoveAt(s, 1)) = Len(s) - 1
  BY <1>2, RemoveAtSeq
<1>7. \A j \in 1 .. Len(RemoveAt(s, 1)) : RemoveAt(s, 1)[j] = s[j + 1]
  BY <1>1, <1>2, <1>6, RemoveAtPosiciones
<1>8. RemoveAt(s, 1) = Tail(s)
  BY <1>1, <1>6, <1>7, SeqEqual
<1>9. QED
  BY <1>5, <1>8

\* A list without repetitions after an element that was not in it is added.
LEMMA AgregaUno ==
  ASSUME NEW S, NEW s \in Seq(S), NEW e \in S
  PROVE  /\ Append(s, e) \in Seq(S) /\ Range(Append(s, e)) = Range(s) \cup {e}
         /\ IsInjective(s) /\ e \notin Range(s) => IsInjective(Append(s, e))
  BY AppendSeq, AppendElementos DEF Range, ToSet

\* The first occurrence of e leaves a list without repetitions: e is not in it any more.
LEMMA SacaUno ==
  ASSUME NEW S, NEW s \in Seq(S), NEW e, IsInjective(s)
  PROVE  /\ RemoveFirst(s, e) \in Seq(S) /\ Range(RemoveFirst(s, e)) = Range(s) \ {e}
         /\ IsInjective(RemoveFirst(s, e))
<1>1. /\ RemoveFirst(s, e) \in Seq(S) /\ ToSet(RemoveFirst(s, e)) = ToSet(s) \ {e}
      /\ IsInjective(RemoveFirst(s, e))
  BY RemoveFirstSeq, RemoveFirstElementos
<1>2. Range(s) = ToSet(s) /\ Range(RemoveFirst(s, e)) = ToSet(RemoveFirst(s, e))
  BY DEF Range, ToSet
<1>3. QED
  BY <1>1, <1>2

\* Two lists one after the other.
LEMMA Concatenadas ==
  ASSUME NEW S, NEW s \in Seq(S), NEW t \in Seq(S)
  PROVE  /\ s \o t \in Seq(S) /\ Range(s \o t) = Range(s) \cup Range(t)
         /\ IsInjective(s) /\ IsInjective(t) /\ Range(s) \cap Range(t) = {} => IsInjective(s \o t)
<1> DEFINE u == s \o t   m == Len(s)   n == Len(t)
<1>1. /\ m \in Nat /\ n \in Nat /\ DOMAIN s = 1 .. m /\ DOMAIN t = 1 .. n
      /\ u \in Seq(S) /\ DOMAIN u = 1 .. m + n
      /\ \A i \in 1 .. m + n : u[i] = IF i <= m THEN s[i] ELSE t[i - m]
  BY LenProperties, ConcatProperties
<1> HIDE DEF u, m, n
<1>2. \A i \in 1 .. m : i \in 1 .. m + n /\ u[i] = s[i]
  BY <1>1
<1>3. \A j \in 1 .. n : m + j \in 1 .. m + n /\ u[m + j] = t[j]
  <2>1. TAKE j \in 1 .. n
  <2>2. m + j \in 1 .. m + n /\ ~(m + j <= m) /\ (m + j) - m = j
    BY <1>1
  <2>3. QED
    BY <1>1, <2>2
<1>4. \A i \in 1 .. m + n : \/ i \in 1 .. m
                            \/ i - m \in 1 .. n /\ u[i] = t[i - m]
  BY <1>1
<1>5. Range(u) = Range(s) \cup Range(t)
  <2>1. \A x : x \in Range(s) <=> \E i \in 1 .. m : s[i] = x
    BY <1>1 DEF Range
  <2>2. \A x : x \in Range(t) <=> \E i \in 1 .. n : t[i] = x
    BY <1>1 DEF Range
  <2>3. \A x : x \in Range(u) <=> \E i \in 1 .. m + n : u[i] = x
    BY <1>1 DEF Range
  <2>4. \A x : x \in Range(u) => x \in Range(s) \/ x \in Range(t)
    BY <1>2, <1>4, <2>1, <2>2, <2>3
  <2>5. \A x : x \in Range(s) \/ x \in Range(t) => x \in Range(u)
    BY <1>2, <1>3, <2>1, <2>2, <2>3
  <2>6. QED
    BY <2>4, <2>5
<1>6. ASSUME IsInjective(s), IsInjective(t), Range(s) \cap Range(t) = {},
             NEW i \in 1 .. m + n, NEW j \in 1 .. m + n, u[i] = u[j]
      PROVE  i = j
  <2>1. \A k \in 1 .. m, l \in 1 .. n : s[k] # t[l]
    BY <1>1, <1>6 DEF Range
  <2>2. CASE i \in 1 .. m /\ j \in 1 .. m
    BY <1>1, <1>2, <1>6, <2>2 DEF IsInjective
  <2>3. CASE i \in 1 .. m /\ j \notin 1 .. m
    BY <1>2, <1>4, <1>6, <2>1, <2>3
  <2>4. CASE i \notin 1 .. m /\ j \in 1 .. m
    BY <1>2, <1>4, <1>6, <2>1, <2>4
  <2>5. CASE i \notin 1 .. m /\ j \notin 1 .. m
    <3>1. i - m \in 1 .. n /\ j - m \in 1 .. n /\ t[i - m] = t[j - m]
      BY <1>4, <1>6, <2>5
    <3>2. i - m = j - m
      BY <1>1, <1>6, <3>1 DEF IsInjective
    <3>3. QED
      BY <1>1, <3>2
  <2>6. QED
    BY <2>2, <2>3, <2>4, <2>5
<1>7. QED
  BY <1>1, <1>5, <1>6 DEF u, IsInjective
=============================================================================
