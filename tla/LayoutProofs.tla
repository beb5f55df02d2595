---------------------------- MODULE LayoutProofs ----------------------------
(***************************************************************************)
(* Lemmas about EditorLayout, for any layout: every operation leaves one   *)
(* whose focus, active and preview tabs are there (LayoutFits).  First,    *)
(* what is picked from a sequence, which the proofs about the cache of     *)
(* documents need as well.                                                 *)
(***************************************************************************)
EXTENDS EditorLayout, FiniteSetTheorems, SequenceTheorems, WellFoundedInduction, TLAPS

------------------------------------------------------------------------------
(***************************************************************************)
(* Places in sequences of documents.  Picked takes the documents at the    *)
(* places I, by their rank in I; every rank up to the number of places is  *)
(* the rank of exactly one of them.                                        *)
(***************************************************************************)
\* Every nonempty set of numbers has a least element.
LEMMA HasLeast ==
  ASSUME NEW I \in SUBSET Nat, I # {}
  PROVE  \E i \in I : \A j \in I : i <= j
<1> DEFINE Less == {ss \in Nat \X Nat : ss[1] < ss[2]}
<1>1. IsWellFoundedOn(Less, Nat)
  BY NatLessThanWellFounded DEF OpToRel
<1> HIDE DEF Less
<1>2. PICK i \in I : \A j \in I : ~ (<<j, i>> \in Less)
  BY <1>1, WFMin
<1>3. ASSUME NEW j \in I PROVE i <= j
  <2>1. i \in Nat /\ j \in Nat
    OBVIOUS
  <2>2. j < i => <<j, i>> \in Less
    BY <2>1 DEF Less
  <2> QED
    BY <1>2, <2>1, <2>2
<1> QED
  BY <1>3

\* The places of I up to i: there are as many as the rank of i.
UpTo(I, i) == {j \in I : j <= i}

\* Ranks begin with zero and grow by one at every place of I.
LEMMA Ranks ==
  ASSUME NEW n \in Nat, NEW I \in SUBSET (1 .. n)
  PROVE  /\ IsFiniteSet(I) /\ Cardinality(I) \in 0 .. n
         /\ \A i \in 0 .. n : IsFiniteSet(UpTo(I, i)) /\ Cardinality(UpTo(I, i)) \in Nat
         /\ Cardinality(UpTo(I, 0)) = 0
         /\ Cardinality(UpTo(I, n)) = Cardinality(I)
         /\ \A i \in 1 .. n :
              Cardinality(UpTo(I, i)) = Cardinality(UpTo(I, i - 1)) + (IF i \in I THEN 1 ELSE 0)
         /\ \A i, j \in I : i < j => Cardinality(UpTo(I, i)) < Cardinality(UpTo(I, j))
<1>1. IsFiniteSet(1 .. n) /\ Cardinality(1 .. n) = n
  BY FS_Interval
<1>2. IsFiniteSet(I) /\ Cardinality(I) \in 0 .. n
  <2>1. IsFiniteSet(I) /\ Cardinality(I) <= Cardinality(1 .. n)
    BY <1>1, FS_Subset
  <2>2. Cardinality(I) \in Nat
    BY <2>1, FS_CardinalityType
  <2> QED
    BY <1>1, <2>1, <2>2
<1>3. \A i : UpTo(I, i) \in SUBSET I
  BY DEF UpTo
<1>4. \A i : IsFiniteSet(UpTo(I, i)) /\ Cardinality(UpTo(I, i)) \in Nat
  BY <1>2, <1>3, FS_Subset, FS_CardinalityType
<1>5. \A j \in I : j \in Nat /\ ~(j <= 0) /\ j <= n
  OBVIOUS
<1>6. UpTo(I, 0) = {} /\ UpTo(I, n) = I
  <2>1. UpTo(I, 0) = {}
    BY <1>5, Zenon DEF UpTo
  <2>2. UpTo(I, n) = I
    BY <1>5, Zenon DEF UpTo
  <2> QED
    BY <2>1, <2>2
<1>7. ASSUME NEW i \in 1 .. n
      PROVE  Cardinality(UpTo(I, i)) = Cardinality(UpTo(I, i - 1)) + (IF i \in I THEN 1 ELSE 0)
  <2>1. CASE i \in I
    <3>1. \A j \in I : j <= i <=> j <= i - 1 \/ j = i
      BY <1>5
    <3>2. i <= i /\ ~(i <= i - 1)
      OBVIOUS
    <3>3. UpTo(I, i) = UpTo(I, i - 1) \cup {i} /\ i \notin UpTo(I, i - 1)
      BY <2>1, <3>1, <3>2, Zenon DEF UpTo
    <3>4. Cardinality(UpTo(I, i - 1) \cup {i}) = Cardinality(UpTo(I, i - 1)) + 1
      BY <1>4, <3>3, FS_AddElement
    <3> QED
      BY <2>1, <3>3, <3>4
  <2>2. CASE i \notin I
    <3>1. \A j \in I : j <= i <=> j <= i - 1
      BY <1>5, <2>2
    <3>2. UpTo(I, i) = UpTo(I, i - 1)
      BY <3>1, Zenon DEF UpTo
    <3> QED
      BY <1>4, <2>2, <3>2
  <2> QED
    BY <2>1, <2>2
<1>8. ASSUME NEW i \in I, NEW j \in I, i < j
      PROVE  Cardinality(UpTo(I, i)) < Cardinality(UpTo(I, j))
  <2>1. /\ \A l \in I : l <= i => l <= j
        /\ j <= j /\ ~(j <= i)
    BY <1>5, <1>8
  <2>2. UpTo(I, i) \in SUBSET UpTo(I, j) /\ j \in UpTo(I, j) /\ j \notin UpTo(I, i)
    BY <2>1, Zenon DEF UpTo
  <2>3. /\ Cardinality(UpTo(I, i)) <= Cardinality(UpTo(I, j))
        /\ Cardinality(UpTo(I, i)) # Cardinality(UpTo(I, j))
    BY <1>4, <2>2, FS_Subset
  <2> QED
    BY <1>4, <2>3
<1> QED
  BY <1>2, <1>4, <1>6, <1>7, <1>8, FS_EmptySet

\* Every number up to that of the places is the rank of a place: the least
\* one whose rank reaches it.
LEMMA EachRank ==
  ASSUME NEW n \in Nat, NEW I \in SUBSET (1 .. n), NEW k \in 1 .. Cardinality(I)
  PROVE  \E i \in I : Cardinality(UpTo(I, i)) = k
<1> DEFINE far == {i \in 0 .. n : k <= Cardinality(UpTo(I, i))}
<1>1. Cardinality(I) \in Nat /\ k \in Nat /\ 1 <= k /\ k <= Cardinality(I)
  BY Ranks
<1>2. far \in SUBSET Nat /\ n \in far
  BY <1>1, Ranks
<1>3. PICK m \in far : \A j \in far : m <= j
  BY <1>2, HasLeast
<1>4. m \in 0 .. n /\ k <= Cardinality(UpTo(I, m))
  OBVIOUS
<1>5. m # 0
  <2>1. Cardinality(UpTo(I, 0)) = 0
    BY Ranks
  <2> QED
    BY <1>1, <1>4, <2>1
<1>6. m \in 1 .. n /\ m - 1 \in 0 .. n /\ ~(m <= m - 1)
  BY <1>4, <1>5
<1>7. ~(k <= Cardinality(UpTo(I, m - 1)))
  BY <1>3, <1>6
<1>8. Cardinality(UpTo(I, m)) = Cardinality(UpTo(I, m - 1)) + (IF m \in I THEN 1 ELSE 0)
  <2>1. \A i \in 1 .. n :
          Cardinality(UpTo(I, i)) = Cardinality(UpTo(I, i - 1)) + (IF i \in I THEN 1 ELSE 0)
    BY Ranks
  <2> HIDE DEF UpTo
  <2> QED
    BY <1>6, <2>1
<1>9. Cardinality(UpTo(I, m)) \in Nat /\ Cardinality(UpTo(I, m - 1)) \in Nat
  BY <1>4, <1>6, Ranks
<1> HIDE DEF far
<1> QED
  BY <1>1, <1>4, <1>7, <1>8, <1>9

\* at tells the places of docs, all different and in I, that s shows.
Shows(s, at, docs, I) ==
  /\ at \in [DOMAIN s -> I]
  /\ \A k, l \in DOMAIN s : at[k] = at[l] => k = l
  /\ \A k \in DOMAIN s : s[k] = docs[at[k]]

\* Picked shows every document at most once, and only those at the places I.
LEMMA PickedPlaces ==
  ASSUME NEW n \in Nat, NEW I \in SUBSET (1 .. n), NEW docs
  PROVE  /\ Picked(docs, I) \in [1 .. Cardinality(I) -> {docs[i] : i \in I}]
         /\ \E at : Shows(Picked(docs, I), at, docs, I)
<1> DEFINE place(k) == CHOOSE i \in I : Cardinality({j \in I : j <= i}) = k
           at == [k \in 1 .. Cardinality(I) |-> place(k)]
<1>1. Cardinality(I) \in Nat
  BY Ranks
<1>2. \A k \in 1 .. Cardinality(I) :
        place(k) \in I /\ Cardinality({j \in I : j <= place(k)}) = k
  <2>1. \A k \in 1 .. Cardinality(I) :
          \E i \in I : Cardinality({j \in I : j <= i}) = k
    BY EachRank, Zenon DEF UpTo
  <2> QED
    BY <2>1, Zenon
<1>3. Picked(docs, I) = [k \in 1 .. Cardinality(I) |-> docs[place(k)]]
  BY DEF Picked
<1> HIDE DEF place
<1>4. at \in [1 .. Cardinality(I) -> I]
  BY <1>2
<1>5. \A k, l \in 1 .. Cardinality(I) : at[k] = at[l] => k = l
  BY <1>2
<1>6. Picked(docs, I) = [k \in 1 .. Cardinality(I) |-> docs[at[k]]]
  BY <1>3
<1> HIDE DEF at
<1>7. Shows(Picked(docs, I), at, docs, I)
  BY <1>4, <1>5, <1>6 DEF Shows
<1> QED
  BY <1>4, <1>6, <1>7

------------------------------------------------------------------------------
(***************************************************************************)
(* Sequences without repetition, such as the tabs of a group.              *)
(***************************************************************************)

NoTwice(s) == \A i, j \in DOMAIN s : s[i] = s[j] => i = j

\* What is picked has no repetition either, and has every element asked for.
LEMMA PickedNoTwice ==
  ASSUME NEW C, NEW s \in Seq(C), NoTwice(s), NEW I \in SUBSET (DOMAIN s)
  PROVE  /\ Picked(s, I) \in Seq(C) /\ NoTwice(Picked(s, I))
         /\ ToSet(Picked(s, I)) = {s[i] : i \in I}
<1>1. Len(s) \in Nat /\ DOMAIN s = 1 .. Len(s) /\ I \in SUBSET (1 .. Len(s))
  OBVIOUS
<1>2. IsFiniteSet(I) /\ Cardinality(I) \in Nat
  BY <1>1, Ranks
<1>3. /\ Picked(s, I) \in [1 .. Cardinality(I) -> {s[i] : i \in I}]
      /\ \E at : Shows(Picked(s, I), at, s, I)
  BY <1>1, PickedPlaces
<1>4. PICK at : Shows(Picked(s, I), at, s, I)
  BY <1>3
<1>5. Picked(s, I) \in Seq(C)
  <2>1. {s[i] : i \in I} \subseteq C
    BY <1>1
  <2> QED BY <1>2, <1>3, <2>1
<1> DEFINE p == Picked(s, I)
<1>6. DOMAIN p = 1 .. Cardinality(I) /\ \A k \in DOMAIN p : p[k] = s[at[k]] /\ at[k] \in I
  BY <1>3, <1>4 DEF Shows
<1>7. NoTwice(p)
  BY <1>1, <1>4, <1>6 DEF NoTwice, Shows
<1>8. at \in Surjection(1 .. Cardinality(I), I)
  <2>1. at \in Injection(1 .. Cardinality(I), I)
    BY <1>4, <1>6 DEF Shows, Injection, IsInjective
  <2>2. IsFiniteSet(1 .. Cardinality(I)) /\ Cardinality(1 .. Cardinality(I)) = Cardinality(I)
    BY <1>2, FS_Interval
  <2> QED BY <1>2, <2>1, <2>2, FS_Injection
<1>9. ToSet(p) = {s[i] : i \in I}
  BY <1>6, <1>8 DEF ToSet, Surjection
<1> QED BY <1>5, <1>7, <1>9

\* What a filter keeps of a sequence without repetition.
LEMMA FilterNoTwice ==
  ASSUME NEW C, NEW s \in Seq(C), NoTwice(s), NEW S
  PROVE  /\ Within(s, S) \in Seq(C) /\ NoTwice(Within(s, S))
         /\ ToSet(Within(s, S)) = ToSet(s) \cap S
         /\ Without(s, S) \in Seq(C) /\ NoTwice(Without(s, S))
         /\ ToSet(Without(s, S)) = ToSet(s) \ S
<1>1. \A I \in SUBSET (DOMAIN s) :
        /\ Picked(s, I) \in Seq(C) /\ NoTwice(Picked(s, I))
        /\ ToSet(Picked(s, I)) = {s[i] : i \in I}
  BY PickedNoTwice
<1>2. /\ {s[i] : i \in {j \in DOMAIN s : s[j] \in S}} = ToSet(s) \cap S
      /\ {s[i] : i \in {j \in DOMAIN s : s[j] \notin S}} = ToSet(s) \ S
  BY DEF ToSet
<1> QED BY <1>1, <1>2 DEF Within, Without

\* The empty sequence has no elements, and any other has its last.
LEMMA Elements ==
  ASSUME NEW C, NEW s \in Seq(C)
  PROVE  /\ Len(s) \in Nat /\ DOMAIN s = 1 .. Len(s) /\ ToSet(s) \subseteq C
         /\ s = <<>> <=> ToSet(s) = {}
         /\ s = <<>> <=> Len(s) = 0
         /\ s # <<>> => Last(s) \in ToSet(s)
         /\ \A x : Contains(s, x) <=> x \in ToSet(s)
         /\ \A x \in ToSet(s) : IndexOf(s, x) \in 1 .. Len(s) /\ s[IndexOf(s, x)] = x
         /\ \A i \in Nat \ {0} : s # <<>> => InPlaceOf(s, i) \in ToSet(s)
         /\ \A i : s = <<>> => InPlaceOf(s, i) = Null
<1>1. Len(s) \in Nat /\ DOMAIN s = 1 .. Len(s) /\ ToSet(s) \subseteq C
  BY DEF ToSet
<1>2. s = <<>> <=> Len(s) = 0
  BY EmptySeq
<1>3. s = <<>> <=> ToSet(s) = {}
  <2>1. s # <<>> => s[1] \in ToSet(s)
    BY <1>1, <1>2 DEF ToSet
  <2>2. s = <<>> => ToSet(s) = {}
    BY <1>1, <1>2 DEF ToSet
  <2> QED BY <2>1, <2>2
<1>4. s # <<>> => Last(s) \in ToSet(s)
  BY <1>1, <1>2 DEF ToSet, Last
<1>5. \A x : Contains(s, x) <=> x \in ToSet(s)
  BY <1>1 DEF Contains, ToSet
<1>6. ASSUME NEW x \in ToSet(s)
      PROVE  IndexOf(s, x) \in 1 .. Len(s) /\ s[IndexOf(s, x)] = x
  <2>1. \E i \in DOMAIN s : s[i] = x
    BY DEF ToSet
  <2>2. IndexOf(s, x) \in DOMAIN s /\ s[IndexOf(s, x)] = x
    BY <2>1, Zenon DEF IndexOf
  <2> QED BY <1>1, <2>2
<1>7. ASSUME NEW i \in Nat \ {0}, s # <<>>
      PROVE  InPlaceOf(s, i) \in ToSet(s)
  <2>1. (IF i <= Len(s) THEN i ELSE Len(s)) \in DOMAIN s
    BY <1>1, <1>2, <1>7
  <2> QED BY <1>7, <2>1 DEF InPlaceOf, ToSet
<1>8. \A i : s = <<>> => InPlaceOf(s, i) = Null
  BY DEF InPlaceOf
<1> QED BY <1>1, <1>2, <1>3, <1>4, <1>5, <1>6, <1>7, <1>8

\* Two sequences with nothing in common, one after the other.
LEMMA JoinNoTwice ==
  ASSUME NEW C, NEW s \in Seq(C), NEW t \in Seq(C), NoTwice(s), NoTwice(t),
         ToSet(s) \cap ToSet(t) = {}
  PROVE  s \o t \in Seq(C) /\ NoTwice(s \o t) /\ ToSet(s \o t) = ToSet(s) \cup ToSet(t)
<1>1. /\ s \o t \in Seq(C) /\ Len(s \o t) = Len(s) + Len(t)
      /\ Len(s) \in Nat /\ Len(t) \in Nat
      /\ DOMAIN s = 1 .. Len(s) /\ DOMAIN t = 1 .. Len(t)
      /\ DOMAIN (s \o t) = 1 .. Len(s) + Len(t)
  OBVIOUS
<1>2. \A i \in 1 .. Len(s) + Len(t) :
        (s \o t)[i] = IF i <= Len(s) THEN s[i] ELSE t[i - Len(s)]
  BY ConcatProperties
<1> DEFINE u == s \o t
<1>3. \A i \in DOMAIN u : IF i <= Len(s) THEN i \in DOMAIN s /\ u[i] = s[i]
                          ELSE i - Len(s) \in DOMAIN t /\ u[i] = t[i - Len(s)]
  BY <1>1, <1>2
<1>4. /\ \A i \in DOMAIN s : i \in DOMAIN u /\ u[i] = s[i]
      /\ \A i \in DOMAIN t : i + Len(s) \in DOMAIN u /\ u[i + Len(s)] = t[i]
  <2>1. \A i \in DOMAIN s : i \in DOMAIN u /\ i <= Len(s)
    BY <1>1
  <2>2. \A i \in DOMAIN t : /\ i + Len(s) \in DOMAIN u /\ ~(i + Len(s) <= Len(s))
                            /\ (i + Len(s)) - Len(s) = i
    BY <1>1
  <2> HIDE DEF u
  <2> QED BY <1>3, <2>1, <2>2
<1> HIDE DEF u
<1>5. ToSet(u) = ToSet(s) \cup ToSet(t)
  BY <1>3, <1>4 DEF ToSet
<1>6. ASSUME NEW i \in DOMAIN u, NEW j \in DOMAIN u, u[i] = u[j]
      PROVE  i = j
  <2>1. i \in Nat /\ j \in Nat
    BY <1>1 DEF u
  <2>2. CASE i <= Len(s) /\ j <= Len(s)
    BY <1>3, <1>6, <2>2 DEF NoTwice
  <2>3. CASE ~(i <= Len(s)) /\ ~(j <= Len(s))
    <3>1. i - Len(s) = j - Len(s)
      BY <1>3, <1>6, <2>3 DEF NoTwice
    <3> QED BY <1>1, <2>1, <3>1
  <2>4. ~(i <= Len(s) /\ ~(j <= Len(s))) /\ ~(j <= Len(s) /\ ~(i <= Len(s)))
    BY <1>3, <1>6 DEF ToSet
  <2> QED BY <2>2, <2>3, <2>4
<1>7. NoTwice(u)
  BY <1>6 DEF NoTwice
<1> QED BY <1>1, <1>5, <1>7 DEF u

\* An element that is new joins at the end, or anywhere.
LEMMA AddNoTwice ==
  ASSUME NEW C, NEW s \in Seq(C), NoTwice(s), NEW d \in C, d \notin ToSet(s)
  PROVE  /\ Append(s, d) \in Seq(C) /\ NoTwice(Append(s, d))
         /\ ToSet(Append(s, d)) = ToSet(s) \cup {d}
         /\ \A i \in 1 .. Len(s) + 1 :
              /\ InsertAt(s, i, d) \in Seq(C) /\ NoTwice(InsertAt(s, i, d))
              /\ ToSet(InsertAt(s, i, d)) = ToSet(s) \cup {d}
<1> DEFINE one == <<d>>
<1>1. one \in Seq(C) /\ NoTwice(one) /\ ToSet(one) = {d}
  <2>1. DOMAIN one = {1} /\ one[1] = d
    OBVIOUS
  <2> QED BY <2>1 DEF NoTwice, ToSet
<1>2. Append(s, d) = s \o one /\ ToSet(s) \cap ToSet(one) = {}
  BY <1>1
<1> HIDE DEF one
<1>3. /\ Append(s, d) \in Seq(C) /\ NoTwice(Append(s, d))
      /\ ToSet(Append(s, d)) = ToSet(s) \cup {d}
  BY <1>1, <1>2, JoinNoTwice
<1>4. ASSUME NEW i \in 1 .. Len(s) + 1
      PROVE  /\ InsertAt(s, i, d) \in Seq(C) /\ NoTwice(InsertAt(s, i, d))
             /\ ToSet(InsertAt(s, i, d)) = ToSet(s) \cup {d}
  <2> DEFINE a == SubSeq(s, 1, i - 1)
             b == SubSeq(s, i, Len(s))
  <2>1. /\ Len(s) \in Nat /\ DOMAIN s = 1 .. Len(s) /\ i \in Nat /\ i - 1 \in Int
        /\ \A k \in 1 .. i - 1 : k \in DOMAIN s /\ s[k] \in C
        /\ \A k \in i .. Len(s) : k \in DOMAIN s /\ s[k] \in C
    OBVIOUS
  <2>2. /\ a \in Seq(C) /\ Len(a) = i - 1 /\ DOMAIN a = 1 .. i - 1
        /\ \A k \in 1 .. i - 1 : a[k] = s[k]
    OBVIOUS
  <2>3. /\ b \in Seq(C) /\ Len(b) = Len(s) - i + 1 /\ DOMAIN b = 1 .. Len(s) - i + 1
        /\ \A k \in 1 .. Len(s) - i + 1 : b[k] = s[i + k - 1]
    <3>1. /\ b \in Seq(C) /\ Len(b) = (IF i <= Len(s) THEN Len(s) - i + 1 ELSE 0)
          /\ \A k \in 1 .. Len(s) - i + 1 : b[k] = s[i + k - 1]
      BY <2>1, SubSeqProperties
    <3> QED BY <2>1, <3>1
  <2> HIDE DEF a, b
  <2>4. NoTwice(a) /\ NoTwice(b)
    <3>1. NoTwice(a)
      BY <2>1, <2>2 DEF NoTwice
    <3>2. ASSUME NEW k \in DOMAIN b, NEW l \in DOMAIN b, b[k] = b[l] PROVE k = l
      <4>1. i + k - 1 \in DOMAIN s /\ i + l - 1 \in DOMAIN s
        BY <2>1, <2>3
      <4>2. s[i + k - 1] = s[i + l - 1]
        BY <2>3, <3>2
      <4>3. i + k - 1 = i + l - 1
        BY <4>1, <4>2 DEF NoTwice
      <4> QED BY <2>1, <2>3, <4>3
    <3> QED BY <3>1, <3>2 DEF NoTwice
  <2>5. ToSet(a) \cap ToSet(b) = {}
    <3>1. ASSUME NEW k \in DOMAIN a, NEW l \in DOMAIN b, a[k] = b[l] PROVE FALSE
      <4>1. k \in DOMAIN s /\ i + l - 1 \in DOMAIN s /\ k # i + l - 1
        BY <2>1, <2>2, <2>3
      <4>2. s[k] = s[i + l - 1]
        BY <2>2, <2>3, <3>1
      <4> QED BY <4>1, <4>2 DEF NoTwice
    <3> QED BY <3>1 DEF ToSet
  <2>6. ToSet(s) = ToSet(a) \cup ToSet(b)
    <3>1. \A k \in DOMAIN s : k \in DOMAIN a \/ (k - i + 1 \in DOMAIN b /\ i + (k - i + 1) - 1 = k)
      BY <2>1, <2>2, <2>3
    <3>2. \A k \in DOMAIN s : s[k] \in ToSet(a) \cup ToSet(b)
      <4>1. \A k \in DOMAIN a : s[k] = a[k]
        BY <2>2
      <4>2. \A k \in DOMAIN b : s[i + k - 1] = b[k]
        BY <2>3
      <4>3. ASSUME NEW k \in DOMAIN s PROVE s[k] \in ToSet(a) \cup ToSet(b)
        <5>1. CASE k \in DOMAIN a
          BY <4>1, <5>1 DEF ToSet
        <5>2. CASE k - i + 1 \in DOMAIN b /\ i + (k - i + 1) - 1 = k
          BY <4>2, <5>2 DEF ToSet
        <5> QED BY <3>1, <5>1, <5>2
      <4> QED BY <4>3
    <3>3. ToSet(a) \subseteq ToSet(s)
      BY <2>1, <2>2 DEF ToSet
    <3>4. \A k \in DOMAIN b : i + k - 1 \in DOMAIN s
      BY <2>1, <2>3
    <3>5. ToSet(b) \subseteq ToSet(s)
      BY <2>3, <3>4 DEF ToSet
    <3> QED BY <3>2, <3>3, <3>5 DEF ToSet
  <2> DEFINE c == a \o one
  <2>7. c \in Seq(C) /\ NoTwice(c) /\ ToSet(c) = ToSet(a) \cup {d}
    <3>1. ToSet(a) \cap ToSet(one) = {}
      BY <1>1, <2>6
    <3> QED BY <1>1, <2>2, <2>4, <3>1, JoinNoTwice
  <2>8. InsertAt(s, i, d) = c \o b
    BY DEF InsertAt, a, b, one
  <2> HIDE DEF c
  <2>9. ToSet(c) \cap ToSet(b) = {}
    BY <2>5, <2>6, <2>7
  <2>10. c \o b \in Seq(C) /\ NoTwice(c \o b) /\ ToSet(c \o b) = ToSet(c) \cup ToSet(b)
    BY <2>3, <2>4, <2>7, <2>9, JoinNoTwice
  <2> QED BY <2>6, <2>7, <2>8, <2>10
<1> QED BY <1>3, <1>4

\* As many places as elements.
LEMMA NoTwiceLength ==
  ASSUME NEW C, NEW s \in Seq(C), NoTwice(s)
  PROVE  Len(s) = Cardinality(ToSet(s))
<1>1. Len(s) \in Nat /\ DOMAIN s = 1 .. Len(s) /\ s \in [1 .. Len(s) -> ToSet(s)]
  BY DEF ToSet
<1>2. s \in Bijection(1 .. Len(s), ToSet(s))
  BY <1>1 DEF NoTwice, ToSet, Bijection, Injection, Surjection, IsInjective
<1>3. ExistsBijection(1 .. Len(s), ToSet(s))
  BY <1>2 DEF ExistsBijection
<1>4. IsFiniteSet(1 .. Len(s)) /\ Cardinality(1 .. Len(s)) = Len(s)
  <2> DEFINE n == Len(s)
  <2>1. n \in Nat
    BY <1>1
  <2> HIDE DEF n
  <2>2. IsFiniteSet(1 .. n) /\ Cardinality(1 .. n) = n
    BY <2>1, FS_Interval
  <2> QED BY <2>2 DEF n
<1> QED BY <1>3, <1>4, FS_Bijection

------------------------------------------------------------------------------
(***************************************************************************)
(* Layouts.  C is what may be in a tab.                                    *)
(***************************************************************************)
LayoutFields == {"groups", "focused", "tabs", "active", "preview", "next"}

\* A group: it shows one of its tabs as long as it has any.
GroupFits(tabs, active, preview, C) ==
  /\ tabs \in Seq(C) /\ NoTwice(tabs)
  /\ active \in ToSet(tabs) \cup {Null} /\ preview \in ToSet(tabs) \cup {Null}
  /\ active = Null <=> tabs = <<>>

LayoutFits(L, C) ==
  /\ DOMAIN L = LayoutFields
  /\ L.groups \in Seq(Nat) /\ NoTwice(L.groups)
  /\ L.next \in Nat /\ \A g \in GroupsOf(L) : g < L.next
  /\ L.focused \in GroupsOf(L)
  /\ DOMAIN L.tabs = GroupsOf(L) /\ DOMAIN L.active = GroupsOf(L)
  /\ DOMAIN L.preview = GroupsOf(L)
  /\ \A g \in GroupsOf(L) : GroupFits(L.tabs[g], L.active[g], L.preview[g], C)

\* Then the layout is well-formed, and shows one of C or nothing.
LEMMA LayoutIsWellFormed ==
  ASSUME NEW C, Null \notin C, NEW L, LayoutFits(L, C)
  PROVE  /\ WellFormedLayout(L)
         /\ \A g \in GroupsOf(L) : L.active[g] \in C \cup {Null} /\ ToSet(L.tabs[g]) \subseteq C
         /\ \A g : ToSet(TabsIn(L, g)) \subseteq C
<1>1. /\ L.groups # <<>> /\ Len(L.groups) = Cardinality(GroupsOf(L))
  <2>1. L.groups \in Seq(Nat) /\ NoTwice(L.groups) /\ GroupsOf(L) # {}
    BY DEF LayoutFits
  <2> QED BY <2>1, NoTwiceLength, Elements DEF GroupsOf
<1>2. ASSUME NEW g \in GroupsOf(L)
      PROVE  /\ Len(L.tabs[g]) = Cardinality(ToSet(L.tabs[g]))
             /\ L.active[g] # Null => HasTab(L, g, L.active[g])
             /\ L.preview[g] # Null => HasTab(L, g, L.preview[g])
             /\ L.active[g] = Null <=> L.tabs[g] = <<>>
             /\ L.active[g] \in C \cup {Null} /\ ToSet(L.tabs[g]) \subseteq C
  <2>1. GroupFits(L.tabs[g], L.active[g], L.preview[g], C) /\ TabsIn(L, g) = L.tabs[g]
    BY DEF LayoutFits, TabsIn
  <2>2. L.tabs[g] \in Seq(C) /\ NoTwice(L.tabs[g])
    BY <2>1 DEF GroupFits
  <2>3. /\ Len(L.tabs[g]) = Cardinality(ToSet(L.tabs[g])) /\ ToSet(L.tabs[g]) \subseteq C
        /\ \A x : Contains(L.tabs[g], x) <=> x \in ToSet(L.tabs[g])
    BY <2>2, NoTwiceLength, Elements
  <2> QED BY <2>1, <2>3 DEF GroupFits, HasTab
<1>3. \A g : g \notin GroupsOf(L) => ToSet(TabsIn(L, g)) = {}
  BY Elements DEF TabsIn, ToSet
<1>4. \A g \in GroupsOf(L) : TabsIn(L, g) = L.tabs[g]
  BY DEF TabsIn
<1>5. WellFormedLayout(L)
  BY <1>1, <1>2 DEF LayoutFits, WellFormedLayout
<1> QED BY <1>2, <1>3, <1>4, <1>5

\* The tabs of a group that is there, and those of one that is not.
LEMMA TabsOfGroups ==
  ASSUME NEW C, NEW L, LayoutFits(L, C)
  PROVE  /\ \A g \in GroupsOf(L) :
              /\ GroupFits(L.tabs[g], L.active[g], L.preview[g], C)
              /\ L.tabs[g] \in Seq(C) /\ NoTwice(L.tabs[g])
              /\ \A d : HasTab(L, g, d) <=> d \in ToSet(L.tabs[g])
         /\ \A g, d : HasTab(L, g, d) => g \in GroupsOf(L)
<1>1. ASSUME NEW g \in GroupsOf(L)
      PROVE  /\ GroupFits(L.tabs[g], L.active[g], L.preview[g], C)
             /\ L.tabs[g] \in Seq(C) /\ NoTwice(L.tabs[g])
             /\ \A d : HasTab(L, g, d) <=> d \in ToSet(L.tabs[g])
  <2>1. /\ GroupFits(L.tabs[g], L.active[g], L.preview[g], C)
        /\ L.tabs[g] \in Seq(C) /\ NoTwice(L.tabs[g])
    BY DEF LayoutFits, GroupFits
  <2>2. \A d : Contains(L.tabs[g], d) <=> d \in ToSet(L.tabs[g])
    BY <2>1, Elements
  <2> QED BY <2>1, <2>2 DEF HasTab, TabsIn
<1>2. \A g, d : HasTab(L, g, d) => g \in GroupsOf(L)
  <2>1. \A d : ~Contains(<<>>, d)
    BY DEF Contains
  <2> QED BY <2>1 DEF HasTab, TabsIn
<1> QED BY <1>1, <1>2

\* One group changes, and the focus.
LEMMA OneGroup ==
  ASSUME NEW C, NEW L, LayoutFits(L, C), NEW q, DOMAIN q = LayoutFields,
         q.groups = L.groups, q.next = L.next, q.focused \in GroupsOf(L),
         NEW g \in GroupsOf(L), NEW t, NEW a, NEW v, GroupFits(t, a, v, C),
         q.tabs = [L.tabs EXCEPT ![g] = t], q.active = [L.active EXCEPT ![g] = a],
         q.preview = [L.preview EXCEPT ![g] = v]
  PROVE  LayoutFits(q, C)
<1>1. GroupsOf(q) = GroupsOf(L)
  BY DEF GroupsOf
<1>2. /\ DOMAIN q.tabs = GroupsOf(L) /\ DOMAIN q.active = GroupsOf(L)
      /\ DOMAIN q.preview = GroupsOf(L)
  BY DEF LayoutFits
<1>3. ASSUME NEW h \in GroupsOf(L)
      PROVE  GroupFits(q.tabs[h], q.active[h], q.preview[h], C)
  <2>1. h = g => q.tabs[h] = t /\ q.active[h] = a /\ q.preview[h] = v
    BY DEF LayoutFits
  <2>2. h # g => /\ q.tabs[h] = L.tabs[h] /\ q.active[h] = L.active[h]
                 /\ q.preview[h] = L.preview[h]
    BY DEF LayoutFits
  <2> QED BY <2>1, <2>2 DEF LayoutFits
<1>4. /\ L.groups \in Seq(Nat) /\ NoTwice(L.groups)
      /\ L.next \in Nat /\ \A h \in GroupsOf(L) : h < L.next
  BY DEF LayoutFits
<1>5. \A h \in GroupsOf(q) : GroupFits(q.tabs[h], q.active[h], q.preview[h], C)
  BY <1>1, <1>3
<1> QED BY <1>1, <1>2, <1>4, <1>5, Zenon DEF LayoutFits

\* A tab is taken out of its group, and joins one.
LEMMA TabLeaves ==
  ASSUME NEW C, Null \notin C, NEW t, NEW a, NEW v, GroupFits(t, a, v, C), NEW d \in ToSet(t)
  PROVE  LET left == Without(t, {d})
         IN /\ GroupFits(left, IF a = d THEN InPlaceOf(left, IndexOf(t, d)) ELSE a,
                         IF v = d THEN Null ELSE v, C)
            /\ d \in C
<1> DEFINE left == Without(t, {d})
           i == IndexOf(t, d)
<1>1. t \in Seq(C) /\ NoTwice(t)
  BY DEF GroupFits
<1>2. /\ left \in Seq(C) /\ NoTwice(left) /\ ToSet(left) = ToSet(t) \ {d}
  BY <1>1, FilterNoTwice
<1>3. ToSet(t) \subseteq C /\ i \in Nat \ {0} /\ (t = <<>> <=> ToSet(t) = {})
  <2>1. /\ ToSet(t) \subseteq C /\ i \in 1 .. Len(t) /\ Len(t) \in Nat
        /\ t = <<>> <=> ToSet(t) = {}
    BY <1>1, Elements
  <2> HIDE DEF i
  <2> QED BY <2>1
<1> HIDE DEF left, i
<1>4. /\ left = <<>> <=> ToSet(left) = {}
      /\ left # <<>> => InPlaceOf(left, i) \in ToSet(left)
      /\ left = <<>> => InPlaceOf(left, i) = Null
  BY <1>2, <1>3, Elements
<1>5. CASE a = d
  BY <1>2, <1>3, <1>4, <1>5 DEF GroupFits, left, i
<1>6. CASE a # d
  BY <1>2, <1>3, <1>4, <1>6 DEF GroupFits, left, i
<1> QED BY <1>5, <1>6

\* A tab joins a group and is the one shown; it may be the preview.
LEMMA TabJoins ==
  ASSUME NEW C, Null \notin C, NEW t \in Seq(C), NoTwice(t), NEW d \in C, d \notin ToSet(t),
         NEW v \in {d, Null}
  PROVE  /\ GroupFits(Append(t, d), d, v, C)
         /\ \A i \in 1 .. Len(t) + 1 : GroupFits(InsertAt(t, i, d), d, v, C)
<1>1. ASSUME NEW u \in Seq(C), NoTwice(u), ToSet(u) = ToSet(t) \cup {d}
      PROVE  GroupFits(u, d, v, C)
  <2>1. u # <<>>
    BY <1>1, Elements
  <2> QED BY <1>1, <2>1 DEF GroupFits
<1>2. /\ Append(t, d) \in Seq(C) /\ NoTwice(Append(t, d))
      /\ ToSet(Append(t, d)) = ToSet(t) \cup {d}
      /\ \A i \in 1 .. Len(t) + 1 :
           /\ InsertAt(t, i, d) \in Seq(C) /\ NoTwice(InsertAt(t, i, d))
           /\ ToSet(InsertAt(t, i, d)) = ToSet(t) \cup {d}
  BY AddNoTwice
<1>3. GroupFits(Append(t, d), d, v, C)
  BY <1>1, <1>2
<1>4. \A i \in 1 .. Len(t) + 1 : GroupFits(InsertAt(t, i, d), d, v, C)
  BY <1>1, <1>2
<1> QED BY <1>3, <1>4

------------------------------------------------------------------------------
(***************************************************************************)
(* The operations.                                                         *)
(***************************************************************************)
\* One empty group.
LEMMA EmptyFits ==
  ASSUME NEW C
  PROVE  LayoutFits(EmptyLayout, C)
<1> DEFINE L == EmptyLayout
           one == <<1>>
           none == <<>>
<1>1. /\ DOMAIN L = LayoutFields /\ L.groups = one /\ L.focused = 1 /\ L.next = 2
      /\ L.tabs = [g \in {1} |-> none] /\ L.active = [g \in {1} |-> Null]
      /\ L.preview = [g \in {1} |-> Null]
  BY DEF EmptyLayout, LayoutFields
<1>2. one \in Seq(Nat) /\ NoTwice(one) /\ ToSet(one) = {1}
  <2>1. DOMAIN one = {1} /\ one[1] = 1 /\ one \in Seq(Nat)
    OBVIOUS
  <2> QED BY <2>1 DEF NoTwice, ToSet
<1>3. GroupFits(none, Null, Null, C)
  <2>1. none \in Seq(C) /\ DOMAIN none = {}
    OBVIOUS
  <2> QED BY <2>1 DEF GroupFits, NoTwice
<1> HIDE DEF L, one, none
<1>4. GroupsOf(L) = {1}
  BY <1>1, <1>2 DEF GroupsOf
<1>5. LayoutFits(L, C)
  BY <1>1, <1>2, <1>3, <1>4 DEF LayoutFits
<1> QED BY <1>5 DEF L

\* A class opens in a group: its preview tab may leave for it.
LEMMA OpenFits ==
  ASSUME NEW C, Null \notin C, NEW L, LayoutFits(L, C), NEW d \in C, NEW g \in GroupsOf(L),
         NEW preview
  PROVE  LayoutFits(OpenTab(L, d, g, preview), C)
<1> DEFINE q == OpenTab(L, d, g, preview)
           shut == {ReplacedPreview(L, d, g, preview)}
           t == Without(L.tabs[g], shut)
<1>0. DOMAIN L = LayoutFields /\ DOMAIN L.tabs = GroupsOf(L)
      /\ DOMAIN L.active = GroupsOf(L) /\ DOMAIN L.preview = GroupsOf(L)
  BY DEF LayoutFits
<1>1. /\ GroupFits(L.tabs[g], L.active[g], L.preview[g], C)
      /\ L.tabs[g] \in Seq(C) /\ NoTwice(L.tabs[g])
      /\ HasTab(L, g, d) <=> d \in ToSet(L.tabs[g])
  BY TabsOfGroups
<1>2. CASE HasTab(L, g, d)
  <2> DEFINE v == IF ~preview /\ L.preview[g] = d THEN Null ELSE L.preview[g]
  <2>1. /\ DOMAIN q = LayoutFields /\ q.groups = L.groups /\ q.next = L.next /\ q.focused = g
        /\ q.tabs = L.tabs /\ q.active = [L.active EXCEPT ![g] = d]
        /\ q.preview = [L.preview EXCEPT ![g] = v]
    BY <1>0, <1>2 DEF OpenTab, LayoutFields
  <2> HIDE DEF q
  <2>2. GroupFits(L.tabs[g], d, v, C)
    <3>1. L.tabs[g] # <<>> /\ d # Null
      BY <1>1, <1>2, Elements
    <3> QED BY <1>1, <1>2, <3>1 DEF GroupFits
  <2> HIDE DEF v
  <2>3. \A h \in GroupsOf(L) :
          /\ q.active[h] = (IF h = g THEN d ELSE L.active[h])
          /\ q.preview[h] = (IF h = g THEN v ELSE L.preview[h])
    BY <1>0, <2>1
  <2>4. \A h \in GroupsOf(L) : GroupFits(q.tabs[h], q.active[h], q.preview[h], C)
    BY <2>1, <2>2, <2>3, TabsOfGroups
  <2>5. GroupsOf(q) = GroupsOf(L)
    BY <2>1 DEF GroupsOf
  <2> QED BY <1>0, <2>1, <2>4, <2>5 DEF LayoutFits, q
<1>3. CASE ~HasTab(L, g, d)
  <2> DEFINE v == IF preview THEN d ELSE Null
  <2>1. /\ DOMAIN q = LayoutFields /\ q.groups = L.groups /\ q.next = L.next /\ q.focused = g
        /\ q.tabs = [L.tabs EXCEPT ![g] = Append(t, d)]
        /\ q.active = [L.active EXCEPT ![g] = d]
        /\ q.preview = [L.preview EXCEPT ![g] = v]
    BY <1>0, <1>3 DEF OpenTab, LayoutFields
  <2> HIDE DEF q
  <2>2. t \in Seq(C) /\ NoTwice(t) /\ d \notin ToSet(t) /\ v \in {d, Null}
    BY <1>1, <1>3, FilterNoTwice
  <2> HIDE DEF t, v
  <2>3. GroupFits(Append(t, d), d, v, C)
    BY <2>2, TabJoins
  <2> DEFINE u == Append(t, d)
  <2> HIDE DEF u
  <2> QED BY <2>1, <2>3, OneGroup DEF q, u
<1> QED BY <1>2, <1>3

\* The focus moves to a group that is there.
LEMMA FocusFits ==
  ASSUME NEW C, NEW L, LayoutFits(L, C), NEW g
  PROVE  LayoutFits(FocusGroup(L, g), C)
<1> DEFINE q == [L EXCEPT !.focused = g]
<1>1. /\ DOMAIN q = LayoutFields /\ q.groups = L.groups /\ q.next = L.next /\ q.focused = g
      /\ q.tabs = L.tabs /\ q.active = L.active /\ q.preview = L.preview
  BY DEF LayoutFits, LayoutFields
<1> HIDE DEF q
<1>2. GroupsOf(q) = GroupsOf(L)
  BY <1>1 DEF GroupsOf
<1>3. g \in GroupsOf(L) => LayoutFits(q, C)
  BY <1>1, <1>2 DEF LayoutFits
<1> QED BY <1>3 DEF FocusGroup, q

\* A preview tab becomes a tab like the others.
LEMMA PromoteFits ==
  ASSUME NEW C, NEW L, LayoutFits(L, C), NEW d, NEW g
  PROVE  LayoutFits(PromoteTab(L, d, g), C)
<1> DEFINE q == [L EXCEPT !.preview[g] = Null]
<1>1. CASE g \in GroupsOf(L)
  <2>1. /\ DOMAIN q = LayoutFields /\ q.groups = L.groups /\ q.next = L.next
        /\ q.focused = L.focused /\ q.tabs = L.tabs /\ q.active = L.active
        /\ q.preview = [L.preview EXCEPT ![g] = Null]
    BY DEF LayoutFits, LayoutFields
  <2> HIDE DEF q
  <2>2. DOMAIN L.preview = GroupsOf(L)
    BY DEF LayoutFits
  <2>3. \A h \in GroupsOf(L) : q.preview[h] \in {L.preview[h], Null}
    BY <2>1, <2>2
  <2>4. \A h \in GroupsOf(L) : GroupFits(q.tabs[h], q.active[h], q.preview[h], C)
    BY <2>1, <2>3, TabsOfGroups DEF GroupFits
  <2>5. GroupsOf(q) = GroupsOf(L) /\ DOMAIN q.preview = GroupsOf(L)
    BY <2>1, <2>2 DEF GroupsOf
  <2>6. LayoutFits(q, C)
    BY <2>1, <2>4, <2>5 DEF LayoutFits
  <2> QED BY <2>6 DEF PromoteTab, q
<1>2. CASE g \notin GroupsOf(L)
  BY <1>2 DEF PromoteTab
<1> QED BY <1>1, <1>2

\* A group leaves, with its tabs; the one in its place gets the focus.
LEMMA CloseGroupFits ==
  ASSUME NEW C, NEW L, LayoutFits(L, C), NEW g
  PROVE  LayoutFits(CloseGroup(L, g), C)
<1> DEFINE left == Without(L.groups, {g})
           keep == ToSet(left)
           f == IF L.focused = g THEN InPlaceOf(left, IndexOf(L.groups, g)) ELSE L.focused
           q == [L EXCEPT !.groups  = left,
                    !.focused = IF @ = g
                                THEN InPlaceOf(left, IndexOf(L.groups, g)) ELSE @,
                    !.tabs    = Restrict(@, keep),
                    !.active  = Restrict(@, keep),
                    !.preview = Restrict(@, keep)]
<1>1. CASE g \notin GroupsOf(L) \/ Len(L.groups) = 1
  BY <1>1 DEF CloseGroup
<1>2. CASE ~(g \notin GroupsOf(L) \/ Len(L.groups) = 1)
  <2>1. CloseGroup(L, g) = q
    BY <1>2 DEF CloseGroup
  <2>2. /\ DOMAIN q = LayoutFields /\ q.groups = left /\ q.next = L.next /\ q.focused = f
        /\ q.tabs = [h \in keep |-> L.tabs[h]] /\ q.active = [h \in keep |-> L.active[h]]
        /\ q.preview = [h \in keep |-> L.preview[h]]
    BY DEF LayoutFits, LayoutFields, Restrict
  <2>3. L.groups \in Seq(Nat) /\ NoTwice(L.groups) /\ g \in ToSet(L.groups)
    BY <1>2 DEF LayoutFits, GroupsOf
  <2>4. left \in Seq(Nat) /\ NoTwice(left) /\ keep = ToSet(L.groups) \ {g}
    BY <2>3, FilterNoTwice
  <2>5. keep # {}
    <3>1. Cardinality(ToSet(L.groups)) # 1
      BY <1>2, <2>3, NoTwiceLength
    <3>2. Cardinality({g}) = 1
      BY FS_Singleton
    <3> QED BY <2>3, <2>4, <3>1, <3>2
  <2>6. f \in keep
    <3>1. IndexOf(L.groups, g) \in Nat \ {0}
      <4> DEFINE i == IndexOf(L.groups, g)
      <4>1. i \in 1 .. Len(L.groups) /\ Len(L.groups) \in Nat
        BY <2>3, Elements
      <4> HIDE DEF i
      <4>2. i \in Nat \ {0}
        BY <4>1
      <4> QED BY <4>2 DEF i
    <3> HIDE DEF left
    <3>2. left # <<>> /\ (left # <<>> => InPlaceOf(left, IndexOf(L.groups, g)) \in ToSet(left))
      BY <2>4, <2>5, <3>1, Elements
    <3>3. L.focused \in ToSet(L.groups)
      BY DEF LayoutFits, GroupsOf
    <3> QED BY <2>4, <3>2, <3>3
  <2> HIDE DEF q, f
  <2>7. GroupsOf(q) = keep /\ keep \subseteq GroupsOf(L)
    BY <2>2, <2>4 DEF GroupsOf
  <2> HIDE DEF keep, left
  <2>8. \A h \in keep : GroupFits(q.tabs[h], q.active[h], q.preview[h], C)
    BY <2>2, <2>7, TabsOfGroups
  <2>9. L.next \in Nat /\ \A h \in keep : h < L.next
    BY <2>7 DEF LayoutFits
  <2>10. LayoutFits(q, C)
    BY <2>2, <2>4, <2>6, <2>7, <2>8, <2>9 DEF LayoutFits
  <2> QED BY <2>1, <2>10
<1> QED BY <1>1, <1>2

\* A tab is closed, and its group if it was the last one there.
LEMMA CloseTabFits ==
  ASSUME NEW C, Null \notin C, NEW L, LayoutFits(L, C), NEW g, NEW d
  PROVE  LayoutFits(CloseTab(L, g, d), C)
<1> DEFINE left == Without(L.tabs[g], {d})
           a == IF L.active[g] = d THEN InPlaceOf(left, IndexOf(L.tabs[g], d)) ELSE L.active[g]
           v == IF L.preview[g] = d THEN Null ELSE L.preview[g]
           q == [L EXCEPT !.tabs[g]    = left,
                      !.active[g]  = IF @ = d
                                     THEN InPlaceOf(left, IndexOf(L.tabs[g], d))
                                     ELSE @,
                      !.preview[g] = IF @ = d THEN Null ELSE @]
<1>1. CASE ~HasTab(L, g, d)
  BY <1>1 DEF CloseTab
<1>2. CASE HasTab(L, g, d)
  <2>1. CloseTab(L, g, d) = CloseIfEmpty(q, g)
    BY <1>2 DEF CloseTab
  <2>2. g \in GroupsOf(L) /\ GroupFits(L.tabs[g], L.active[g], L.preview[g], C)
        /\ d \in ToSet(L.tabs[g])
    BY <1>2, TabsOfGroups
  <2>3. GroupFits(left, a, v, C)
    BY <2>2, TabLeaves
  <2>4. /\ DOMAIN q = LayoutFields /\ q.groups = L.groups /\ q.next = L.next
        /\ q.focused = L.focused /\ L.focused \in GroupsOf(L)
        /\ q.tabs = [L.tabs EXCEPT ![g] = left] /\ q.active = [L.active EXCEPT ![g] = a]
        /\ q.preview = [L.preview EXCEPT ![g] = v]
    BY <2>2 DEF LayoutFits, LayoutFields
  <2> HIDE DEF q, left, a, v
  <2>5. LayoutFits(q, C)
    BY <2>2, <2>3, <2>4, OneGroup
  <2>6. LayoutFits(CloseIfEmpty(q, g), C)
    BY <2>5, CloseGroupFits DEF CloseIfEmpty
  <2> QED BY <2>1, <2>6
<1> QED BY <1>1, <1>2

\* Tabs of classes that may not keep them go, wherever they are.
LEMMA RetainFits ==
  ASSUME NEW C, Null \notin C, NEW L, LayoutFits(L, C), NEW D
  PROVE  LayoutFits(RetainTabs(L, D), C)
<1> DEFINE q == RetainTabs(L, D)
           kept(g) == Within(L.tabs[g], D)
           out(g, d) == d # Null /\ ~Contains(kept(g), d)
           a(g) == IF out(g, L.active[g]) THEN LastOf(kept(g)) ELSE L.active[g]
           v(g) == IF out(g, L.preview[g]) THEN Null ELSE L.preview[g]
<1>1. /\ DOMAIN q = LayoutFields /\ q.groups = L.groups /\ q.next = L.next
      /\ q.focused = L.focused
      /\ q.tabs = [g \in GroupsOf(L) |-> kept(g)]
      /\ q.active = [g \in GroupsOf(L) |-> a(g)]
      /\ q.preview = [g \in GroupsOf(L) |-> v(g)]
  BY DEF RetainTabs, LayoutFits, LayoutFields
<1>2. GroupsOf(q) = GroupsOf(L)
  BY <1>1 DEF GroupsOf
<1>3. ASSUME NEW g \in GroupsOf(L)
      PROVE  GroupFits(kept(g), a(g), v(g), C)
  <2> DEFINE k == kept(g)
  <2>1. /\ GroupFits(L.tabs[g], L.active[g], L.preview[g], C)
        /\ L.tabs[g] \in Seq(C) /\ NoTwice(L.tabs[g])
    BY TabsOfGroups
  <2>2. k \in Seq(C) /\ NoTwice(k) /\ ToSet(k) = ToSet(L.tabs[g]) \cap D
    BY <2>1, FilterNoTwice
  <2>3. k = kept(g)
    OBVIOUS
  <2> HIDE DEF k
  <2>4. /\ \A x : Contains(k, x) <=> x \in ToSet(k)
        /\ k # <<>> => Last(k) \in ToSet(k)
        /\ k = <<>> <=> ToSet(k) = {}
        /\ ToSet(k) \subseteq C
    BY <2>2, Elements
  <2>5. L.tabs[g] = <<>> <=> ToSet(L.tabs[g]) = {}
    BY <2>1, Elements
  <2>6. LastOf(k) \in ToSet(k) \cup {Null} /\ (LastOf(k) = Null <=> k = <<>>)
    BY <2>4 DEF LastOf
  <2> HIDE DEF kept
  <2>7. GroupFits(k, a(g), v(g), C)
    BY <2>1, <2>2, <2>3, <2>4, <2>5, <2>6 DEF GroupFits
  <2> QED BY <2>3, <2>7
<1>4. /\ L.groups \in Seq(Nat) /\ NoTwice(L.groups) /\ L.focused \in GroupsOf(L)
      /\ L.next \in Nat /\ \A h \in GroupsOf(L) : h < L.next
  BY DEF LayoutFits
<1> HIDE DEF q, kept, a, v
<1>5. \A g \in GroupsOf(L) : GroupFits(q.tabs[g], q.active[g], q.preview[g], C)
  BY <1>1, <1>3
<1>6. LayoutFits(q, C)
  BY <1>1, <1>2, <1>4, <1>5 DEF LayoutFits
<1> QED BY <1>6 DEF q

\* The tabs of a group are put in another order, pinned ones first.
LEMMA OrderFits ==
  ASSUME NEW C, NEW L, LayoutFits(L, C), NEW P
  PROVE  LayoutFits(OrderPinned(L, P), C)
<1> DEFINE q == OrderPinned(L, P)
           order(t) == Within(t, P) \o Without(t, P)
<1>1. /\ DOMAIN q = LayoutFields /\ q.groups = L.groups /\ q.next = L.next
      /\ q.focused = L.focused /\ q.active = L.active /\ q.preview = L.preview
      /\ q.tabs = [g \in GroupsOf(L) |-> order(L.tabs[g])]
  BY DEF OrderPinned, LayoutFits, LayoutFields
<1>2. GroupsOf(q) = GroupsOf(L)
  BY <1>1 DEF GroupsOf
<1>3. ASSUME NEW t \in Seq(C), NoTwice(t)
      PROVE  order(t) \in Seq(C) /\ NoTwice(order(t)) /\ ToSet(order(t)) = ToSet(t)
  <2> DEFINE x == Within(t, P)
             y == Without(t, P)
  <2>1. /\ x \in Seq(C) /\ NoTwice(x) /\ ToSet(x) = ToSet(t) \cap P
        /\ y \in Seq(C) /\ NoTwice(y) /\ ToSet(y) = ToSet(t) \ P
    BY <1>3, FilterNoTwice
  <2>2. order(t) = x \o y
    OBVIOUS
  <2> HIDE DEF x, y, order
  <2>3. ToSet(x) \cap ToSet(y) = {} /\ ToSet(x) \cup ToSet(y) = ToSet(t)
    BY <2>1
  <2>4. x \o y \in Seq(C) /\ NoTwice(x \o y) /\ ToSet(x \o y) = ToSet(x) \cup ToSet(y)
    BY <2>1, <2>3, JoinNoTwice
  <2> QED BY <2>2, <2>3, <2>4
<1>4. ASSUME NEW g \in GroupsOf(L)
      PROVE  GroupFits(order(L.tabs[g]), L.active[g], L.preview[g], C)
  <2> DEFINE t == L.tabs[g]
             u == order(t)
  <2>1. /\ GroupFits(t, L.active[g], L.preview[g], C) /\ t \in Seq(C) /\ NoTwice(t)
    BY TabsOfGroups
  <2>2. u \in Seq(C) /\ NoTwice(u) /\ ToSet(u) = ToSet(t)
    BY <1>3, <2>1
  <2> HIDE DEF t, u
  <2>3. u = <<>> <=> t = <<>>
    BY <2>1, <2>2, Elements
  <2>4. GroupFits(u, L.active[g], L.preview[g], C)
    BY <2>1, <2>2, <2>3 DEF GroupFits
  <2> QED BY <2>4 DEF u, t
<1>5. /\ L.groups \in Seq(Nat) /\ NoTwice(L.groups) /\ L.focused \in GroupsOf(L)
      /\ L.next \in Nat /\ \A h \in GroupsOf(L) : h < L.next
      /\ DOMAIN L.active = GroupsOf(L) /\ DOMAIN L.preview = GroupsOf(L)
  BY DEF LayoutFits
<1> HIDE DEF q, order
<1>6. \A g \in GroupsOf(L) : GroupFits(q.tabs[g], q.active[g], q.preview[g], C)
  BY <1>1, <1>4
<1>7. LayoutFits(q, C)
  BY <1>1, <1>2, <1>5, <1>6 DEF LayoutFits
<1> QED BY <1>7 DEF q

\* The tabs of D are closed one after the other: the layouts in between,
\* after[k] of RemoveTabs, exist for every k because a least k without one has
\* a predecessor, and they fit for every k for the same reason.
LEMMA RemoveFits ==
  ASSUME NEW C, Null \notin C, NEW L, LayoutFits(L, C), NEW g, NEW D
  PROVE  LayoutFits(RemoveTabs(L, g, D), C)
<1> DEFINE tabs == TabsIn(L, g)
           n == Len(tabs)
           close(k, M) == IF tabs[k] \in D THEN CloseTab(M, g, tabs[k]) ELSE M
           Runs(f, m) == f = [k \in 0 .. m |-> IF k = 0 THEN L ELSE close(k, f[k - 1])]
           after == CHOOSE f : Runs(f, n)
<1>1. n \in Nat
  <2>1. g \in GroupsOf(L) => tabs \in Seq(C)
    BY TabsOfGroups DEF TabsIn
  <2>2. g \notin GroupsOf(L) => tabs = <<>>
    BY DEF TabsIn
  <2> QED BY <2>1, <2>2
<1>2. RemoveTabs(L, g, D) = after[n]
  BY Zenon DEF RemoveTabs
<1>3. \A k, M : LayoutFits(M, C) => LayoutFits(close(k, M), C)
  BY CloseTabFits
<1> HIDE DEF tabs, close, n
<1>4. \A m \in Nat : \E f : Runs(f, m)
  <2> DEFINE none == {m \in Nat : ~ \E f : Runs(f, m)}
  <2> SUFFICES ASSUME none # {} PROVE FALSE
    OBVIOUS
  <2>1. PICK m \in none : \A j \in none : m <= j
    <3>1. none \in SUBSET Nat /\ none # {}
      OBVIOUS
    <3> HIDE DEF none
    <3> QED BY <3>1, HasLeast
  <2>2. m # 0
    <3> DEFINE f == [k \in 0 .. 0 |-> L]
    <3>1. Runs(f, 0)
      OBVIOUS
    <3> QED BY <3>1
  <2>3. m - 1 \in Nat /\ ~(m <= m - 1)
    BY <2>2
  <2>4. PICK f : Runs(f, m - 1)
    BY <2>1, <2>3
  <2> DEFINE h == [k \in 0 .. m |-> IF k = 0 THEN L ELSE close(k, f[k - 1])]
  <2>5. \A k \in 0 .. m - 1 : h[k] = f[k]
    BY <2>4
  <2>6. \A k \in 0 .. m : k # 0 => k - 1 \in 0 .. m - 1
    BY <2>3
  <2>7. Runs(h, m)
    BY <2>5, <2>6
  <2> QED BY <2>7
<1>5. Runs(after, n)
  BY <1>1, <1>4
<1> HIDE DEF after
<1>6. after[0] = L /\ \A k \in 1 .. n : after[k] = close(k, after[k - 1])
  <2>1. \A k \in 0 .. n : after[k] = IF k = 0 THEN L ELSE close(k, after[k - 1])
    BY <1>5
  <2>2. 0 \in 0 .. n /\ \A k \in 1 .. n : k \in 0 .. n /\ k # 0
    BY <1>1
  <2> QED BY <2>1, <2>2
<1> HIDE DEF Runs
<1>7. \A k \in 0 .. n : LayoutFits(after[k], C)
  <2> DEFINE bad == {k \in 0 .. n : ~LayoutFits(after[k], C)}
  <2> SUFFICES ASSUME bad # {} PROVE FALSE
    OBVIOUS
  <2>1. PICK k \in bad : \A j \in bad : k <= j
    <3>1. bad \in SUBSET Nat /\ bad # {}
      OBVIOUS
    <3> HIDE DEF bad
    <3> QED BY <3>1, HasLeast
  <2>2. k \in 1 .. n /\ k - 1 \in 0 .. n /\ ~(k <= k - 1)
    BY <1>1, <1>6, <2>1
  <2>3. LayoutFits(after[k - 1], C)
    BY <2>1, <2>2
  <2> QED BY <1>3, <1>6, <2>1, <2>2, <2>3
<1> QED BY <1>1, <1>2, <1>7

\* A tab moves: what it leaves goes on with another tab, or closes.
LEMMA MoveFits ==
  ASSUME NEW C, Null \notin C, NEW L, LayoutFits(L, C), NEW d, NEW source, NEW target,
         NEW before
  PROVE  LayoutFits(MoveTab(L, d, source, target, before), C)
<1> DEFINE left == [L.tabs EXCEPT ![source] = Without(@, {d})]
           into == Without(left[target], {d})
           spot == IF Contains(into, before) THEN IndexOf(into, before) ELSE Len(into) + 1
           next == IF source # target /\ L.active[source] = d
                   THEN InPlaceOf(left[source], IndexOf(L.tabs[source], d))
                   ELSE L.active[source]
           v == IF L.preview[source] = d THEN Null ELSE L.preview[source]
           new == InsertAt(into, spot, d)
           q == [L EXCEPT !.focused = target,
                       !.tabs    = [left EXCEPT ![target] = InsertAt(into, spot, d)],
                       !.active[source]  = next,
                       !.active[target]  = d,
                       !.preview[source] = IF @ = d THEN Null ELSE @,
                       !.preview[target] = Null]
<1>1. CASE ~HasTab(L, source, d) \/ target \notin GroupsOf(L)
  BY <1>1 DEF MoveTab
<1>2. CASE HasTab(L, source, d) /\ target \in GroupsOf(L)
  <2>0. MoveTab(L, d, source, target, before)
          = IF source # target THEN CloseIfEmpty(q, source) ELSE q
    BY <1>2 DEF MoveTab
  <2>1. /\ source \in GroupsOf(L) /\ d \in ToSet(L.tabs[source])
        /\ GroupFits(L.tabs[source], L.active[source], L.preview[source], C)
        /\ \A h \in GroupsOf(L) : /\ L.tabs[h] \in Seq(C) /\ NoTwice(L.tabs[h])
                                  /\ GroupFits(L.tabs[h], L.active[h], L.preview[h], C)
    BY <1>2, TabsOfGroups
  <2>2. /\ DOMAIN L.tabs = GroupsOf(L) /\ DOMAIN L.active = GroupsOf(L)
        /\ DOMAIN L.preview = GroupsOf(L) /\ DOMAIN L = LayoutFields
    BY DEF LayoutFits
  <2>3. /\ left[source] = Without(L.tabs[source], {d})
        /\ \A h \in GroupsOf(L) : h # source => left[h] = L.tabs[h]
        /\ DOMAIN left = GroupsOf(L)
    BY <2>1, <2>2
  <2>4. source # target => GroupFits(left[source], next, v, C)
    <3> DEFINE t == L.tabs[source]
               a == L.active[source]
               w == Without(t, {d})
    <3>1. GroupFits(w, IF a = d THEN InPlaceOf(w, IndexOf(t, d)) ELSE a, v, C)
      BY <2>1, TabLeaves
    <3>2. left[source] = w
      BY <2>3
    <3>3. source # target => next = IF a = d THEN InPlaceOf(w, IndexOf(t, d)) ELSE a
      BY <3>2
    <3> HIDE DEF w, v, next, left
    <3> QED BY <3>1, <3>2, <3>3
  <2>5. d \in C
    BY <2>1, TabLeaves
  <2>6. left[target] \in Seq(C) /\ NoTwice(left[target])
    BY <1>2, <2>1, <2>3, FilterNoTwice
  <2>7. /\ DOMAIN q = LayoutFields /\ q.groups = L.groups /\ q.next = L.next
        /\ q.focused = target
        /\ q.tabs = [left EXCEPT ![target] = new]
        /\ q.active = [L.active EXCEPT ![source] = next, ![target] = d]
        /\ q.preview = [L.preview EXCEPT ![source] = v, ![target] = Null]
    BY <2>1, <2>2 DEF LayoutFields
  <2> HIDE DEF q, left, v, next
  <2>8. into \in Seq(C) /\ NoTwice(into) /\ d \notin ToSet(into)
    BY <2>6, FilterNoTwice
  <2> HIDE DEF into
  <2>9. spot \in 1 .. Len(into) + 1
    <3>1. /\ Len(into) \in Nat
          /\ Contains(into, before) => IndexOf(into, before) \in 1 .. Len(into)
      BY <2>8, Elements
    <3> QED BY <3>1
  <2> HIDE DEF spot
  <2>10. GroupFits(new, d, Null, C)
    BY <2>5, <2>8, <2>9, TabJoins
  <2> HIDE DEF new
  <2>11. ASSUME NEW h \in GroupsOf(L)
         PROVE  GroupFits(q.tabs[h], q.active[h], q.preview[h], C)
    <3>1. CASE h = target
      <4>1. q.tabs[h] = new /\ q.active[h] = d /\ q.preview[h] = Null
        BY <2>1, <2>2, <2>3, <2>7, <3>1
      <4> QED BY <2>10, <4>1
    <3>2. CASE h # target /\ h = source
      <4>1. q.tabs[h] = left[source] /\ q.active[h] = next /\ q.preview[h] = v
        BY <2>1, <2>2, <2>3, <2>7, <3>2
      <4> QED BY <2>4, <3>2, <4>1
    <3>3. CASE h # target /\ h # source
      <4>1. /\ q.tabs[h] = L.tabs[h] /\ q.active[h] = L.active[h]
            /\ q.preview[h] = L.preview[h]
        BY <2>1, <2>2, <2>3, <2>7, <3>3
      <4> QED BY <2>1, <4>1
    <3> QED BY <3>1, <3>2, <3>3
  <2>12. GroupsOf(q) = GroupsOf(L) /\ DOMAIN q.tabs = GroupsOf(L)
         /\ DOMAIN q.active = GroupsOf(L) /\ DOMAIN q.preview = GroupsOf(L)
    BY <2>2, <2>3, <2>7 DEF GroupsOf
  <2>13. /\ L.groups \in Seq(Nat) /\ NoTwice(L.groups)
         /\ L.next \in Nat /\ \A h \in GroupsOf(L) : h < L.next
    BY DEF LayoutFits
  <2>14. LayoutFits(q, C)
    BY <1>2, <2>7, <2>11, <2>12, <2>13 DEF LayoutFits
  <2>15. LayoutFits(CloseIfEmpty(q, source), C)
    BY <2>14, CloseGroupFits DEF CloseIfEmpty
  <2> QED BY <2>0, <2>14, <2>15
<1> QED BY <1>1, <1>2

\* A new group gets an id no group has had.
LEMMA SplitFits ==
  ASSUME NEW C, Null \notin C, NEW L, LayoutFits(L, C), NEW g, NEW d \in C \cup {Null}, NEW side
  PROVE  LayoutFits(SplitGroup(L, g, d, side), C)
<1> DEFINE new == L.next
           add(f, v) == [h \in DOMAIN f \cup {new} |-> IF h = new THEN v ELSE f[h]]
           at == IndexOf(L.groups, g) + (IF side = "before" THEN 0 ELSE 1)
           none == <<>>
           groups == InsertAt(L.groups, at, new)
           q == [groups  |-> groups,
                 focused |-> new,
                 tabs    |-> add(L.tabs, none),
                 active  |-> add(L.active, Null),
                 preview |-> add(L.preview, Null),
                 next    |-> new + 1]
<1>1. CASE g \notin GroupsOf(L)
  BY <1>1 DEF SplitGroup
<1>2. CASE g \in GroupsOf(L)
  <2>1. SplitGroup(L, g, d, side) = IF d = Null THEN q ELSE OpenTab(q, d, new, FALSE)
    BY <1>2 DEF SplitGroup
  <2>2. /\ L.groups \in Seq(Nat) /\ NoTwice(L.groups) /\ g \in ToSet(L.groups)
        /\ new \in Nat /\ \A h \in ToSet(L.groups) : h < new
        /\ DOMAIN L.tabs = ToSet(L.groups) /\ DOMAIN L.active = ToSet(L.groups)
        /\ DOMAIN L.preview = ToSet(L.groups) /\ ToSet(L.groups) \subseteq Nat
    BY <1>2, Elements DEF LayoutFits, GroupsOf
  <2>3. at \in 1 .. Len(L.groups) + 1
    <3> DEFINE i == IndexOf(L.groups, g)
    <3>1. i \in 1 .. Len(L.groups) /\ Len(L.groups) \in Nat
      BY <2>2, Elements
    <3> HIDE DEF i
    <3>2. i + (IF side = "before" THEN 0 ELSE 1) \in 1 .. Len(L.groups) + 1
      BY <3>1
    <3> QED BY <3>2 DEF i
  <2>4. new \notin ToSet(L.groups)
    BY <2>2
  <2> HIDE DEF at
  <2>5. /\ groups \in Seq(Nat) /\ NoTwice(groups)
        /\ ToSet(groups) = ToSet(L.groups) \cup {new}
    BY <2>2, <2>3, <2>4, AddNoTwice
  <2> HIDE DEF groups
  <2>6. /\ DOMAIN q = LayoutFields /\ q.groups = groups /\ q.focused = new /\ q.next = new + 1
        /\ q.tabs = add(L.tabs, none) /\ q.active = add(L.active, Null)
        /\ q.preview = add(L.preview, Null)
    BY DEF LayoutFields
  <2> HIDE DEF q
  <2>7. GroupsOf(q) = ToSet(L.groups) \cup {new}
    BY <2>5, <2>6 DEF GroupsOf
  <2>8. GroupFits(none, Null, Null, C)
    <3>1. none \in Seq(C) /\ DOMAIN none = {}
      OBVIOUS
    <3> QED BY <3>1 DEF GroupFits, NoTwice
  <2> HIDE DEF none
  <2>9. ASSUME NEW h \in GroupsOf(q)
        PROVE  GroupFits(q.tabs[h], q.active[h], q.preview[h], C)
    <3>1. CASE h = new
      <4>1. q.tabs[h] = none /\ q.active[h] = Null /\ q.preview[h] = Null
        BY <2>6, <3>1
      <4> QED BY <2>8, <4>1
    <3>2. CASE h # new
      <4>1. /\ h \in ToSet(L.groups) /\ q.tabs[h] = L.tabs[h] /\ q.active[h] = L.active[h]
            /\ q.preview[h] = L.preview[h]
        BY <2>2, <2>6, <2>7, <3>2
      <4> QED BY <4>1, TabsOfGroups DEF GroupsOf
    <3> QED BY <3>1, <3>2
  <2>10. /\ DOMAIN q.tabs = GroupsOf(q) /\ DOMAIN q.active = GroupsOf(q)
         /\ DOMAIN q.preview = GroupsOf(q)
    BY <2>2, <2>6, <2>7
  <2>11. q.next \in Nat /\ \A h \in GroupsOf(q) : h < q.next
    BY <2>2, <2>6, <2>7
  <2>12. LayoutFits(q, C) /\ new \in GroupsOf(q)
    BY <2>5, <2>6, <2>7, <2>9, <2>10, <2>11 DEF LayoutFits
  <2> QED BY <2>1, <2>12, OpenFits
<1> QED BY <1>1, <1>2

\* A tab is moved to a group that is made for it.
LEMMA SplitMoveFits ==
  ASSUME NEW C, Null \notin C, NEW L, LayoutFits(L, C), NEW d, NEW source, NEW target,
         NEW side
  PROVE  LayoutFits(SplitMove(L, d, source, target, side), C)
<1>1. Null \in C \cup {Null}
  OBVIOUS
<1>2. LayoutFits(SplitGroup(L, target, Null, side), C)
  BY <1>1, SplitFits
<1> QED BY <1>2, MoveFits DEF SplitMove
==============================================================================
