----------------------------- MODULE PickedProofs -----------------------------
(***************************************************************************)
(* Lemmas about Picked: what stays of a sequence stays in order, nothing   *)
(* else does, and nothing twice.                                           *)
(***************************************************************************)
EXTENDS Picked, SequencesExt, FiniteSetTheorems, SequenceTheorems,
        WellFoundedInduction, TLAPS

(* A set of numbers has a least one. *)
LEMMA Smallest ==
  ASSUME NEW T \in SUBSET Nat, T # {}
  PROVE  \E k \in T : \A j \in T : k <= j
<1> DEFINE Below == {0..k : k \in T}
           R == StrictSubsetOrdering(Nat)
<1>1. Below \subseteq FiniteSubsetsOf(Nat) /\ Below # {}
  <2>1. ASSUME NEW k \in T
        PROVE  0..k \in FiniteSubsetsOf(Nat)
    <3>1. k \in Int /\ 0 \in Int
      OBVIOUS
    <3>2. IsFiniteSet(0..k)
      BY <3>1, FS_Interval
    <3> QED
      BY <3>2 DEF FiniteSubsetsOf
  <2> QED
    BY <2>1
<1>2. PICK m \in Below : \A b \in Below : ~ (<<b, m>> \in R)
  <2>1. IsWellFoundedOn(R, FiniteSubsetsOf(Nat))
    BY FS_StrictSubsetOrderingWellFounded
  <2> HIDE DEF R, Below
  <2> QED
    BY <1>1, <2>1, WFMin
<1>3. PICK k \in T : m = 0..k
  OBVIOUS
<1>4. ASSUME NEW j \in T, j < k
      PROVE  FALSE
  <2>1. 0..j \subseteq 0..k /\ 0..j # 0..k
    BY <1>4
  <2>2. 0..j \in SUBSET Nat /\ 0..k \in SUBSET Nat
    BY <1>4
  <2>3. <<0..j, 0..k>> \in R
    BY <2>1, <2>2, FS_Interval DEF StrictSubsetOrdering, FiniteSubsetsOf
  <2> QED
    BY <1>2, <1>3, <2>3
<1> QED
  BY <1>4

(* A sequence in which nothing is twice. *)
Once(s) == \A i, j \in 1..Len(s) : s[i] = s[j] => i = j

(* Positions in a sequence of n. *)
Within(I, n) == \A i \in I : i \in 1..n

(* How many of the positions are among the first m. *)
Rank(I, m) == Cardinality({j \in I : j <= m})

LEMMA RankFacts ==
  ASSUME NEW n \in Nat, NEW I, Within(I, n)
  PROVE  /\ IsFiniteSet(I) /\ Cardinality(I) \in Nat /\ Cardinality(I) <= n
         /\ Rank(I, 0) = 0 /\ Rank(I, n) = Cardinality(I)
         /\ \A m \in Nat : Rank(I, m) \in 0..Cardinality(I)
         /\ \A l, m \in Nat : l <= m => Rank(I, l) <= Rank(I, m)
         /\ \A m \in Nat : m >= 1 =>
              Rank(I, m) = IF m \in I THEN Rank(I, m - 1) + 1 ELSE Rank(I, m - 1)
<1>0. \A p \in I : p \in Nat /\ 1 <= p /\ p <= n
  BY DEF Within
<1>1. IsFiniteSet(I) /\ Cardinality(I) <= n
  <2>1. IsFiniteSet(1..n) /\ Cardinality(1..n) = n
    BY FS_Interval
  <2>2. I \in SUBSET (1..n)
    BY DEF Within
  <2> QED
    BY <2>1, <2>2, FS_Subset
<1>2. Cardinality(I) \in Nat
  BY <1>1, FS_CardinalityType
<1>3. ASSUME NEW m \in Nat
      PROVE  /\ {j \in I : j <= m} \subseteq I /\ IsFiniteSet({j \in I : j <= m})
             /\ Rank(I, m) \in 0..Cardinality(I)
  <2>1. {j \in I : j <= m} \in SUBSET I
    OBVIOUS
  <2>2. IsFiniteSet({j \in I : j <= m}) /\ Rank(I, m) <= Cardinality(I)
    BY <1>1, <2>1, FS_Subset DEF Rank
  <2>3. Rank(I, m) \in Nat
    BY <2>2, FS_CardinalityType DEF Rank
  <2> QED
    BY <1>2, <2>1, <2>2, <2>3
<1>4. Rank(I, 0) = 0
  <2>1. {j \in I : j <= 0} = {}
    BY <1>0
  <2> QED
    BY <2>1, FS_EmptySet DEF Rank
<1>5. Rank(I, n) = Cardinality(I)
  <2>1. {j \in I : j <= n} = I
    BY <1>0
  <2> QED
    BY <2>1 DEF Rank
<1>6. ASSUME NEW l \in Nat, NEW m \in Nat, l <= m
      PROVE  Rank(I, l) <= Rank(I, m)
  <2>1. {j \in I : j <= l} \in SUBSET {j \in I : j <= m}
    BY <1>0, <1>6
  <2> QED
    BY <1>3, <2>1, FS_Subset DEF Rank
<1>7. ASSUME NEW m \in Nat, m >= 1
      PROVE  Rank(I, m) = IF m \in I THEN Rank(I, m - 1) + 1 ELSE Rank(I, m - 1)
  <2> DEFINE before == {j \in I : j <= m - 1}
  <2>1. m - 1 \in Nat
    BY <1>7
  <2>2. IsFiniteSet(before) /\ m \notin before
    BY <1>0, <1>3, <2>1
  <2>3. CASE m \in I
    <3>1. {j \in I : j <= m} = before \cup {m}
      <4>1. \A j \in I : j <= m <=> j <= m - 1 \/ j = m
        BY <1>0
      <4> QED
        BY <2>3, <4>1
    <3>2. Cardinality(before \cup {m}) = Cardinality(before) + 1
      BY <2>2, FS_AddElement
    <3> QED
      BY <2>3, <3>1, <3>2 DEF Rank
  <2>4. CASE m \notin I
    <3>1. {j \in I : j <= m} = before
      BY <1>0, <2>4, <1>7
    <3> QED
      BY <2>4, <3>1 DEF Rank
  <2> QED
    BY <2>3, <2>4
<1> QED
  BY <1>1, <1>2, <1>3, <1>4, <1>5, <1>6, <1>7

(* There is a k-th position, and it is the only one of its rank. *)
LEMMA NthFacts ==
  ASSUME NEW n \in Nat, NEW I, Within(I, n), NEW k \in 1..Cardinality(I)
  PROVE  Nth(I, k) \in I /\ Nth(I, k) \in 1..n /\ Rank(I, Nth(I, k)) = k
<1>0. \A p \in I : p \in Nat /\ 1 <= p /\ p <= n
  BY DEF Within
<1> DEFINE T == {m \in Nat : Rank(I, m) >= k}
<1>1. n \in T
  BY RankFacts
<1>2. PICK i \in T : \A m \in T : i <= m
  <2>1. T \subseteq Nat /\ T # {}
    BY <1>1
  <2> HIDE DEF T
  <2> QED
    BY <2>1, Smallest
<1>3. Cardinality(I) \in Nat /\ k \in Nat /\ k >= 1
  BY RankFacts
<1>4. i \in Nat /\ i >= 1 /\ Rank(I, i) >= k
  BY <1>2, <1>3, RankFacts
<1>5. i - 1 \in Nat /\ Rank(I, i - 1) \in Nat /\ Rank(I, i) \in Nat
  BY <1>4, <1>3, RankFacts
<1>6. ~ (Rank(I, i - 1) >= k)
  BY <1>2, <1>5
<1>7. Rank(I, i) = IF i \in I THEN Rank(I, i - 1) + 1 ELSE Rank(I, i - 1)
  BY <1>4, RankFacts
<1>8. i \in I /\ Rank(I, i) = k
  BY <1>3, <1>4, <1>5, <1>6, <1>7
<1>9. Nth(I, k) \in I /\ Rank(I, Nth(I, k)) = k
  BY <1>8 DEF Nth, Rank
<1> QED
  BY <1>9 DEF Within

LEMMA RankInjective ==
  ASSUME NEW n \in Nat, NEW I, Within(I, n), NEW i \in I, NEW j \in I, i < j
  PROVE  Rank(I, i) < Rank(I, j)
<1>0. \A p \in I : p \in Nat /\ 1 <= p /\ p <= n
  BY DEF Within
<1>1. i \in Nat /\ j \in Nat /\ j >= 1 /\ j - 1 \in Nat /\ i <= j - 1
  BY <1>0
<1>2. Rank(I, i) <= Rank(I, j - 1)
  BY <1>1, RankFacts
<1>3. Rank(I, j) = Rank(I, j - 1) + 1
  BY <1>1, RankFacts
<1>4. Rank(I, i) \in Nat /\ Rank(I, j - 1) \in Nat
  BY <1>1, RankFacts
<1> QED
  BY <1>2, <1>3, <1>4

LEMMA NthOfRank ==
  ASSUME NEW n \in Nat, NEW I, Within(I, n), NEW i \in I
  PROVE  Rank(I, i) \in 1..Cardinality(I) /\ Nth(I, Rank(I, i)) = i
<1>0. \A p \in I : p \in Nat /\ 1 <= p /\ p <= n
  BY DEF Within
<1>1. i \in Nat /\ i >= 1 /\ i - 1 \in Nat
  BY <1>0
<1>2. Rank(I, i) = Rank(I, i - 1) + 1
  BY <1>1, RankFacts
<1>3. Rank(I, i - 1) \in Nat /\ Rank(I, i) \in 0..Cardinality(I) /\ Cardinality(I) \in Nat
  BY <1>1, RankFacts
<1>4. Rank(I, i) \in 1..Cardinality(I)
  BY <1>2, <1>3
<1> DEFINE j == Nth(I, Rank(I, i))
<1>6. j \in I /\ Rank(I, j) = Rank(I, i)
  BY <1>4, NthFacts
<1>7. i \in Int /\ j \in Int /\ Rank(I, i) \in Int
  BY <1>0, <1>3, <1>6
<1>8. ~ (i < j)
  BY <1>6, <1>7, RankInjective
<1>9. ~ (j < i)
  BY <1>6, <1>7, RankInjective
<1> QED
  BY <1>4, <1>7, <1>8, <1>9

LEMMA NthIncreases ==
  ASSUME NEW n \in Nat, NEW I, Within(I, n),
         NEW k \in 1..Cardinality(I), NEW l \in 1..Cardinality(I), k < l
  PROVE  Nth(I, k) < Nth(I, l)
<1>1. /\ Nth(I, k) \in I /\ Rank(I, Nth(I, k)) = k /\ Nth(I, k) \in Nat
      /\ Nth(I, l) \in I /\ Rank(I, Nth(I, l)) = l /\ Nth(I, l) \in Nat
  BY NthFacts
<1>2. Cardinality(I) \in Nat /\ k \in Nat /\ l \in Nat
  BY RankFacts
<1>3. ASSUME Nth(I, l) <= Nth(I, k)
      PROVE  FALSE
  <2>1. l <= k
    BY <1>1, <1>3, RankFacts
  <2> QED
    BY <1>2, <2>1
<1> QED
  BY <1>1, <1>3

-----------------------------------------------------------------------------
LEMMA PickedType ==
  ASSUME NEW S, NEW s \in Seq(S), NEW I, Within(I, Len(s))
  PROVE  /\ Picked(s, I) \in Seq(S) /\ Len(Picked(s, I)) = Cardinality(I)
         /\ Cardinality(I) \in Nat /\ Cardinality(I) <= Len(s)
         /\ \A k \in 1..Cardinality(I) :
              Nth(I, k) \in I /\ Nth(I, k) \in 1..Len(s) /\ Picked(s, I)[k] = s[Nth(I, k)]
<1>1. Len(s) \in Nat
  BY LenProperties
<1>2. Cardinality(I) \in Nat /\ Cardinality(I) <= Len(s)
  BY <1>1, RankFacts
<1>3. \A k \in 1..Cardinality(I) : Nth(I, k) \in I /\ Nth(I, k) \in 1..Len(s)
  BY <1>1, NthFacts
<1>4. \A k \in 1..Cardinality(I) : s[Nth(I, k)] \in S
  BY <1>3, ElementOfSeq
<1> QED
  BY <1>2, <1>3, <1>4 DEF Picked

(* What stays is what was at those positions. *)
LEMMA PickedElements ==
  ASSUME NEW S, NEW s \in Seq(S), NEW I, Within(I, Len(s))
  PROVE  {Picked(s, I)[k] : k \in 1..Cardinality(I)} = {s[i] : i \in I}
<1>1. Len(s) \in Nat
  BY LenProperties
<1>2. ASSUME NEW i \in I
      PROVE  \E k \in 1..Cardinality(I) : Picked(s, I)[k] = s[i]
  <2>1. Rank(I, i) \in 1..Cardinality(I) /\ Nth(I, Rank(I, i)) = i
    BY <1>1, NthOfRank
  <2> QED
    BY <2>1 DEF Picked
<1>3. ASSUME NEW k \in 1..Cardinality(I)
      PROVE  \E i \in I : Picked(s, I)[k] = s[i]
  BY PickedType
<1> QED
  BY <1>2, <1>3

(* Nothing stays twice. *)
LEMMA PickedOnce ==
  ASSUME NEW S, NEW s \in Seq(S), NEW I, Within(I, Len(s)), Once(s)
  PROVE  Once(Picked(s, I))
<1>1. Len(s) \in Nat
  BY LenProperties
<1>2. Len(Picked(s, I)) = Cardinality(I)
  BY PickedType
<1>3. ASSUME NEW k \in 1..Cardinality(I), NEW l \in 1..Cardinality(I),
             Picked(s, I)[k] = Picked(s, I)[l]
      PROVE  k = l
  <2>1. Nth(I, k) = Nth(I, l)
    BY <1>3, PickedType DEF Once
  <2>2. Rank(I, Nth(I, k)) = k /\ Rank(I, Nth(I, l)) = l
    BY <1>1, NthFacts
  <2> QED
    BY <2>1, <2>2
<1> QED
  BY <1>2, <1>3 DEF Once

(* A sequence is its head and its tail. *)
LEMMA HeadAndTail ==
  ASSUME NEW S, NEW s \in Seq(S), s # << >>
  PROVE  s = <<Head(s)>> \o Tail(s)
<1> DEFINE t == Head(s)
           rest == Tail(s)
<1>1. /\ t = s[1] /\ t \in S /\ rest \in Seq(S) /\ <<t>> \in Seq(S)
      /\ Len(rest) = Len(s) - 1 /\ Len(s) \in Nat
      /\ \A k \in 1..Len(rest) : rest[k] = s[k + 1]
  BY HeadTailProperties, LenProperties
<1> HIDE DEF t, rest
<1>2. /\ <<t>> \o rest \in Seq(S)
      /\ Len(<<t>> \o rest) = Len(<<t>>) + Len(rest)
      /\ \A i \in 1..(Len(<<t>>) + Len(rest)) :
           (<<t>> \o rest)[i] = IF i <= Len(<<t>>) THEN <<t>>[i] ELSE rest[i - Len(<<t>>)]
  BY <1>1, ConcatProperties
<1>3. Len(<<t>>) = 1 /\ <<t>>[1] = t
  OBVIOUS
<1>4. Len(<<t>> \o rest) = Len(s)
  BY <1>1, <1>2, <1>3
<1>5. ASSUME NEW i \in 1..Len(s)
      PROVE  (<<t>> \o rest)[i] = s[i]
  <2>1. (<<t>> \o rest)[i] = IF i <= 1 THEN <<t>>[i] ELSE rest[i - 1]
    BY <1>1, <1>2, <1>3
  <2>2. CASE i = 1
    BY <1>1, <1>3, <2>1, <2>2
  <2>3. CASE i # 1
    <3>1. i - 1 \in 1..Len(rest) /\ (i - 1) + 1 = i /\ ~ (i <= 1)
      BY <1>1, <2>3
    <3> QED
      BY <1>1, <2>1, <3>1
  <2> QED
    BY <2>2, <2>3
<1>6. <<t>> \o rest = s
  BY <1>2, <1>4, <1>5, SeqEqual
<1> QED
  BY <1>6 DEF t, rest

(* All but the first, all of it, and none of it. *)
LEMMA PickedTail ==
  ASSUME NEW S, NEW s \in Seq(S), s # << >>
  PROVE  Picked(s, 2..Len(s)) = Tail(s)
<1> DEFINE I == 2..Len(s)
<1>1. Len(s) \in Nat /\ Len(s) >= 1
  BY LenProperties, EmptySeq
<1>2. Within(I, Len(s)) /\ Cardinality(I) = Len(s) - 1
  <2>1. Within(I, Len(s))
    BY <1>1 DEF Within
  <2> DEFINE n == Len(s)
  <2>2. n \in Int /\ 2 \in Int /\ n >= 1
    BY <1>1
  <2> HIDE DEF n
  <2>3. Cardinality(2..n) = IF 2 > n THEN 0 ELSE n - 2 + 1
    BY <2>2, FS_Interval
  <2> QED
    BY <2>1, <2>2, <2>3 DEF n
<1>3. ASSUME NEW k \in 1..(Len(s) - 1)
      PROVE  Nth(I, k) = k + 1
  <2>1. k + 1 \in I
    BY <1>1
  <2>2. {j \in I : j <= k + 1} = 2..(k + 1)
    BY <1>1
  <2>3. Rank(I, k + 1) = Cardinality(2..(k + 1))
    BY <2>2 DEF Rank
  <2>4. k + 1 \in Int /\ k \in Nat
    OBVIOUS
  <2>5. Cardinality(2..(k + 1)) = k
    BY <2>4, FS_Interval
  <2> HIDE DEF I
  <2> QED
    BY <1>1, <1>2, <2>1, <2>3, <2>5, NthOfRank
<1>4. /\ Picked(s, I) \in Seq(S) /\ Len(Picked(s, I)) = Len(s) - 1
      /\ \A k \in 1..(Len(s) - 1) : Picked(s, I)[k] = s[k + 1]
  <2> HIDE DEF I
  <2> QED
    BY <1>2, <1>3, PickedType
<1>5. /\ Tail(s) \in Seq(S) /\ Len(Tail(s)) = Len(s) - 1
      /\ \A k \in 1..(Len(s) - 1) : Tail(s)[k] = s[k + 1]
  BY HeadTailProperties
<1> HIDE DEF I
<1>6. Picked(s, I) = Tail(s)
  BY <1>4, <1>5, SeqEqual
<1> QED
  BY <1>6 DEF I

-----------------------------------------------------------------------------
(* The elements of a sequence, as it grows at its end and loses its head.  *)

LEMMA ElementsOf ==
  ASSUME NEW S, NEW s \in Seq(S)
  PROVE  ToSet(s) = {s[i] : i \in 1..Len(s)} /\ ToSet(s) \subseteq S
<1>1. DOMAIN s = 1..Len(s)
  BY LenProperties
<1> QED
  BY <1>1, ElementOfSeq DEF ToSet

LEMMA NoElements == ToSet(<< >>) = {}
<1> DEFINE e == << >>
<1>1. e \in Seq(Nat) /\ Len(e) = 0
  BY EmptySeq
<1> HIDE DEF e
<1>2. ToSet(e) = {e[i] : i \in 1..Len(e)}
  BY <1>1, ElementsOf
<1>3. ToSet(e) = {}
  BY <1>1, <1>2
<1> QED
  BY <1>3 DEF e

LEMMA AppendElements ==
  ASSUME NEW S, NEW s \in Seq(S), NEW e \in S
  PROVE  /\ Append(s, e) \in Seq(S) /\ Len(Append(s, e)) = Len(s) + 1 /\ Len(s) \in Nat
         /\ \A i \in 1..Len(s) : Append(s, e)[i] = s[i]
         /\ Append(s, e)[Len(s) + 1] = e
         /\ ToSet(Append(s, e)) = ToSet(s) \cup {e}
<1> DEFINE t == Append(s, e)
<1>1. /\ t \in Seq(S) /\ Len(t) = Len(s) + 1 /\ Len(s) \in Nat
      /\ \A i \in 1..Len(s) : t[i] = s[i]
      /\ t[Len(s) + 1] = e
  BY AppendProperties, LenProperties
<1>2. 1..(Len(s) + 1) = 1..Len(s) \cup {Len(s) + 1}
  BY <1>1
<1> HIDE DEF t
<1>3. ToSet(t) = {t[i] : i \in 1..Len(t)} /\ ToSet(s) = {s[i] : i \in 1..Len(s)}
  BY <1>1, ElementsOf
<1>4. ToSet(t) = ToSet(s) \cup {e}
  BY <1>1, <1>2, <1>3
<1> QED
  BY <1>1, <1>4 DEF t

LEMMA TailElements ==
  ASSUME NEW S, NEW s \in Seq(S), s # << >>
  PROVE  /\ Tail(s) \in Seq(S) /\ Len(Tail(s)) = Len(s) - 1 /\ Len(s) \in Nat /\ Len(s) >= 1
         /\ \A i \in 1..(Len(s) - 1) : Tail(s)[i] = s[i + 1]
         /\ Head(s) = s[1] /\ s[1] \in S
         /\ ToSet(s) = {s[1]} \cup ToSet(Tail(s))
<1> DEFINE t == Tail(s)
<1>1. /\ t \in Seq(S) /\ Len(t) = Len(s) - 1 /\ Len(s) \in Nat /\ Len(s) >= 1
      /\ \A i \in 1..(Len(s) - 1) : t[i] = s[i + 1]
      /\ Head(s) = s[1] /\ s[1] \in S
  <2>1. Len(s) \in Nat /\ Len(s) >= 1
    BY LenProperties, EmptySeq
  <2>2. /\ t \in Seq(S) /\ Len(t) = Len(s) - 1
        /\ \A i \in 1..Len(t) : t[i] = s[i + 1]
        /\ Head(s) = s[1] /\ s[1] \in S
    BY HeadTailProperties
  <2> QED
    BY <2>1, <2>2
<1> HIDE DEF t
<1>2. ToSet(t) = {t[i] : i \in 1..Len(t)} /\ ToSet(s) = {s[i] : i \in 1..Len(s)}
  BY <1>1, ElementsOf
<1>3. ASSUME NEW i \in 1..Len(s)
      PROVE  s[i] \in {s[1]} \cup ToSet(t)
  <2>1. CASE i = 1
    BY <2>1
  <2>2. CASE i # 1
    <3>1. i - 1 \in 1..Len(t) /\ (i - 1) + 1 = i /\ i - 1 \in 1..(Len(s) - 1)
      BY <1>1, <2>2
    <3>2. t[i - 1] = s[i]
      BY <1>1, <3>1
    <3> QED
      BY <1>2, <3>1, <3>2
  <2> QED
    BY <2>1, <2>2
<1>4. ASSUME NEW i \in 1..Len(t)
      PROVE  t[i] \in ToSet(s)
  <2>1. i + 1 \in 1..Len(s) /\ i \in 1..(Len(s) - 1)
    BY <1>1
  <2> QED
    BY <1>1, <1>2, <2>1
<1>5. s[1] \in ToSet(s)
  <2>1. 1 \in 1..Len(s)
    BY <1>1
  <2> QED
    BY <1>2, <2>1
<1>6. ToSet(s) = {s[1]} \cup ToSet(t)
  BY <1>2, <1>3, <1>4, <1>5
<1> QED
  BY <1>1, <1>6 DEF t

LEMMA ConcatElements ==
  ASSUME NEW S, NEW s \in Seq(S), NEW t \in Seq(S)
  PROVE  /\ s \o t \in Seq(S) /\ Len(s \o t) = Len(s) + Len(t)
         /\ ToSet(s \o t) = ToSet(s) \cup ToSet(t)
<1> DEFINE u == s \o t
<1>1. /\ u \in Seq(S) /\ Len(u) = Len(s) + Len(t) /\ Len(s) \in Nat /\ Len(t) \in Nat
      /\ \A i \in 1..(Len(s) + Len(t)) : u[i] = IF i <= Len(s) THEN s[i] ELSE t[i - Len(s)]
  BY ConcatProperties, LenProperties
<1> HIDE DEF u
<1>2. /\ ToSet(u) = {u[i] : i \in 1..Len(u)} /\ ToSet(s) = {s[i] : i \in 1..Len(s)}
      /\ ToSet(t) = {t[i] : i \in 1..Len(t)}
  BY <1>1, ElementsOf
<1>3. ASSUME NEW i \in 1..Len(u)
      PROVE  u[i] \in ToSet(s) \cup ToSet(t)
  <2>1. CASE i <= Len(s)
    BY <1>1, <1>2, <2>1
  <2>2. CASE ~(i <= Len(s))
    <3>1. i - Len(s) \in 1..Len(t) /\ u[i] = t[i - Len(s)]
      BY <1>1, <2>2
    <3> QED
      BY <1>2, <3>1
  <2> QED
    BY <2>1, <2>2
<1>4. ASSUME NEW i \in 1..Len(s)
      PROVE  s[i] \in ToSet(u)
  <2>1. i \in 1..Len(u) /\ i <= Len(s) /\ i \in 1..(Len(s) + Len(t))
    BY <1>1
  <2> QED
    BY <1>1, <1>2, <2>1
<1>5. ASSUME NEW i \in 1..Len(t)
      PROVE  t[i] \in ToSet(u)
  <2>1. /\ i + Len(s) \in 1..Len(u) /\ ~(i + Len(s) <= Len(s))
        /\ i + Len(s) \in 1..(Len(s) + Len(t)) /\ (i + Len(s)) - Len(s) = i
    BY <1>1
  <2>2. u[i + Len(s)] = t[i]
    BY <1>1, <2>1
  <2> QED
    BY <1>2, <2>1, <2>2
<1>6. ToSet(u) = ToSet(s) \cup ToSet(t)
  BY <1>2, <1>3, <1>4, <1>5
<1> QED
  BY <1>1, <1>6 DEF u

===============================================================================
