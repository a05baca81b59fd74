-------------------------- MODULE DirectorySizesProofs --------------------------
(***************************************************************************)
(* Theorems about DirectorySizes, for any tree of paths, number of walkers *)
(* and length of the kernel's queue: a cached size that no update will     *)
(* take away, and none could, is the size of its directory.                *)
(***************************************************************************)
EXTENDS DirectorySizes, FiniteSetTheorems, SequenceTheorems, TLAPS

-----------------------------------------------------------------------------
(* Paths: what comes before what.                                          *)
LEMMA PrefixIs ==
  ASSUME NEW S, NEW s \in Seq(S), NEW t \in Seq(S)
  PROVE  IsPrefix(s, t) <=> Len(s) <= Len(t) /\ \A i \in 1..Len(s) : s[i] = t[i]
<1> DEFINE n == Len(s)
           before == SubSeq(t, 1, n)
<1>1. n \in Nat /\ Len(t) \in Nat
  BY LenProperties
<1>2. SubSeq(s, 1, n) = s
  BY SubSeqFull
<1>3. ASSUME n <= Len(t)
      PROVE  before \in Seq(S) /\ Len(before) = n /\ \A i \in 1..n : before[i] = t[i]
  <2>1. \A i \in 1..n : t[i] \in S
    BY <1>1, <1>3, ElementOfSeq
  <2> DEFINE one == 1
  <2>2. one \in Int /\ n \in Int /\ \A i \in one..n : t[i] \in S
    BY <1>1, <2>1
  <2> HIDE DEF n, one
  <2>3. /\ SubSeq(t, one, n) \in Seq(S)
        /\ Len(SubSeq(t, one, n)) = IF one <= n THEN n - one + 1 ELSE 0
        /\ \A i \in 1..(n - one + 1) : SubSeq(t, one, n)[i] = t[one + i - 1]
    BY <2>2, SubSeqProperties
  <2> USE DEF one
  <2>4. n - one + 1 = n /\ \A i \in 1..n : one + i - 1 = i
    BY <1>1
  <2> QED
    BY <1>1, <2>3, <2>4
<1>4. ASSUME n <= Len(t)
      PROVE  s = before <=> \A i \in 1..n : s[i] = t[i]
  <2> HIDE DEF before
  <2>1. ASSUME \A i \in 1..n : s[i] = t[i]
        PROVE  s = before
    BY <1>3, <1>4, <2>1, SeqEqual
  <2>2. ASSUME s = before
        PROVE  \A i \in 1..n : s[i] = t[i]
    BY <1>3, <1>4, <2>2
  <2> QED
    BY <2>1, <2>2
<1> HIDE DEF before
<1>5. IsPrefix(s, t) <=> n <= Len(t) /\ s = before
  BY <1>2 DEF IsPrefix, before
<1> QED
  BY <1>4, <1>5

LEMMA PrefixItself ==
  ASSUME NEW S, NEW s \in Seq(S)
  PROVE  IsPrefix(s, s)
BY PrefixIs, LenProperties

LEMMA PrefixLength ==
  ASSUME NEW S, NEW s \in Seq(S), NEW t \in Seq(S), IsPrefix(s, t)
  PROVE  /\ Len(s) \in Nat /\ Len(t) \in Nat /\ Len(s) <= Len(t)
         /\ Len(s) = Len(t) => s = t
<1>1. Len(s) <= Len(t) /\ \A i \in 1..Len(s) : s[i] = t[i]
  BY PrefixIs
<1>2. Len(s) \in Nat /\ Len(t) \in Nat
  BY LenProperties
<1> QED
  BY <1>1, <1>2, SeqEqual

LEMMA PrefixTransitive ==
  ASSUME NEW S, NEW s \in Seq(S), NEW t \in Seq(S), NEW u \in Seq(S),
         IsPrefix(s, t), IsPrefix(t, u)
  PROVE  IsPrefix(s, u)
<1>1. Len(s) <= Len(t) /\ \A i \in 1..Len(s) : s[i] = t[i]
  BY PrefixIs
<1>2. Len(t) <= Len(u) /\ \A i \in 1..Len(t) : t[i] = u[i]
  BY PrefixIs
<1>3. Len(s) \in Nat /\ Len(t) \in Nat /\ Len(u) \in Nat
  BY LenProperties
<1>4. Len(s) <= Len(u) /\ \A i \in 1..Len(s) : s[i] = u[i]
  BY <1>1, <1>2, <1>3
<1> QED
  BY <1>4, PrefixIs

(* Two that come before one come one before the other. *)
LEMMA PrefixesLine ==
  ASSUME NEW S, NEW s \in Seq(S), NEW t \in Seq(S), NEW u \in Seq(S),
         IsPrefix(s, u), IsPrefix(t, u), Len(s) <= Len(t)
  PROVE  IsPrefix(s, t)
<1>1. Len(s) <= Len(u) /\ \A i \in 1..Len(s) : s[i] = u[i]
  BY PrefixIs
<1>2. Len(t) <= Len(u) /\ \A i \in 1..Len(t) : t[i] = u[i]
  BY PrefixIs
<1>3. Len(s) \in Nat /\ Len(t) \in Nat /\ Len(u) \in Nat
  BY LenProperties
<1>4. \A i \in 1..Len(s) : s[i] = t[i]
  BY <1>1, <1>2, <1>3
<1> QED
  BY <1>4, PrefixIs

(* What is taken of the front of a sequence comes before it. *)
LEMMA Start ==
  ASSUME NEW S, NEW t \in Seq(S), NEW n \in 0..Len(t)
  PROVE  /\ SubSeq(t, 1, n) \in Seq(S) /\ Len(SubSeq(t, 1, n)) = n
         /\ IsPrefix(SubSeq(t, 1, n), t)
         /\ \A i \in 1..n : SubSeq(t, 1, n)[i] = t[i]
<1>1. n \in Nat /\ Len(t) \in Nat /\ n <= Len(t)
  BY LenProperties
<1> DEFINE one == 1
           before == SubSeq(t, one, n)
<1>2. one \in Int /\ n \in Int /\ \A i \in one..n : t[i] \in S
  BY <1>1, ElementOfSeq
<1>3. n - one + 1 = n /\ \A i \in 1..n : one + i - 1 = i
  BY <1>1
<1>4. before \in Seq(S) /\ Len(before) = n /\ \A i \in 1..n : before[i] = t[i]
  <2> HIDE DEF one
  <2>1. /\ SubSeq(t, one, n) \in Seq(S)
        /\ Len(SubSeq(t, one, n)) = IF one <= n THEN n - one + 1 ELSE 0
        /\ \A i \in 1..(n - one + 1) : SubSeq(t, one, n)[i] = t[one + i - 1]
    BY <1>2, SubSeqProperties
  <2> QED
    BY <1>1, <1>3, <2>1 DEF one
<1> HIDE DEF before
<1>5. IsPrefix(before, t)
  BY <1>1, <1>4, PrefixIs
<1> QED
  BY <1>4, <1>5 DEF before

(* What is moved: the new name, and behind it what was behind the old.     *)
Renames(S, m, r, q, p) ==
  /\ m \in Seq(S)
  /\ Len(m) = Len(p) + (Len(r) - Len(q))
  /\ \A i \in 1..Len(p) : m[i] = p[i]
  /\ \A i \in 1..(Len(r) - Len(q)) : m[Len(p) + i] = r[Len(q) + i]

LEMMA MovedIs ==
  ASSUME NEW S, NEW r \in Seq(S), NEW q \in Seq(S), NEW p \in Seq(S), Len(q) <= Len(r)
  PROVE  Renames(S, Moved(r, q, p), r, q, p)
<1> DEFINE first == Len(q) + 1
           n == Len(r)
           k == n - Len(q)
           behind == SubSeq(r, first, n)
<1>1. /\ Len(p) \in Nat /\ Len(q) \in Nat /\ n \in Nat /\ first \in Int /\ k \in Nat
      /\ n - first + 1 = k /\ (first <= n <=> k > 0)
      /\ \A i \in 1..k : first + i - 1 = Len(q) + i
  BY LenProperties
<1>2. \A i \in first..n : r[i] \in S
  BY <1>1, ElementOfSeq
<1>3. behind \in Seq(S) /\ Len(behind) = k /\ \A i \in 1..k : behind[i] = r[Len(q) + i]
  <2> HIDE DEF first, k
  <2>0. first \in Int /\ n \in Int
    BY <1>1
  <2> HIDE DEF n
  <2>1. /\ SubSeq(r, first, n) \in Seq(S)
        /\ Len(SubSeq(r, first, n)) = IF first <= n THEN n - first + 1 ELSE 0
        /\ \A i \in 1..(n - first + 1) : SubSeq(r, first, n)[i] = r[first + i - 1]
    BY <1>2, <2>0, SubSeqProperties
  <2>2. Len(behind) = k
    BY <1>1, <2>1
  <2>3. \A i \in 1..k : behind[i] = r[Len(q) + i]
    BY <1>1, <2>1
  <2> QED
    BY <2>1, <2>2, <2>3
<1> DEFINE all == p \o behind
<1>4. Moved(r, q, p) = all
  BY DEF Moved
<1> HIDE DEF behind
<1>5. /\ all \in Seq(S) /\ Len(all) = Len(p) + Len(behind)
      /\ \A i \in 1..(Len(p) + Len(behind)) :
           all[i] = IF i <= Len(p) THEN p[i] ELSE behind[i - Len(p)]
  BY <1>3, ConcatProperties
<1> HIDE DEF all, k, n, first
<1>6. \A i \in 1..Len(p) : all[i] = p[i]
  BY <1>1, <1>3, <1>5
<1>7. \A i \in 1..k : all[Len(p) + i] = r[Len(q) + i]
  <2> TAKE i \in 1..k
  <2>1. Len(p) + i \in 1..(Len(p) + k) /\ ~(Len(p) + i <= Len(p)) /\ Len(p) + i - Len(p) = i
    BY <1>1
  <2> QED
    BY <1>3, <1>5, <2>1
<1>8. all \in Seq(S) /\ Len(all) = Len(p) + k
  BY <1>3, <1>5
<1> QED
  BY <1>4, <1>6, <1>7, <1>8 DEF k, n, Renames

LEMMA MovedAlike ==
  ASSUME NEW S, NEW r \in Seq(S), NEW v \in Seq(S), NEW q \in Seq(S), NEW p \in Seq(S),
         IsPrefix(q, v), IsPrefix(v, r)
  PROVE  IsPrefix(Moved(v, q, p), Moved(r, q, p))
<1>1. Len(q) <= Len(v) /\ Len(v) <= Len(r) /\ \A i \in 1..Len(v) : v[i] = r[i]
  BY PrefixIs
<1>2. Len(p) \in Nat /\ Len(q) \in Nat /\ Len(v) \in Nat /\ Len(r) \in Nat
  BY LenProperties
<1> DEFINE m == Moved(v, q, p)
           n == Moved(r, q, p)
<1>a. Len(q) <= Len(v) /\ Len(q) <= Len(r)
  BY <1>1, <1>2
<1>3. /\ m \in Seq(S) /\ Len(m) = Len(p) + (Len(v) - Len(q))
      /\ \A i \in 1..Len(p) : m[i] = p[i]
      /\ \A i \in 1..(Len(v) - Len(q)) : m[Len(p) + i] = v[Len(q) + i]
  <2>1. Renames(S, m, v, q, p)
    BY <1>a, MovedIs
  <2> HIDE DEF m
  <2> QED
    BY <2>1 DEF Renames
<1>4. /\ n \in Seq(S) /\ Len(n) = Len(p) + (Len(r) - Len(q))
      /\ \A i \in 1..Len(p) : n[i] = p[i]
      /\ \A i \in 1..(Len(r) - Len(q)) : n[Len(p) + i] = r[Len(q) + i]
  <2>1. Renames(S, n, r, q, p)
    BY <1>a, MovedIs
  <2> HIDE DEF n
  <2> QED
    BY <2>1 DEF Renames
<1> HIDE DEF m, n
<1>5. ASSUME NEW i \in 1..Len(m)
      PROVE  m[i] = n[i]
  <2>1. CASE i <= Len(p)
    <3>1. i \in 1..Len(p)
      BY <1>2, <2>1
    <3> QED
      BY <1>3, <1>4, <3>1
  <2>2. CASE i > Len(p)
    <3> DEFINE j == i - Len(p)
    <3>1. /\ j \in 1..(Len(v) - Len(q)) /\ j \in 1..(Len(r) - Len(q)) /\ i = Len(p) + j
          /\ Len(q) + j \in 1..Len(v)
      BY <1>1, <1>2, <1>3, <2>2
    <3> HIDE DEF j
    <3>2. m[i] = v[Len(q) + j] /\ n[i] = r[Len(q) + j]
      BY <1>3, <1>4, <3>1
    <3> QED
      BY <1>1, <3>1, <3>2
  <2> QED
    BY <1>2, <2>1, <2>2
<1>6. Len(m) <= Len(n)
  BY <1>1, <1>2, <1>3, <1>4
<1>7. IsPrefix(m, n)
  BY <1>3, <1>4, <1>5, <1>6, PrefixIs
<1> QED
  BY <1>7 DEF m, n

-----------------------------------------------------------------------------
(* The tree of the paths.                                                  *)
LEMMA Paths ==
  ASSUME NEW p \in Dirs
  PROVE  p \in Seq(STRING) /\ Len(p) \in Nat \ {0}
<1>1. p \in Seq(STRING) /\ p # << >>
  BY TreeAssumption DEF TreeAssumption
<1> QED
  BY <1>1, LenProperties, EmptySeq

LEMMA AtItself ==
  ASSUME NEW p \in Dirs
  PROVE  AtOrUnder(p, p)
BY Paths, PrefixItself DEF AtOrUnder

LEMMA FurtherDown ==
  ASSUME NEW p \in Dirs, NEW q \in Dirs, NEW r \in Dirs, AtOrUnder(q, p), AtOrUnder(r, q)
  PROVE  AtOrUnder(r, p)
BY Paths, PrefixTransitive DEF AtOrUnder

LEMMA Longer ==
  ASSUME NEW p \in Dirs, NEW q \in Dirs, AtOrUnder(q, p)
  PROVE  /\ Len(p) \in Nat /\ Len(q) \in Nat /\ Len(p) <= Len(q)
         /\ Len(p) = Len(q) => p = q
BY Paths, PrefixLength DEF AtOrUnder

LEMMA UnderIs ==
  ASSUME NEW p, NEW q
  PROVE  Under(q, p) <=> AtOrUnder(q, p) /\ q # p
BY DEF Under, AtOrUnder, IsStrictPrefix

LEMMA OneWay ==
  ASSUME NEW p \in Dirs, NEW q \in Dirs, AtOrUnder(q, p), AtOrUnder(p, q)
  PROVE  p = q
<1>1. Len(p) <= Len(q) /\ Len(q) <= Len(p) /\ Len(p) \in Nat /\ Len(q) \in Nat
  BY Longer
<1> QED
  BY <1>1, Longer

LEMMA InLine ==
  ASSUME NEW p \in Dirs, NEW q \in Dirs, NEW r \in Dirs, AtOrUnder(r, p), AtOrUnder(r, q)
  PROVE  /\ Len(p) <= Len(q) => AtOrUnder(q, p)
         /\ AtOrUnder(p, q) \/ AtOrUnder(q, p)
<1>1. p \in Seq(STRING) /\ q \in Seq(STRING) /\ r \in Seq(STRING)
      /\ Len(p) \in Nat /\ Len(q) \in Nat
  BY Paths
<1>2. Len(p) <= Len(q) => AtOrUnder(q, p)
  BY <1>1, PrefixesLine DEF AtOrUnder
<1>3. Len(q) <= Len(p) => AtOrUnder(p, q)
  BY <1>1, PrefixesLine DEF AtOrUnder
<1> QED
  BY <1>1, <1>2, <1>3

(* What is under a directory is at or under one of its children. *)
LEMMA ByAChild ==
  ASSUME NEW p \in Dirs, NEW q \in Dirs, Under(q, p)
  PROVE  \E c \in Children(p) : AtOrUnder(q, c)
<1> DEFINE n == Len(p) + 1
           c == SubSeq(q, 1, n)
<1>1. AtOrUnder(q, p) /\ q # p
  BY UnderIs
<1>2. p \in Seq(STRING) /\ q \in Seq(STRING) /\ Len(p) \in Nat /\ Len(q) \in Nat
      /\ Len(p) < Len(q)
  BY <1>1, Paths, Longer
<1>3. n \in 0..Len(q) /\ n \in Len(p)..Len(q) /\ n # Len(p)
  BY <1>2
<1>4. c \in Dirs
  BY <1>3, TreeAssumption DEF TreeAssumption
<1>5. Len(c) = n /\ AtOrUnder(q, c)
  BY <1>2, <1>3, Start DEF AtOrUnder
<1> HIDE DEF c
<1>6. AtOrUnder(c, p) /\ c # p
  BY <1>1, <1>3, <1>4, <1>5, InLine
<1>7. c \in Children(p)
  BY <1>4, <1>5, <1>6, UnderIs DEF Children
<1> QED
  BY <1>5, <1>7

(* Two names in one directory. *)
LEMMA Siblings ==
  ASSUME NEW p \in Dirs, NEW q \in Dirs, p # q, q \in Children(Front(p))
  PROVE  /\ Front(p) \in Dirs /\ Len(p) = Len(q)
         /\ Under(p, Front(p)) /\ Under(q, Front(p))
         /\ ~AtOrUnder(p, q) /\ ~AtOrUnder(q, p)
<1> DEFINE up == Front(p)
           n == Len(p) - 1
<1>1. p \in Seq(STRING) /\ q \in Seq(STRING) /\ Len(p) \in Nat /\ Len(p) > 0
      /\ Len(q) \in Nat
  BY Paths
<1>2. n \in 0..Len(p)
  BY <1>1
<1>3. up \in Seq(STRING) /\ Len(up) = n /\ IsPrefix(up, p)
  BY <1>1, <1>2, Start DEF Front
<1>4. Under(q, up) /\ Len(q) = Len(up) + 1
  BY DEF Children
<1>5. Len(p) = Len(q)
  BY <1>1, <1>3, <1>4
<1>6. ~AtOrUnder(p, q) /\ ~AtOrUnder(q, p)
  BY <1>5, Longer
<1>7. PICK root \in Dirs : \A d \in Dirs : AtOrUnder(d, root)
  BY TreeAssumption DEF TreeAssumption
<1>8. root # p
  BY <1>6, <1>7
<1>9. Under(p, root) /\ Len(root) \in Nat /\ Len(root) < Len(p)
  BY <1>7, <1>8, Longer, UnderIs
<1>10. n \in Len(root)..Len(p)
  BY <1>1, <1>9
<1>11. up \in Dirs
  BY <1>9, <1>10, TreeAssumption DEF TreeAssumption, Front
<1>12. up # p
  BY <1>1, <1>3
<1> HIDE DEF up, n
<1>13. Under(p, up)
  BY <1>3, <1>12, UnderIs DEF AtOrUnder
<1> QED
  BY <1>4, <1>5, <1>6, <1>11, <1>13 DEF up

(* Whatever one of them is under is the directory of both, or above it.    *)
LEMMA AboveSiblings ==
  ASSUME NEW p \in Dirs, NEW q \in Dirs, p # q, q \in Children(Front(p)),
         NEW v \in Dirs, Under(p, v) \/ Under(q, v)
  PROVE  AtOrUnder(Front(p), v)
<1> DEFINE up == Front(p)
<1>1. up \in Dirs /\ Len(p) = Len(q) /\ AtOrUnder(p, up) /\ AtOrUnder(q, up)
  BY Siblings, UnderIs
<1>2. Len(q) = Len(up) + 1
  BY DEF Children
<1> HIDE DEF up
<1>3. Len(up) \in Nat /\ Len(v) \in Nat /\ Len(v) < Len(q)
  <2>1. \/ AtOrUnder(p, v) /\ p # v
        \/ AtOrUnder(q, v) /\ q # v
    BY UnderIs
  <2> QED
    BY <1>1, <2>1, Longer
<1>4. Len(v) <= Len(up)
  BY <1>2, <1>3
<1>5. AtOrUnder(p, v) \/ AtOrUnder(q, v)
  BY UnderIs
<1>6. AtOrUnder(up, v)
  BY <1>1, <1>4, <1>5, InLine
<1> QED
  BY <1>6 DEF up

LEMMA MovedDirs ==
  ASSUME NEW p \in Dirs, NEW q \in Dirs, p # q, q \in Children(Front(p)),
         NEW r \in Dirs, AtOrUnder(r, q)
  PROVE  /\ Moved(r, q, p) \in Dirs
         /\ \A v \in Dirs : AtOrUnder(v, q) /\ AtOrUnder(r, v) =>
              AtOrUnder(Moved(r, q, p), Moved(v, q, p))
<1>1. Moved(r, q, p) \in Dirs
  BY TreeAssumption DEF TreeAssumption
<1>2. ASSUME NEW v \in Dirs, AtOrUnder(v, q), AtOrUnder(r, v)
      PROVE  AtOrUnder(Moved(r, q, p), Moved(v, q, p))
  <2>1. p \in Seq(STRING) /\ q \in Seq(STRING) /\ r \in Seq(STRING) /\ v \in Seq(STRING)
    BY Paths
  <2>2. IsPrefix(q, v) /\ IsPrefix(v, r)
    BY <1>2 DEF AtOrUnder
  <2> QED
    BY <2>1, <2>2, MovedAlike DEF AtOrUnder
<1> QED
  BY <1>1, <1>2

-----------------------------------------------------------------------------
(* Sets put in a row, and rows put together.                               *)
LEMMA InARow ==
  ASSUME NEW S, IsFiniteSet(S)
  PROVE  /\ SetToSeq(S) \in Seq(S)
         /\ \A e \in S : \E i \in 1..Len(SetToSeq(S)) : SetToSeq(S)[i] = e
         /\ \A i, j \in 1..Len(SetToSeq(S)) : SetToSeq(S)[i] = SetToSeq(S)[j] => i = j
<1> DEFINE n == Cardinality(S)
           f == SetToSeq(S)
<1>1. n \in Nat /\ ExistsBijection(1..n, S)
  BY FS_CardinalityType
<1>2. PICK g \in [1..n -> S] : IsInjective(g)
  BY <1>1 DEF ExistsBijection, Bijection, Injection
<1>3. f \in [1..n -> S] /\ IsInjective(f)
  BY <1>2 DEF SetToSeq
<1> HIDE DEF f
<1>4. f \in Seq(S) /\ Len(f) = n
  BY <1>1, <1>3, IsASeq, LenProperties
<1>5. \A i, j \in 1..n : f[i] = f[j] => i = j
  BY <1>3 DEF IsInjective
<1> DEFINE R == {f[i] : i \in 1..n}
<1>6. R \in SUBSET S
  BY <1>3
<1>7. Cardinality(R) = n
  <2>1. f \in Bijection(1..n, R)
    BY <1>3, <1>5 DEF Bijection, Injection, Surjection, IsInjective
  <2> QED
    BY <1>1, <2>1, FS_CountingElements DEF ExistsBijection
<1> HIDE DEF R
<1>8. R = S
  BY <1>6, <1>7, FS_Subset
<1>9. \A e \in S : \E i \in 1..n : f[i] = e
  BY <1>8 DEF R
<1> QED
  BY <1>4, <1>5, <1>9 DEF f

Apart(s) == \A i, j \in 1..Len(s) : i # j => ~AtOrUnder(s[i], s[j])

Holds(s, e) == \E i \in 1..Len(s) : s[i] = e

LEMMA JoinedHolds ==
  ASSUME NEW S, NEW s \in Seq(S), NEW t \in Seq(S)
  PROVE  s \o t \in Seq(S) /\ \A e : Holds(s \o t, e) <=> Holds(s, e) \/ Holds(t, e)
<1> DEFINE st == s \o t
           m == Len(s)
           n == Len(t)
<1>1. /\ st \in Seq(S) /\ Len(st) = m + n
      /\ \A i \in 1..(m + n) : st[i] = IF i <= m THEN s[i] ELSE t[i - m]
  BY ConcatProperties
<1>2. m \in Nat /\ n \in Nat
  BY LenProperties
<1> HIDE DEF st, m, n
<1>3. ASSUME NEW e, NEW i \in 1..(m + n), st[i] = e
      PROVE  (\E k \in 1..m : s[k] = e) \/ (\E k \in 1..n : t[k] = e)
  <2>1. CASE i <= m
    BY <1>1, <1>2, <1>3, <2>1
  <2>2. CASE i > m
    <3>1. i - m \in 1..n /\ t[i - m] = e
      BY <1>1, <1>2, <1>3, <2>2
    <3> QED
      BY <3>1
  <2> QED
    BY <1>2, <2>1, <2>2
<1>4. ASSUME NEW e, NEW k \in 1..m, s[k] = e
      PROVE  \E i \in 1..(m + n) : st[i] = e
  <2>1. k \in 1..(m + n) /\ k <= m
    BY <1>2
  <2> QED
    BY <1>1, <1>4, <2>1
<1>5. ASSUME NEW e, NEW k \in 1..n, t[k] = e
      PROVE  \E i \in 1..(m + n) : st[i] = e
  <2> DEFINE i == m + k
  <2>1. i \in 1..(m + n) /\ ~(i <= m) /\ i - m = k
    BY <1>2
  <2> HIDE DEF i
  <2>2. st[i] = t[i - m]
    BY <1>1, <2>1
  <2> QED
    BY <1>5, <2>1, <2>2
<1>6. \A e : (\E i \in 1..Len(st) : st[i] = e)
               <=> (\E k \in 1..m : s[k] = e) \/ (\E k \in 1..n : t[k] = e)
  BY <1>1, <1>3, <1>4, <1>5
<1> QED
  BY <1>1, <1>6 DEF Holds, st, m, n

LEMMA JoinedApart ==
  ASSUME NEW s \in Seq(Dirs), NEW t \in Seq(Dirs), Apart(s), Apart(t),
         \A d, e : Holds(s, d) /\ Holds(t, e) => ~AtOrUnder(d, e) /\ ~AtOrUnder(e, d)
  PROVE  Apart(s \o t)
<1> DEFINE st == s \o t
           m == Len(s)
           n == Len(t)
<1>1. /\ st \in Seq(Dirs) /\ Len(st) = m + n
      /\ \A i \in 1..(m + n) : st[i] = IF i <= m THEN s[i] ELSE t[i - m]
  BY ConcatProperties
<1>2. m \in Nat /\ n \in Nat
  BY LenProperties
<1>3. /\ \A i, j \in 1..m : i # j => ~AtOrUnder(s[i], s[j])
      /\ \A i, j \in 1..n : i # j => ~AtOrUnder(t[i], t[j])
      /\ \A i \in 1..m, j \in 1..n : ~AtOrUnder(s[i], t[j]) /\ ~AtOrUnder(t[j], s[i])
  BY DEF Apart, Holds
<1> HIDE DEF st, m, n
<1>4. ASSUME NEW i \in 1..(m + n), NEW j \in 1..(m + n), i # j
      PROVE  ~AtOrUnder(st[i], st[j])
  <2>1. /\ i <= m => i \in 1..m /\ st[i] = s[i]
        /\ i > m => i - m \in 1..n /\ st[i] = t[i - m]
    BY <1>1, <1>2
  <2>2. /\ j <= m => j \in 1..m /\ st[j] = s[j]
        /\ j > m => j - m \in 1..n /\ st[j] = t[j - m]
    BY <1>1, <1>2
  <2>3. i - m # j - m /\ (i <= m \/ i > m) /\ (j <= m \/ j > m)
    BY <1>2, <1>4
  <2> DEFINE a == i - m
             b == j - m
  <2> HIDE DEF a, b
  <2>4. /\ i <= m => i \in 1..m /\ st[i] = s[i]
        /\ i > m => a \in 1..n /\ st[i] = t[a]
        /\ j <= m => j \in 1..m /\ st[j] = s[j]
        /\ j > m => b \in 1..n /\ st[j] = t[b]
        /\ a # b
    BY <2>1, <2>2, <2>3 DEF a, b
  <2>5. CASE i <= m /\ j <= m
    BY <1>3, <1>4, <2>4, <2>5
  <2>6. CASE i <= m /\ j > m
    BY <1>3, <2>4, <2>6
  <2>7. CASE i > m /\ j <= m
    BY <1>3, <2>4, <2>7
  <2>8. CASE i > m /\ j > m
    BY <1>3, <2>4, <2>8
  <2> QED
    BY <2>3, <2>5, <2>6, <2>7, <2>8
<1>5. \A i, j \in 1..Len(st) : i # j => ~AtOrUnder(st[i], st[j])
  BY <1>1, <1>4
<1> QED
  BY <1>5 DEF Apart, st

(* The last of a stack, and what is before it. *)
LEMMA Popped ==
  ASSUME NEW s \in Seq(Dirs), s # << >>
  PROVE  /\ Last(s) \in Dirs /\ Front(s) \in Seq(Dirs)
         /\ \A e : Holds(s, e) <=> Holds(Front(s), e) \/ e = Last(s)
         /\ Apart(s) => /\ Apart(Front(s))
                        /\ \A e : Holds(Front(s), e) =>
                             ~AtOrUnder(e, Last(s)) /\ ~AtOrUnder(Last(s), e)
<1> DEFINE n == Len(s)
           k == n - 1
           f == Front(s)
           d == Last(s)
<1>1. n \in Nat /\ n >= 1 /\ k \in 0..n /\ n \in 1..n
  BY LenProperties, EmptySeq
<1>2. f \in Seq(Dirs) /\ Len(f) = k /\ \A i \in 1..k : f[i] = s[i]
  BY <1>1, Start DEF Front
<1>3. d = s[n] /\ d \in Dirs
  BY <1>1, ElementOfSeq DEF Last
<1>4. \A i : i \in 1..n <=> i \in 1..k \/ i = n
  BY <1>1
<1>5. \A i \in 1..k : i # n /\ i \in 1..n
  BY <1>1
<1> HIDE DEF f, d, n, k
<1>6. \A e : (\E i \in 1..n : s[i] = e) <=> (\E i \in 1..k : f[i] = e) \/ e = d
  BY <1>2, <1>3, <1>4
<1>7. ASSUME \A i, j \in 1..n : i # j => ~AtOrUnder(s[i], s[j])
      PROVE  /\ \A i, j \in 1..k : i # j => ~AtOrUnder(f[i], f[j])
             /\ \A i \in 1..k : ~AtOrUnder(f[i], d) /\ ~AtOrUnder(d, f[i])
  BY <1>1, <1>2, <1>3, <1>5, <1>7
<1> QED
  BY <1>2, <1>3, <1>6, <1>7 DEF Holds, Apart, f, d, n

-----------------------------------------------------------------------------
(* The sizes below some paths, and the invariant.                          *)
Full(q) == disk[q].bytes = 1

(* The full directories at or under the paths on a walk's stack.           *)
Ahead(stack) == {q \in Dirs : Full(q) /\ \E e \in Dirs : Holds(stack, e) /\ AtOrUnder(q, e)}

Within(p) == {q \in Dirs : AtOrUnder(q, p) /\ Full(q)}

(* A directory is in a directory. *)
Nested == \A p, q \in Dirs : Present(q) /\ Under(q, p) => Present(p)

(* An update is on its way that covers the path. *)
Pending(p) ==
  \/ \E i \in 1..Len(raw) : Covered(raw[i], p)
  \/ batch.held /\ (batch.rescan \/ \E q \in batch.changed : AtOrUnder(q, p))
  \/ \E i \in 1..Len(updates) : Covered(updates[i], p)
  \/ p \in unseen

(* What a walk has counted and what is ahead of it make up the size.       *)
Counts(w) ==
  /\ walk[w].at = "walking" =>
       walk[w].total + Cardinality(Ahead(walk[w].stack)) = SizeOf(walk[w].path)
  /\ walk[w].at = "keyed" => walk[w].total = SizeOf(walk[w].path)

Walks(w) ==
  walk[w].at # "idle" =>
    /\ walk[w].path \in Dirs
    /\ walk[w].at = "walking" =>
         /\ Apart(walk[w].stack)
         /\ \A e \in Dirs : Holds(walk[w].stack, e) => AtOrUnder(e, walk[w].path)
    /\ walk[w].excused \/ Pending(walk[w].path) \/ Counts(w)

Holding(p) ==
  cache[p] = Nothing \/ cache[p].excused \/ Pending(p) \/ cache[p].size = SizeOf(p)

(* What the last fingerprint has missed is known by a difference. *)
Seen ==
  /\ source # "poll" => unseen = {}
  /\ last = NoFingerprint \/ last = Fingerprint(disk) => unseen = {}

SizesInv ==
  /\ TypeOK /\ Nested /\ Seen
  /\ \A w \in Walkers : Walks(w)
  /\ \A p \in Dirs : Holding(p)

LEMMA FullAreFinite ==
  ASSUME TRUE
  PROVE  /\ \A p : IsFiniteSet(Within(p)) /\ SizeOf(p) = Cardinality(Within(p))
                   /\ SizeOf(p) \in Nat
         /\ \A s : IsFiniteSet(Ahead(s)) /\ Cardinality(Ahead(s)) \in Nat
<1>1. IsFiniteSet(Dirs)
  BY TreeAssumption DEF TreeAssumption
<1>2. ASSUME NEW p
      PROVE  IsFiniteSet(Within(p)) /\ SizeOf(p) = Cardinality(Within(p)) /\ SizeOf(p) \in Nat
  <2>1. Within(p) \in SUBSET Dirs
    BY DEF Within
  <2>2. IsFiniteSet(Within(p)) /\ Cardinality(Within(p)) \in Nat
    BY <1>1, <2>1, FS_Subset, FS_CardinalityType
  <2>3. SizeOf(p) = Cardinality(Within(p))
    BY DEF SizeOf, Within, Full
  <2> QED
    BY <2>2, <2>3
<1>3. ASSUME NEW s
      PROVE  IsFiniteSet(Ahead(s)) /\ Cardinality(Ahead(s)) \in Nat
  <2>1. Ahead(s) \in SUBSET Dirs
    BY DEF Ahead
  <2> QED
    BY <1>1, <2>1, FS_Subset, FS_CardinalityType
<1> QED
  BY <1>2, <1>3

(* What is full is there. *)
LEMMA FullIsPresent ==
  ASSUME NEW q \in Dirs, Full(q)
  PROVE  Present(q)
BY DEF Full, Present, Gone

(* At the start all of it is ahead. *)
LEMMA StartsWhole ==
  ASSUME NEW p \in Dirs
  PROVE  Ahead(<<p>>) = Within(p) /\ Apart(<<p>>)
<1> DEFINE s == <<p>>
<1>1. Len(s) = 1 /\ s[1] = p
  OBVIOUS
<1> HIDE DEF s
<1>2. \A e : Holds(s, e) <=> e = p
  BY <1>1 DEF Holds
<1>3. Apart(s)
  BY <1>1 DEF Apart
<1>4. Ahead(s) = Within(p)
  BY <1>2 DEF Ahead, Within
<1> QED
  BY <1>3, <1>4 DEF s

(* In the end nothing is. *)
LEMMA EndsWhole ==
  Ahead(<< >>) = {}
BY DEF Ahead, Holds

(* A directory is popped: its children take its place, and its own bytes   *)
(* are counted.                                                            *)
LEMMA VisitCounts ==
  ASSUME Nested, NEW s \in Seq(Dirs), s # << >>, Apart(s), disk \in [Dirs -> Entry],
         NEW t, t = Front(s) \o SetToSeq({q \in Children(Last(s)) : Present(q)})
  PROVE  /\ t \in Seq(Dirs) /\ Apart(t)
         /\ Holds(s, Last(s)) /\ Last(s) \in Dirs
         /\ \A e \in Dirs : Holds(t, e) => Holds(s, e) \/ AtOrUnder(e, Last(s))
         /\ disk[Last(s)].bytes \in Nat
         /\ Cardinality(Ahead(s)) = disk[Last(s)].bytes + Cardinality(Ahead(t))
<1> DEFINE dir == Last(s)
           front == Front(s)
           C == {q \in Children(dir) : Present(q)}
           below == SetToSeq(C)
<1>1. /\ dir \in Dirs /\ front \in Seq(Dirs) /\ Apart(front)
      /\ \A e : Holds(s, e) <=> Holds(front, e) \/ e = dir
      /\ \A e : Holds(front, e) => ~AtOrUnder(e, dir) /\ ~AtOrUnder(dir, e)
  BY Popped
<1>2. C \in SUBSET Dirs /\ IsFiniteSet(C)
  <2>1. C \in SUBSET Dirs
    BY DEF Children
  <2> HIDE DEF C
  <2> QED
    BY <2>1, FS_Subset, TreeAssumption DEF TreeAssumption
<1>3. \A c \in C : Under(c, dir) /\ Len(c) = Len(dir) + 1 /\ Present(c)
  BY DEF Children
<1>4. \A c \in Children(dir) : Present(c) => c \in C
  OBVIOUS
<1> HIDE DEF dir, front, C
<1>5. /\ below \in Seq(C)
      /\ \A e \in C : \E i \in 1..Len(below) : below[i] = e
      /\ \A i, j \in 1..Len(below) : below[i] = below[j] => i = j
  BY <1>2, InARow
<1> HIDE DEF below
<1>6. below \in Seq(Dirs)
  BY <1>2, <1>5
<1>7. \A e : Holds(below, e) <=> e \in C
  BY <1>5, ElementOfSeq DEF Holds
<1>8. Apart(below)
  <2>1. ASSUME NEW i \in 1..Len(below), NEW j \in 1..Len(below), i # j
        PROVE  ~AtOrUnder(below[i], below[j])
    <3> DEFINE a == below[i]
               b == below[j]
    <3>1. a \in C /\ b \in C /\ a # b
      BY <1>5, <2>1, ElementOfSeq
    <3> HIDE DEF a, b
    <3>2. a \in Dirs /\ b \in Dirs /\ Len(a) = Len(b)
      BY <1>2, <1>3, <3>1
    <3>3. ~AtOrUnder(a, b)
      BY <3>1, <3>2, Longer
    <3> QED
      BY <3>3 DEF a, b
  <2> QED
    BY <2>1 DEF Apart
<1>9. ASSUME NEW d, NEW e, Holds(front, d), Holds(below, e)
      PROVE  ~AtOrUnder(d, e) /\ ~AtOrUnder(e, d)
  <2>1. d \in Dirs /\ e \in Dirs
    BY <1>1, <1>2, <1>7, <1>9, ElementOfSeq DEF Holds
  <2>2. AtOrUnder(e, dir)
    BY <1>3, <1>7, <1>9, UnderIs
  <2>3. ~AtOrUnder(d, dir) /\ ~AtOrUnder(dir, d)
    BY <1>1, <1>9
  <2>4. ~AtOrUnder(d, e)
    BY <1>1, <2>1, <2>2, <2>3, FurtherDown
  <2>5. ~AtOrUnder(e, d)
    BY <1>1, <2>1, <2>2, <2>3, InLine
  <2> QED
    BY <2>4, <2>5
<1>10. t = front \o below
  BY DEF front, below, C, dir
<1>11. t \in Seq(Dirs) /\ \A e : Holds(t, e) <=> Holds(front, e) \/ e \in C
  <2>1. front \o below \in Seq(Dirs)
        /\ \A e : Holds(front \o below, e) <=> Holds(front, e) \/ Holds(below, e)
    BY <1>1, <1>6, JoinedHolds
  <2> QED
    BY <1>7, <1>10, <2>1
<1>12. Apart(t)
  BY <1>1, <1>6, <1>8, <1>9, <1>10, JoinedApart
<1>13. ASSUME NEW q \in Dirs
       PROVE  q \in Ahead(s) <=> q \in Ahead(t) \/ (q = dir /\ Full(dir))
  <2>1. ASSUME q \in Ahead(s)
        PROVE  q \in Ahead(t) \/ (q = dir /\ Full(dir))
    <3>1. PICK e \in Dirs : Holds(s, e) /\ AtOrUnder(q, e)
      BY <2>1 DEF Ahead
    <3>2. Full(q)
      BY <2>1 DEF Ahead
    <3>3. CASE Holds(front, e)
      BY <1>11, <3>1, <3>2, <3>3 DEF Ahead
    <3>4. CASE e = dir /\ q # dir
      <4>1. Under(q, dir)
        BY <3>1, <3>4, UnderIs
      <4>2. PICK c \in Children(dir) : AtOrUnder(q, c)
        BY <1>1, <4>1, ByAChild
      <4>3. c \in Dirs
        BY DEF Children
      <4>4. Present(q)
        BY <3>2, FullIsPresent
      <4>5. Present(c)
        BY <4>2, <4>3, <4>4, UnderIs DEF Nested
      <4>6. c \in C
        BY <1>4, <4>5
      <4> QED
        BY <1>11, <3>2, <4>2, <4>3, <4>6 DEF Ahead
    <3>5. CASE e = dir /\ q = dir
      BY <3>2, <3>5
    <3> QED
      BY <1>1, <3>1, <3>3, <3>4, <3>5
  <2>2. ASSUME q \in Ahead(t)
        PROVE  q \in Ahead(s)
    <3>1. PICK e \in Dirs : Holds(t, e) /\ AtOrUnder(q, e)
      BY <2>2 DEF Ahead
    <3>2. Full(q)
      BY <2>2 DEF Ahead
    <3>3. CASE Holds(front, e)
      BY <1>1, <3>1, <3>2, <3>3 DEF Ahead
    <3>4. CASE e \in C
      <4>1. AtOrUnder(e, dir)
        BY <1>3, <3>4, UnderIs
      <4>2. AtOrUnder(q, dir)
        BY <1>1, <3>1, <4>1, FurtherDown
      <4> QED
        BY <1>1, <3>2, <4>2 DEF Ahead
    <3> QED
      BY <1>11, <3>1, <3>3, <3>4
  <2>3. ASSUME q = dir, Full(dir)
        PROVE  q \in Ahead(s)
    BY <1>1, <2>3, AtItself DEF Ahead
  <2> QED
    BY <2>1, <2>2, <2>3
<1>14. dir \notin Ahead(t)
  <2>1. SUFFICES ASSUME NEW e \in Dirs, Holds(t, e), AtOrUnder(dir, e)
                 PROVE  FALSE
    BY DEF Ahead
  <2>2. CASE Holds(front, e)
    BY <1>1, <2>1, <2>2
  <2>3. CASE e \in C
    <3>1. AtOrUnder(e, dir) /\ e # dir
      BY <1>3, <2>3, UnderIs
    <3> QED
      BY <1>1, <2>1, <3>1, OneWay
  <2> QED
    BY <1>11, <2>1, <2>2, <2>3
<1>15. IsFiniteSet(Ahead(t)) /\ Cardinality(Ahead(t)) \in Nat
  BY FullAreFinite
<1>16. Ahead(s) \subseteq Dirs /\ Ahead(t) \subseteq Dirs
  BY DEF Ahead
<1>17. disk[dir].bytes \in {0, 1}
  BY <1>1 DEF Entry
<1>a. /\ Holds(s, dir)
      /\ \A e \in Dirs : Holds(t, e) => Holds(s, e) \/ AtOrUnder(e, dir)
  BY <1>1, <1>3, <1>11, UnderIs
<1>18. CASE Full(dir)
  <2>1. Ahead(s) = Ahead(t) \cup {dir}
    BY <1>1, <1>13, <1>16, <1>18
  <2>2. Cardinality(Ahead(t) \cup {dir}) = Cardinality(Ahead(t)) + 1
    BY <1>14, <1>15, FS_AddElement
  <2>3. disk[dir].bytes = 1
    BY <1>18 DEF Full
  <2> QED
    BY <1>1, <1>11, <1>12, <1>15, <1>a, <2>1, <2>2, <2>3 DEF dir
<1>19. CASE ~Full(dir)
  <2>1. Ahead(s) = Ahead(t)
    BY <1>13, <1>16, <1>19
  <2>2. disk[dir].bytes = 0
    BY <1>17, <1>19 DEF Full
  <2> QED
    BY <1>1, <1>11, <1>12, <1>15, <1>a, <2>1, <2>2 DEF dir
<1> QED
  BY <1>18, <1>19


-----------------------------------------------------------------------------
(* Types.                                                                  *)
LEMMA Budgets ==
  ASSUME TypeOK, NEW what \in {"changes", "faults"}, budget[what] > 0, Spend(what)
  PROVE  budget' \in [changes : 0..MaxChanges, faults : 0..MaxFaults]
<1>1. /\ budget \in [changes : 0..MaxChanges, faults : 0..MaxFaults]
      /\ MaxChanges \in Nat /\ MaxFaults \in Nat
  BY SizesAssumption DEF TypeOK, SizesAssumption
<1>2. CASE what = "changes"
  BY <1>1, <1>2 DEF Spend
<1>3. CASE what = "faults"
  BY <1>1, <1>3 DEF Spend
<1> QED
  BY <1>2, <1>3

LEMMA RowsOfTold ==
  ASSUME NEW row \in Seq(Told), NEW update \in Told
  PROVE  /\ Append(row, update) \in Seq(Told) /\ Len(Append(row, update)) = Len(row) + 1
         /\ \A i \in 1..Len(row) : i \in 1..(Len(row) + 1) /\ Append(row, update)[i] = row[i]
         /\ Len(row) + 1 \in 1..(Len(row) + 1)
         /\ Append(row, update)[Len(row) + 1] = update
         /\ Len(row) \in Nat
<1> DEFINE n == Len(row)
<1>1. n \in Nat
  BY LenProperties
<1>2. /\ Append(row, update) \in Seq(Told)
      /\ Len(Append(row, update)) = n + 1
      /\ \A i \in 1..n : Append(row, update)[i] = row[i]
      /\ Append(row, update)[n + 1] = update
  BY AppendProperties
<1> HIDE DEF n
<1>3. n + 1 \in 1..(n + 1) /\ \A i \in 1..n : i \in 1..(n + 1)
  BY <1>1
<1> QED
  BY <1>1, <1>2, <1>3 DEF n

LEMMA RestOfTold ==
  ASSUME NEW row \in Seq(Told), row # << >>
  PROVE  /\ Head(row) \in Told /\ Tail(row) \in Seq(Told) /\ Head(row) = row[1]
         /\ Len(Tail(row)) = Len(row) - 1 /\ Len(row) \in Nat \ {0}
         /\ \A i \in 1..Len(row) : i # 1 =>
              i - 1 \in 1..Len(Tail(row)) /\ Tail(row)[i - 1] = row[i]
<1> DEFINE n == Len(row)
           rest == Tail(row)
<1>1. n \in Nat \ {0}
  BY LenProperties, EmptySeq
<1>2. /\ Head(row) \in Told /\ rest \in Seq(Told) /\ Head(row) = row[1]
      /\ Len(rest) = n - 1
      /\ \A i \in 1..(n - 1) : rest[i] = row[i + 1]
  <2>1. Head(row) = row[1]
    OBVIOUS
  <2>2. Head(row) \in Told /\ rest \in Seq(Told)
    BY HeadTailProperties
  <2>3. Len(rest) = n - 1 /\ \A i \in 1..Len(rest) : rest[i] = row[i + 1]
    BY HeadTailProperties
  <2> QED
    BY <2>1, <2>2, <2>3
<1> HIDE DEF n, rest
<1>3. ASSUME NEW i \in 1..n, i # 1
      PROVE  i - 1 \in 1..(n - 1) /\ rest[i - 1] = row[i]
  <2>1. i - 1 \in 1..(n - 1) /\ (i - 1) + 1 = i
    BY <1>1, <1>3
  <2> QED
    BY <1>2, <2>1
<1> QED
  BY <1>1, <1>2, <1>3 DEF n, rest

LEMMA NotifiedIs ==
  ASSUME TypeOK, NEW paths \in SUBSET Dirs
  PROVE  /\ Notified(paths) \in Seq(Told)
         /\ \A i \in 1..Len(raw) :
              i \in 1..Len(Notified(paths)) /\ Notified(paths)[i] = raw[i]
         /\ source = "watch" =>
              \E i \in 1..Len(Notified(paths)) : Notified(paths)[i] \in {paths, Rescan}
<1>1. raw \in Seq(Told) /\ Len(raw) \in Nat /\ QueueCap \in Nat \ {0}
  BY LenProperties, SizesAssumption DEF TypeOK, SizesAssumption
<1>2. paths \in Told /\ Rescan \in Told
  BY DEF Told
<1>3. CASE source # "watch"
  BY <1>1, <1>3 DEF Notified
<1>4. CASE source = "watch" /\ Len(raw) < QueueCap
  <2>1. Notified(paths) = Append(raw, paths)
    BY <1>4 DEF Notified
  <2> QED
    BY <1>1, <1>2, <2>1, RowsOfTold
<1>5. CASE source = "watch" /\ ~(Len(raw) < QueueCap) /\ Last(raw) # Rescan
  <2>1. Notified(paths) = Append(raw, Rescan)
    BY <1>5 DEF Notified
  <2> QED
    BY <1>1, <1>2, <2>1, RowsOfTold
<1>6. CASE source = "watch" /\ ~(Len(raw) < QueueCap) /\ Last(raw) = Rescan
  <2>1. Notified(paths) = raw
    BY <1>6 DEF Notified
  <2>2. Len(raw) \in 1..Len(raw)
    BY <1>1, <1>6
  <2>3. raw[Len(raw)] = Rescan
    BY <1>6 DEF Last
  <2> QED
    BY <1>1, <2>1, <2>2, <2>3
<1> QED
  BY <1>3, <1>4, <1>5, <1>6

LEMMA ExcuseTypes ==
  ASSUME TypeOK, NEW unknown, Excuse(unknown)
  PROVE  /\ walk' \in [Walkers -> WalkState]
         /\ cache' \in [Dirs -> [key : {<< >>} \cup ((Dirs \cup {<< >>}) \X Nat), size : Nat,
                                excused : BOOLEAN]]
         /\ \A w \in Walkers :
              /\ walk'[w].at = walk[w].at /\ walk'[w].path = walk[w].path
              /\ walk'[w].stack = walk[w].stack /\ walk'[w].total = walk[w].total
              /\ walk[w].excused => walk'[w].excused
              /\ walk[w].path \in unknown => walk'[w].excused
         /\ \A p \in Dirs :
              /\ cache[p] = Nothing => cache'[p] = Nothing
              /\ cache[p] # Nothing =>
                   /\ cache'[p].size = cache[p].size
                   /\ cache[p].excused \/ p \in unknown => cache'[p].excused
<1>1. walk \in [Walkers -> WalkState]
  BY DEF TypeOK
<1>2. cache \in [Dirs -> [key : {<< >>} \cup ((Dirs \cup {<< >>}) \X Nat), size : Nat,
                         excused : BOOLEAN]]
  BY DEF TypeOK
<1>3. walk' = [w \in Walkers |-> IF walk[w].path \in unknown
                                 THEN [walk[w] EXCEPT !.excused = TRUE] ELSE walk[w]]
  BY DEF Excuse
<1>4. cache' = [p \in Dirs |-> IF p \in unknown /\ cache[p] # Nothing
                               THEN [cache[p] EXCEPT !.excused = TRUE] ELSE cache[p]]
  BY DEF Excuse
<1>5. ASSUME NEW w \in Walkers
      PROVE  /\ walk'[w] \in WalkState
             /\ walk'[w].at = walk[w].at /\ walk'[w].path = walk[w].path
             /\ walk'[w].stack = walk[w].stack /\ walk'[w].total = walk[w].total
             /\ walk[w].excused => walk'[w].excused
             /\ walk[w].path \in unknown => walk'[w].excused
  <2>1. walk[w] \in WalkState
    BY <1>1
  <2>2. walk'[w] = IF walk[w].path \in unknown
                   THEN [walk[w] EXCEPT !.excused = TRUE] ELSE walk[w]
    BY <1>3
  <2>3. CASE walk[w].path \in unknown
    <3> DEFINE v == walk[w]
               x == [v EXCEPT !.excused = TRUE]
    <3>1. /\ x \in WalkState
          /\ x.at = v.at /\ x.path = v.path /\ x.stack = v.stack /\ x.total = v.total
          /\ x.excused
      <4> HIDE DEF v
      <4>1. v \in WalkState
        BY <2>1 DEF v
      <4>2. x \in WalkState
        BY <4>1 DEF WalkState
      <4>3. x.at = v.at /\ x.path = v.path /\ x.stack = v.stack /\ x.total = v.total
        BY <4>1 DEF WalkState
      <4>4. x.excused
        BY <4>1 DEF WalkState
      <4> QED
        BY <4>2, <4>3, <4>4
    <3>2. walk'[w] = x
      BY <2>2, <2>3
    <3> QED
      BY <3>1, <3>2
  <2>4. CASE walk[w].path \notin unknown
    BY <2>1, <2>2, <2>4
  <2> QED
    BY <2>3, <2>4
<1>6. ASSUME NEW p \in Dirs
      PROVE  /\ cache'[p] \in [key : {<< >>} \cup ((Dirs \cup {<< >>}) \X Nat), size : Nat,
                               excused : BOOLEAN]
             /\ cache[p] = Nothing => cache'[p] = Nothing
             /\ cache[p] # Nothing =>
                  /\ cache'[p].size = cache[p].size
                  /\ cache[p].excused \/ p \in unknown => cache'[p].excused
  <2>1. cache[p] \in [key : {<< >>} \cup ((Dirs \cup {<< >>}) \X Nat), size : Nat,
                      excused : BOOLEAN]
    BY <1>2
  <2>2. cache'[p] = IF p \in unknown /\ cache[p] # Nothing
                    THEN [cache[p] EXCEPT !.excused = TRUE] ELSE cache[p]
    BY <1>4
  <2>3. CASE p \in unknown /\ cache[p] # Nothing
    BY <2>1, <2>2, <2>3
  <2>4. CASE ~(p \in unknown /\ cache[p] # Nothing)
    BY <2>1, <2>2, <2>4
  <2> QED
    BY <2>3, <2>4
<1>7. walk' \in [Walkers -> WalkState]
  BY <1>3, <1>5
<1>8. cache' \in [Dirs -> [key : {<< >>} \cup ((Dirs \cup {<< >>}) \X Nat), size : Nat,
                          excused : BOOLEAN]]
  BY <1>4, <1>6
<1> QED
  BY <1>5, <1>6, <1>7, <1>8

-----------------------------------------------------------------------------
(* What other programs change.                                             *)

(* Elsewhere than at the paths told of, above them and at those no event   *)
(* tells of, nothing changes.                                              *)
Elsewhere(after, paths, below) ==
  \A v \in Dirs : v \in below \/ (\E q \in paths : AtOrUnder(q, v))
                  \/ \A r \in Dirs : AtOrUnder(r, v) => after[r] = disk[r]

StillNested(after) == \A p, q \in Dirs : after[q] # Gone /\ Under(q, p) => after[p] # Gone

LEMMA ChangesType ==
  ASSUME TypeOK, NEW after \in [Dirs -> Entry], NEW paths \in SUBSET Dirs,
         NEW below \in SUBSET Dirs, Changes(after, paths, below)
  PROVE  TypeOK'
<1>1. PICK unknown : Excuse(unknown)
  BY DEF Changes
<1>2. /\ walk' \in [Walkers -> WalkState]
      /\ cache' \in [Dirs -> [key : {<< >>} \cup ((Dirs \cup {<< >>}) \X Nat), size : Nat,
                             excused : BOOLEAN]]
  BY <1>1, ExcuseTypes
<1>3. disk' \in [Dirs -> Entry]
  BY DEF Changes
<1>4. raw' \in Seq(Told)
  BY NotifiedIs DEF Changes
<1>5. unseen' \subseteq Dirs
  BY DEF Changes, TypeOK
<1>6. budget' \in [changes : 0..MaxChanges, faults : 0..MaxFaults]
  BY Budgets DEF Changes
<1>7. UNCHANGED <<source, batch, last, updates>>
  BY DEF Changes
<1> QED
  BY <1>2, <1>3, <1>4, <1>5, <1>6, <1>7 DEF TypeOK

LEMMA ChangesTell ==
  ASSUME SizesInv, NEW after \in [Dirs -> Entry], NEW paths \in SUBSET Dirs,
         NEW below \in SUBSET Dirs, Changes(after, paths, below),
         NEW unknown, unknown = IF source # "poll" THEN below
                                ELSE IF Unpolled(after)
                                THEN unseen \cup {p \in Dirs : \E q \in paths : AtOrUnder(q, p)}
                                     \cup below
                                ELSE {},
         NEW v \in Dirs
  PROVE  /\ Pending(v) => v \in unknown \/ Pending(v)'
         /\ v \in below \/ (\E q \in paths : AtOrUnder(q, v)) =>
              v \in unknown \/ Pending(v)'
<1> DEFINE above == {p \in Dirs : \E q \in paths : AtOrUnder(q, p)}
<1>1. TypeOK /\ Seen
  BY DEF SizesInv
<1>2. /\ raw' = Notified(paths) /\ UNCHANGED <<source, batch, last, updates>>
      /\ unseen' = IF source # "poll" \/ Unpolled(after) THEN {}
                   ELSE unseen \cup above \cup below
  BY DEF Changes
<1>3. /\ \A i \in 1..Len(raw) : i \in 1..Len(raw') /\ raw'[i] = raw[i]
      /\ source = "watch" => \E i \in 1..Len(raw') : raw'[i] \in {paths, Rescan}
  BY <1>1, <1>2, NotifiedIs
<1>4. source # "poll" => source = "watch" /\ unseen = {}
  BY <1>1, SizesAssumption DEF TypeOK, Seen, SizesAssumption
<1>5. v \in unseen \cup above \cup below /\ source = "poll" => v \in unknown \/ v \in unseen'
  BY <1>2
<1>6. ASSUME \E i \in 1..Len(raw') : Covered(raw'[i], v)
      PROVE  Pending(v)'
  BY <1>6 DEF Pending, Covered
<1>7. ASSUME Pending(v)
      PROVE  v \in unknown \/ Pending(v)'
  <2>1. CASE \E i \in 1..Len(raw) : Covered(raw[i], v)
    BY <1>3, <1>6, <2>1
  <2>2. CASE batch.held /\ (batch.rescan \/ \E q \in batch.changed : AtOrUnder(q, v))
    BY <1>2, <2>2 DEF Pending, Covered
  <2>3. CASE \E i \in 1..Len(updates) : Covered(updates[i], v)
    BY <1>2, <2>3 DEF Pending, Covered
  <2>4. CASE v \in unseen
    BY <1>4, <1>5, <2>4 DEF Pending
  <2> QED
    BY <1>7, <2>1, <2>2, <2>3, <2>4 DEF Pending
<1>8. ASSUME v \in below \/ \E q \in paths : AtOrUnder(q, v)
      PROVE  v \in unknown \/ Pending(v)'
  <2>1. CASE source = "poll"
    BY <1>5, <1>8, <2>1 DEF Pending
  <2>2. CASE source = "watch" /\ v \in below
    BY <2>2
  <2>3. CASE source = "watch" /\ \E q \in paths : AtOrUnder(q, v)
    <3>1. PICK i \in 1..Len(raw') : raw'[i] \in {paths, Rescan}
      BY <1>3, <2>3
    <3>2. Covered(raw'[i], v)
      BY <2>3, <3>1 DEF Covered
    <3> QED
      BY <1>6, <3>1, <3>2
  <2> QED
    BY <1>4, <1>8, <2>1, <2>2, <2>3
<1> QED
  BY <1>7, <1>8

LEMMA ChangesKeep ==
  ASSUME SizesInv, NEW after \in [Dirs -> Entry], NEW paths \in SUBSET Dirs,
         NEW below \in SUBSET Dirs, Changes(after, paths, below),
         Elsewhere(after, paths, below), StillNested(after)
  PROVE  SizesInv'
<1> DEFINE above == {p \in Dirs : \E q \in paths : AtOrUnder(q, p)}
           unknown == IF source # "poll" THEN below
                      ELSE IF Unpolled(after) THEN unseen \cup above \cup below ELSE {}
<1>1. /\ TypeOK /\ Seen
      /\ \A w \in Walkers : Walks(w)
      /\ \A p \in Dirs : Holding(p)
  BY DEF SizesInv
<1>2. TypeOK'
  BY <1>1, ChangesType
<1>3. disk' = after /\ Excuse(unknown) /\ UNCHANGED <<source, last>>
  BY DEF Changes
<1>4. ASSUME NEW v \in Dirs
      PROVE  /\ Pending(v) => v \in unknown \/ Pending(v)'
             /\ v \in below \/ (\E q \in paths : AtOrUnder(q, v)) =>
                  v \in unknown \/ Pending(v)'
  BY ChangesTell
<1>5. Nested'
  BY <1>3 DEF StillNested, Nested, Present
<1>6. Seen'
  <2>1. unseen' # {} => source = "poll" /\ ~Unpolled(after)
    BY DEF Changes
  <2>2. Fingerprint(disk)' = Fingerprint(after)
    BY <1>3 DEF Fingerprint
  <2> QED
    BY <1>3, <2>1, <2>2 DEF Seen, Unpolled
<1> HIDE DEF unknown
<1>7. /\ \A w \in Walkers :
           /\ walk'[w].at = walk[w].at /\ walk'[w].path = walk[w].path
           /\ walk'[w].stack = walk[w].stack /\ walk'[w].total = walk[w].total
           /\ walk[w].excused => walk'[w].excused
           /\ walk[w].path \in unknown => walk'[w].excused
      /\ \A p \in Dirs :
           /\ cache[p] = Nothing => cache'[p] = Nothing
           /\ cache[p] # Nothing =>
                /\ cache'[p].size = cache[p].size
                /\ cache[p].excused \/ p \in unknown => cache'[p].excused
  BY <1>1, <1>3, ExcuseTypes
<1>8. ASSUME NEW v \in Dirs, v \notin unknown, ~Pending(v)'
      PROVE  ~Pending(v) /\ \A r \in Dirs : AtOrUnder(r, v) => disk'[r] = disk[r]
  BY <1>3, <1>4, <1>8 DEF Elsewhere
<1>9. ASSUME NEW v \in Dirs, v \notin unknown, ~Pending(v)'
      PROVE  SizeOf(v)' = SizeOf(v)
  <2>1. {q \in Dirs : AtOrUnder(q, v) /\ disk'[q].bytes = 1}
          = {q \in Dirs : AtOrUnder(q, v) /\ disk[q].bytes = 1}
    BY <1>8, <1>9
  <2> QED
    BY <2>1 DEF SizeOf
<1>10. ASSUME NEW p \in Dirs
       PROVE  Holding(p)'
  <2>1. Holding(p)
    BY <1>1
  <2>2. CASE cache[p] = Nothing
    BY <1>7, <2>2 DEF Holding, Nothing
  <2>3. CASE cache[p] # Nothing /\ (cache[p].excused \/ p \in unknown)
    BY <1>7, <2>3 DEF Holding
  <2>4. CASE Pending(p)'
    BY <2>4 DEF Holding
  <2>5. CASE cache[p] # Nothing /\ ~cache[p].excused /\ p \notin unknown /\ ~Pending(p)'
    <3>1. cache[p].size = SizeOf(p)
      BY <1>8, <2>1, <2>5 DEF Holding
    <3>2. cache'[p].size = SizeOf(p)'
      BY <1>7, <1>9, <2>5, <3>1
    <3> QED
      BY <3>2 DEF Holding
  <2> QED
    BY <2>2, <2>3, <2>4, <2>5
<1>11. ASSUME NEW w \in Walkers
       PROVE  Walks(w)'
  <2>1. Walks(w)
    BY <1>1
  <2>2. /\ walk'[w].at = walk[w].at /\ walk'[w].path = walk[w].path
        /\ walk'[w].stack = walk[w].stack /\ walk'[w].total = walk[w].total
        /\ walk[w].excused => walk'[w].excused
        /\ walk[w].path \in unknown => walk'[w].excused
    BY <1>7
  <2>3. CASE walk[w].at = "idle"
    BY <2>2, <2>3 DEF Walks
  <2>4. CASE walk[w].at # "idle"
    <3>a. PICK v \in Dirs : v = walk[w].path
      BY <2>1, <2>4 DEF Walks
    <3>1. /\ walk'[w].path = v
          /\ walk[w].at = "walking" =>
               /\ Apart(walk[w].stack)
               /\ \A e \in Dirs : Holds(walk[w].stack, e) => AtOrUnder(e, v)
          /\ walk[w].excused \/ Pending(v) \/ Counts(w)
      BY <2>1, <2>2, <2>4, <3>a DEF Walks
    <3>2. /\ walk'[w].path \in Dirs
          /\ walk'[w].at = "walking" =>
               /\ Apart(walk'[w].stack)
               /\ \A e \in Dirs : Holds(walk'[w].stack, e) => AtOrUnder(e, walk'[w].path)
      BY <2>2, <3>1
    <3>3. CASE walk'[w].excused
      BY <3>2, <3>3 DEF Walks
    <3>4. CASE Pending(v)'
      <4>1. Pending(walk[w].path)'
        BY <3>1, <3>4
      <4> QED
        BY <3>2, <4>1 DEF Walks
    <3>5. CASE ~walk'[w].excused /\ ~Pending(v)'
      <4>1. v \notin unknown /\ ~walk[w].excused
        BY <2>2, <3>5, <3>a
      <4>2. ~Pending(v) /\ \A r \in Dirs : AtOrUnder(r, v) => disk'[r] = disk[r]
        BY <1>8, <3>1, <3>5, <4>1
      <4>3. SizeOf(v)' = SizeOf(v)
        BY <1>9, <3>1, <3>5, <4>1
      <4>4. Counts(w)
        BY <3>1, <3>a, <4>1, <4>2
      <4>5. walk[w].at = "walking" => Ahead(walk[w].stack)' = Ahead(walk[w].stack)
        <5>1. PICK s : s = walk[w].stack
          OBVIOUS
        <5>2. walk'[w].stack = s
          BY <2>2, <5>1
        <5>3. ASSUME walk[w].at = "walking", NEW q \in Dirs, NEW e \in Dirs, Holds(s, e),
                     AtOrUnder(q, e)
              PROVE  disk'[q] = disk[q]
          BY <3>1, <3>a, <4>2, <5>1, <5>3, FurtherDown
        <5>4. ASSUME walk[w].at = "walking"
              PROVE  Ahead(s)' = Ahead(s)
          BY <5>3, <5>4 DEF Ahead, Full
        <5> QED
          BY <5>1, <5>2, <5>4 DEF Ahead, Full
      <4>6. Counts(w)'
        <5>1. SizeOf(walk[w].path)' = SizeOf(walk[w].path)
          BY <3>1, <3>a, <4>3
        <5>2. CASE walk[w].at = "walking"
          <6>1. walk[w].total + Cardinality(Ahead(walk[w].stack)) = SizeOf(walk[w].path)
            BY <4>4, <5>2 DEF Counts
          <6>2. walk'[w].total + Cardinality(Ahead(walk[w].stack)') = SizeOf(walk[w].path)'
            BY <2>2, <4>5, <5>1, <5>2, <6>1
          <6> QED
            BY <2>2, <5>2, <6>2 DEF Counts
        <5>3. CASE walk[w].at = "keyed"
          <6>1. walk[w].total = SizeOf(walk[w].path)
            BY <4>4, <5>3 DEF Counts
          <6>2. walk'[w].total = SizeOf(walk[w].path)'
            BY <2>2, <5>1, <6>1
          <6> QED
            BY <2>2, <5>3, <6>2 DEF Counts
        <5>4. CASE walk[w].at # "walking" /\ walk[w].at # "keyed"
          BY <2>2, <5>4 DEF Counts
        <5> QED
          BY <5>2, <5>3, <5>4
      <4> QED
        BY <3>2, <4>6 DEF Walks
    <3> QED
      BY <3>3, <3>4, <3>5
  <2> QED
    BY <2>3, <2>4
<1> QED
  BY <1>2, <1>5, <1>6, <1>10, <1>11 DEF SizesInv

LEMMA FileChangesKeeps ==
  ASSUME SizesInv, FileChanges
  PROVE  SizesInv'
<1>1. TypeOK /\ Nested
  BY DEF SizesInv
<1>2. disk \in [Dirs -> Entry]
  BY <1>1 DEF TypeOK
<1>3. PICK p \in Dirs, stamped \in {0, 1} :
        /\ Present(p)
        /\ Changes([disk EXCEPT ![p].bytes = 1 - @, ![p].version = @ + 1,
                                ![p].mtime = @ + stamped], {p}, {})
  BY DEF FileChanges
<1>4. PICK after : after = [disk EXCEPT ![p].bytes = 1 - @, ![p].version = @ + 1,
                                        ![p].mtime = @ + stamped]
  OBVIOUS
<1>5. Changes(after, {p}, {})
  BY <1>3, <1>4
<1>6. PICK e \in Entry : e = disk[p]
  BY <1>2
<1>7. after = [disk EXCEPT ![p] = [ino |-> e.ino, mtime |-> e.mtime + stamped,
                                   version |-> e.version + 1, bytes |-> 1 - e.bytes]]
  BY <1>2, <1>4, <1>6 DEF Entry
<1>8. [ino |-> e.ino, mtime |-> e.mtime + stamped, version |-> e.version + 1,
       bytes |-> 1 - e.bytes] \in Entry \ {Gone}
  <2>1. /\ e.ino \in Dirs \cup {<< >>} /\ e.mtime \in Nat /\ e.version \in Nat
        /\ e.bytes \in {0, 1}
    BY <1>6 DEF Entry
  <2>2. /\ e.mtime + stamped \in Nat /\ e.version + 1 \in Nat \ {0} /\ 1 - e.bytes \in {0, 1}
    BY <2>1
  <2> QED
    BY <2>1, <2>2 DEF Entry, Gone
<1>9. /\ after \in [Dirs -> Entry] /\ after[p] # Gone
      /\ \A r \in Dirs : r # p => after[r] = disk[r]
  <2>1. PICK f : f = [ino |-> e.ino, mtime |-> e.mtime + stamped,
                      version |-> e.version + 1, bytes |-> 1 - e.bytes]
    OBVIOUS
  <2>2. after = [disk EXCEPT ![p] = f] /\ f \in Entry \ {Gone}
    BY <1>7, <1>8, <2>1
  <2> QED
    BY <1>2, <2>2
<1>10. StillNested(after)
  BY <1>1, <1>3, <1>9 DEF StillNested, Nested, Present
<1>11. Elsewhere(after, {p}, {})
  BY <1>9 DEF Elsewhere
<1> QED
  BY <1>5, <1>9, <1>10, <1>11, ChangesKeep

(* What is where, once a directory is renamed. *)
LEMMA RenamedIs ==
  ASSUME disk \in [Dirs -> Entry], NEW p \in Dirs, NEW q \in Dirs, p # q,
         q \in Children(Front(p)),
         NEW after,
         after = [r \in Dirs |->
                    IF AtOrUnder(r, q) THEN disk[Moved(r, q, p)]
                    ELSE IF AtOrUnder(r, p) THEN Gone
                    ELSE IF r = Front(p) THEN [disk[r] EXCEPT !.mtime = @ + 1]
                    ELSE disk[r]]
  PROVE  /\ after \in [Dirs -> Entry]
         /\ \A r \in Dirs :
              /\ AtOrUnder(r, q) => after[r] = disk[Moved(r, q, p)]
              /\ ~AtOrUnder(r, q) /\ AtOrUnder(r, p) => after[r] = Gone
              /\ ~AtOrUnder(r, q) /\ ~AtOrUnder(r, p) =>
                   /\ r = Front(p) => after[r] # Gone
                   /\ r # Front(p) => after[r] = disk[r]
<1> DEFINE Bumped(r) == [disk[r] EXCEPT !.mtime = @ + 1]
<1>1. ASSUME NEW r \in Dirs
      PROVE  Bumped(r) \in Entry \ {Gone}
  <2>1. PICK e \in Entry : e = disk[r]
    OBVIOUS
  <2>2. Bumped(r) = [ino |-> e.ino, mtime |-> e.mtime + 1, version |-> e.version,
                     bytes |-> e.bytes]
    BY <2>1 DEF Entry
  <2>3. /\ e.ino \in Dirs \cup {<< >>} /\ e.mtime \in Nat /\ e.version \in Nat
        /\ e.bytes \in {0, 1}
    BY <2>1 DEF Entry
  <2>4. e.mtime + 1 \in Nat \ {0}
    BY <2>3
  <2> HIDE DEF Bumped
  <2> QED
    BY <2>2, <2>3, <2>4 DEF Entry, Gone
<1>2. after = [r \in Dirs |->
                 IF AtOrUnder(r, q) THEN disk[Moved(r, q, p)]
                 ELSE IF AtOrUnder(r, p) THEN Gone
                 ELSE IF r = Front(p) THEN Bumped(r) ELSE disk[r]]
  OBVIOUS
<1> HIDE DEF Bumped
<1>3. Gone \in Entry
  BY DEF Gone, Entry
<1>4. \A r \in Dirs : AtOrUnder(r, q) => Moved(r, q, p) \in Dirs
  BY MovedDirs
<1>5. ASSUME NEW r \in Dirs
      PROVE  after[r] \in Entry
  BY <1>1, <1>2, <1>3, <1>4
<1>6. after \in [Dirs -> Entry]
  BY <1>2, <1>5
<1>7. ASSUME NEW r \in Dirs
      PROVE  /\ AtOrUnder(r, q) => after[r] = disk[Moved(r, q, p)]
             /\ ~AtOrUnder(r, q) /\ AtOrUnder(r, p) => after[r] = Gone
             /\ ~AtOrUnder(r, q) /\ ~AtOrUnder(r, p) =>
                  /\ r = Front(p) => after[r] = Bumped(r)
                  /\ r # Front(p) => after[r] = disk[r]
  BY <1>2
<1> QED
  BY <1>1, <1>6, <1>7

LEMMA DirRenamedKeeps ==
  ASSUME SizesInv, DirRenamed
  PROVE  SizesInv'
<1>1. TypeOK /\ Nested
  BY DEF SizesInv
<1>2. disk \in [Dirs -> Entry]
  BY <1>1 DEF TypeOK
<1>3. PICK p \in Dirs, q \in Dirs :
        /\ Present(p) /\ ~Present(q) /\ q \in Children(Front(p)) /\ Present(Front(p))
        /\ Changes([r \in Dirs |->
                      IF AtOrUnder(r, q) THEN disk[Moved(r, q, p)]
                      ELSE IF AtOrUnder(r, p) THEN Gone
                      ELSE IF r = Front(p) THEN [disk[r] EXCEPT !.mtime = @ + 1]
                      ELSE disk[r]],
                   {p, q}, {r \in Dirs : Under(r, p) \/ Under(r, q)})
  BY DEF DirRenamed
<1>4. PICK after : after = [r \in Dirs |->
                              IF AtOrUnder(r, q) THEN disk[Moved(r, q, p)]
                              ELSE IF AtOrUnder(r, p) THEN Gone
                              ELSE IF r = Front(p) THEN [disk[r] EXCEPT !.mtime = @ + 1]
                              ELSE disk[r]]
  OBVIOUS
<1>5. PICK below \in SUBSET Dirs : below = {r \in Dirs : Under(r, p) \/ Under(r, q)}
  OBVIOUS
<1>6. PICK u : u = Front(p)
  OBVIOUS
<1>7. Changes(after, {p, q}, below) /\ p # q
  BY <1>3, <1>4, <1>5
<1>8. /\ u \in Dirs /\ Under(p, u) /\ Under(q, u)
      /\ ~AtOrUnder(p, q) /\ ~AtOrUnder(q, p) /\ Present(u)
  BY <1>3, <1>6, <1>7, Siblings
<1>9. /\ after \in [Dirs -> Entry]
      /\ \A r \in Dirs :
           /\ AtOrUnder(r, q) => after[r] = disk[Moved(r, q, p)]
           /\ ~AtOrUnder(r, q) /\ AtOrUnder(r, p) => after[r] = Gone
           /\ ~AtOrUnder(r, q) /\ ~AtOrUnder(r, p) =>
                /\ r = u => after[r] # Gone
                /\ r # u => after[r] = disk[r]
  BY <1>2, <1>3, <1>4, <1>6, <1>7, RenamedIs
<1>10. ASSUME NEW r \in Dirs, AtOrUnder(r, q)
       PROVE  /\ Moved(r, q, p) \in Dirs
              /\ \A v \in Dirs : AtOrUnder(v, q) /\ AtOrUnder(r, v) =>
                   AtOrUnder(Moved(r, q, p), Moved(v, q, p))
  BY <1>3, <1>7, <1>10, MovedDirs
<1>11. ASSUME NEW v \in Dirs, Under(p, v) \/ Under(q, v)
       PROVE  AtOrUnder(u, v)
  BY <1>3, <1>6, <1>7, <1>11, AboveSiblings
<1>12. StillNested(after)
  <2>1. SUFFICES ASSUME NEW a \in Dirs, NEW b \in Dirs, after[b] # Gone, Under(b, a)
                 PROVE  after[a] # Gone
    BY DEF StillNested
  <2>2. AtOrUnder(b, a) /\ a # b
    BY <2>1, UnderIs
  <2>3. CASE AtOrUnder(a, q)
    <3>1. AtOrUnder(b, q)
      BY <2>2, <2>3, FurtherDown
    <3> DEFINE m == Moved(a, q, p)
               n == Moved(b, q, p)
    <3>2. m \in Dirs /\ n \in Dirs /\ AtOrUnder(n, m)
      BY <1>10, <2>2, <2>3, <3>1
    <3>3. after[b] = disk[n] /\ after[a] = disk[m]
      BY <1>9, <2>3, <3>1
    <3> HIDE DEF m, n
    <3>4. Present(n)
      BY <2>1, <3>3 DEF Present
    <3>5. Present(m)
      BY <1>1, <3>2, <3>4, UnderIs DEF Nested
    <3> QED
      BY <3>3, <3>5 DEF Present
  <2>4. CASE ~AtOrUnder(a, q) /\ AtOrUnder(a, p)
    <3>1. AtOrUnder(b, p)
      BY <2>2, <2>4, FurtherDown
    <3>2. ~AtOrUnder(b, q)
      BY <1>8, <3>1, InLine
    <3> QED
      BY <1>9, <2>1, <3>1, <3>2
  <2>5. CASE ~AtOrUnder(a, q) /\ ~AtOrUnder(a, p)
    <3>1. Present(a)
      <4>1. CASE AtOrUnder(b, q)
        <5>1. Under(q, a)
          BY <2>2, <2>5, <4>1, InLine, UnderIs, AtItself
        <5>2. AtOrUnder(u, a)
          BY <1>11, <5>1
        <5> QED
          BY <1>1, <1>8, <5>2, UnderIs DEF Nested
      <4>2. CASE ~AtOrUnder(b, q) /\ AtOrUnder(b, p)
        BY <1>9, <2>1, <4>2
      <4>3. CASE ~AtOrUnder(b, q) /\ ~AtOrUnder(b, p)
        <5>1. Present(b)
          BY <1>8, <1>9, <2>1, <4>3 DEF Present
        <5> QED
          BY <1>1, <2>1, <5>1 DEF Nested
      <4> QED
        BY <4>1, <4>2, <4>3
    <3> QED
      BY <1>9, <2>5, <3>1 DEF Present
  <2> QED
    BY <2>3, <2>4, <2>5
<1>13. Elsewhere(after, {p, q}, below)
  <2>1. SUFFICES ASSUME NEW v \in Dirs, v \notin below, ~AtOrUnder(p, v), ~AtOrUnder(q, v),
                        NEW r \in Dirs, AtOrUnder(r, v)
                 PROVE  after[r] = disk[r]
    BY DEF Elsewhere
  <2>2. ~Under(v, p) /\ ~Under(v, q)
    BY <1>5, <2>1
  <2>3. ~AtOrUnder(v, p) /\ ~AtOrUnder(v, q)
    BY <2>1, <2>2, UnderIs, AtItself
  <2>4. ~AtOrUnder(r, p) /\ ~AtOrUnder(r, q)
    BY <2>1, <2>3, InLine
  <2>5. r # u
    BY <1>8, <2>1, UnderIs, FurtherDown
  <2> QED
    BY <1>9, <2>4, <2>5
<1> QED
  BY <1>7, <1>9, <1>12, <1>13, ChangesKeep

-----------------------------------------------------------------------------
(* What leaves the disk alone: the updates on their way.                   *)
LEMMA DiskStays ==
  ASSUME disk' = disk
  PROVE  /\ \A p : SizeOf(p)' = SizeOf(p)
         /\ \A s : Ahead(s)' = Ahead(s)
         /\ Nested => Nested'
         /\ Fingerprint(disk)' = Fingerprint(disk)
<1>1. ASSUME NEW p
      PROVE  SizeOf(p)' = SizeOf(p)
  BY DEF SizeOf
<1>2. ASSUME NEW s
      PROVE  Ahead(s)' = Ahead(s)
  BY DEF Ahead, Full
<1>3. Nested => Nested'
  BY DEF Nested, Present
<1>4. Fingerprint(disk)' = Fingerprint(disk)
  BY DEF Fingerprint
<1> QED
  BY <1>1, <1>2, <1>3, <1>4

LEMMA StillHolding ==
  ASSUME NEW p \in Dirs, Holding(p), disk' = disk, cache'[p] = cache[p],
         Pending(p) => Pending(p)'
  PROVE  Holding(p)'
<1>1. SizeOf(p)' = SizeOf(p)
  BY DiskStays
<1> QED
  BY <1>1 DEF Holding, Nothing

LEMMA StillWalks ==
  ASSUME NEW w \in Walkers, Walks(w), disk' = disk, walk'[w] = walk[w],
         \A p \in Dirs : p = walk[w].path /\ Pending(p) => Pending(p)'
  PROVE  Walks(w)'
<1>1. CASE walk[w].at = "idle"
  BY <1>1 DEF Walks
<1>2. CASE walk[w].at # "idle"
  <2>1. PICK v \in Dirs : v = walk[w].path
    BY <1>2 DEF Walks
  <2>2. PICK s : s = walk[w].stack
    OBVIOUS
  <2>3. SizeOf(v)' = SizeOf(v) /\ Ahead(s)' = Ahead(s)
    BY DiskStays
  <2>4. /\ walk[w].at = "walking" =>
             Apart(s) /\ \A e \in Dirs : Holds(s, e) => AtOrUnder(e, v)
        /\ walk[w].excused \/ Pending(v) \/ Counts(w)
    BY <1>2, <2>1, <2>2 DEF Walks
  <2>5. Pending(v) => Pending(walk[w].path)'
    BY <2>1
  <2>6. ASSUME Counts(w)
        PROVE  Counts(w)'
    <3>1. SizeOf(walk[w].path)' = SizeOf(walk[w].path)
      BY <2>1, <2>3
    <3>2. Ahead(walk[w].stack)' = Ahead(walk[w].stack)
      BY <2>2, <2>3
    <3> QED
      BY <2>6, <3>1, <3>2 DEF Counts
  <2> QED
    BY <2>1, <2>2, <2>4, <2>5, <2>6 DEF Walks
<1> QED
  BY <1>1, <1>2

(* A step that loses no update and touches neither walks nor sizes. *)
LEMMA OnlyTheFeed ==
  ASSUME SizesInv, TypeOK', Seen', UNCHANGED <<disk, cache, walk>>,
         \A p \in Dirs : Pending(p) => Pending(p)'
  PROVE  SizesInv'
<1>1. /\ Nested /\ \A w \in Walkers : Walks(w)
      /\ \A p \in Dirs : Holding(p)
  BY DEF SizesInv
<1>2. Nested'
  BY <1>1, DiskStays
<1>3. \A w \in Walkers : Walks(w)'
  BY <1>1, StillWalks
<1>4. \A p \in Dirs : Holding(p)'
  BY <1>1, StillHolding
<1> QED
  BY <1>2, <1>3, <1>4 DEF SizesInv

LEMMA BatchTakesKeeps ==
  ASSUME SizesInv, BatchTakes
  PROVE  SizesInv'
<1>1. TypeOK /\ Seen
  BY DEF SizesInv
<1>2. /\ raw \in Seq(Told) /\ raw # << >>
      /\ batch \in [held : BOOLEAN, changed : SUBSET Dirs, rescan : BOOLEAN]
  BY <1>1 DEF BatchTakes, TypeOK
<1>3. /\ batch' = Ingested(batch, Head(raw)) /\ raw' = Tail(raw)
      /\ UNCHANGED <<disk, source, last, updates, cache, walk, unseen, budget>>
  BY DEF BatchTakes
<1>4. /\ Head(raw) \in Told /\ Tail(raw) \in Seq(Told) /\ Head(raw) = raw[1]
      /\ \A i \in 1..Len(raw) : i # 1 =>
           i - 1 \in 1..Len(Tail(raw)) /\ Tail(raw)[i - 1] = raw[i]
  BY <1>2, RestOfTold
<1>5. /\ batch' \in [held : BOOLEAN, changed : SUBSET Dirs, rescan : BOOLEAN]
      /\ batch'.held
      /\ batch.rescan \/ Head(raw) = Rescan => batch'.rescan
      /\ batch.changed \subseteq batch'.changed
      /\ Head(raw) # Rescan => Head(raw) \subseteq batch'.changed
  <2>1. PICK b, e, c : b = batch /\ e = Head(raw) /\ c = batch'
    OBVIOUS
  <2>2. /\ b \in [held : BOOLEAN, changed : SUBSET Dirs, rescan : BOOLEAN]
        /\ e \in Told /\ c = Ingested(b, e)
    BY <1>2, <1>3, <1>4, <2>1
  <2>3. /\ c \in [held : BOOLEAN, changed : SUBSET Dirs, rescan : BOOLEAN]
        /\ c.held
        /\ b.rescan \/ e = Rescan => c.rescan
        /\ b.changed \subseteq c.changed
        /\ e # Rescan => e \subseteq c.changed
    <3>1. CASE e = Rescan
      <4>1. c = [held |-> TRUE, changed |-> b.changed, rescan |-> TRUE]
        BY <2>2, <3>1 DEF Ingested
      <4>2. b.changed \in SUBSET Dirs
        BY <2>2
      <4> QED
        BY <3>1, <4>1, <4>2
    <3>2. CASE e # Rescan
      <4>1. c = [held |-> TRUE, changed |-> b.changed \cup e, rescan |-> b.rescan]
        BY <2>2, <3>2 DEF Ingested
      <4>2. b.changed \in SUBSET Dirs /\ b.rescan \in BOOLEAN /\ e \in SUBSET Dirs
        BY <2>2, <3>2 DEF Told
      <4> QED
        BY <3>2, <4>1, <4>2
    <3> QED
      BY <3>1, <3>2
  <2> QED
    BY <2>1, <2>3
<1>6. TypeOK'
  <2>1. raw' \in Seq(Told)
    BY <1>3, <1>4
  <2> QED
    BY <1>1, <1>3, <1>5, <2>1 DEF TypeOK
<1>7. Seen'
  BY <1>1, <1>3, DiskStays DEF Seen
<1>8. ASSUME NEW p \in Dirs, Pending(p)
      PROVE  Pending(p)'
  <2>1. CASE Covered(raw[1], p)
    <3>1. batch'.rescan \/ \E q \in batch'.changed : AtOrUnder(q, p)
      BY <1>4, <1>5, <2>1 DEF Covered
    <3> QED
      BY <1>5, <3>1 DEF Pending
  <2>2. ASSUME NEW i \in 1..Len(raw), i # 1, Covered(raw[i], p)
        PROVE  Pending(p)'
    <3>1. i - 1 \in 1..Len(raw') /\ raw'[i - 1] = raw[i]
      BY <1>3, <1>4, <2>2
    <3>2. \E j \in 1..Len(raw') : Covered(raw'[j], p)
      BY <2>2, <3>1
    <3> QED
      BY <3>2 DEF Pending, Covered
  <2>3. CASE batch.held /\ (batch.rescan \/ \E q \in batch.changed : AtOrUnder(q, p))
    BY <1>5, <2>3 DEF Pending
  <2>4. CASE \E i \in 1..Len(updates) : Covered(updates[i], p)
    BY <1>3, <2>4 DEF Pending, Covered
  <2>5. CASE p \in unseen
    BY <1>3, <2>5 DEF Pending
  <2> QED
    BY <1>8, <2>1, <2>2, <2>3, <2>4, <2>5 DEF Pending
<1> QED
  BY <1>3, <1>6, <1>7, <1>8, OnlyTheFeed

LEMMA BatchEndsKeeps ==
  ASSUME SizesInv, BatchEnds
  PROVE  SizesInv'
<1> DEFINE told == IF batch.rescan THEN Rescan ELSE batch.changed
<1>1. TypeOK /\ Seen
  BY DEF SizesInv
<1>2. /\ updates \in Seq(Told)
      /\ batch \in [held : BOOLEAN, changed : SUBSET Dirs, rescan : BOOLEAN]
  BY <1>1 DEF TypeOK
<1>3. /\ updates' = Append(updates, told) /\ batch' = NoBatch
      /\ UNCHANGED <<disk, source, raw, last, cache, walk, unseen, budget>>
  BY DEF BatchEnds
<1>4. told \in Told
  BY <1>2 DEF Told
<1>5. ASSUME NEW p \in Dirs, batch.rescan \/ \E q \in batch.changed : AtOrUnder(q, p)
      PROVE  Covered(told, p)
  BY <1>5 DEF Covered
<1> HIDE DEF told
<1>6. /\ updates' \in Seq(Told)
      /\ \A i \in 1..Len(updates) : i \in 1..Len(updates') /\ updates'[i] = updates[i]
      /\ \E i \in 1..Len(updates') : updates'[i] = told
  BY <1>2, <1>3, <1>4, RowsOfTold
<1>7. TypeOK'
  <2>1. batch' \in [held : BOOLEAN, changed : SUBSET Dirs, rescan : BOOLEAN]
    BY <1>3 DEF NoBatch
  <2> QED
    BY <1>1, <1>3, <1>6, <2>1 DEF TypeOK
<1>8. Seen'
  BY <1>1, <1>3, DiskStays DEF Seen
<1>9. ASSUME NEW p \in Dirs, Pending(p)
      PROVE  Pending(p)'
  <2>1. CASE \E i \in 1..Len(raw) : Covered(raw[i], p)
    BY <1>3, <2>1 DEF Pending, Covered
  <2>2. CASE batch.held /\ (batch.rescan \/ \E q \in batch.changed : AtOrUnder(q, p))
    <3>1. \E i \in 1..Len(updates') : Covered(updates'[i], p)
      BY <1>5, <1>6, <2>2
    <3> QED
      BY <3>1 DEF Pending, Covered
  <2>3. CASE \E i \in 1..Len(updates) : Covered(updates[i], p)
    <3>1. \E i \in 1..Len(updates') : Covered(updates'[i], p)
      BY <1>6, <2>3
    <3> QED
      BY <3>1 DEF Pending, Covered
  <2>4. CASE p \in unseen
    BY <1>3, <2>4 DEF Pending
  <2> QED
    BY <1>9, <2>1, <2>2, <2>3, <2>4 DEF Pending
<1> QED
  BY <1>3, <1>7, <1>8, <1>9, OnlyTheFeed

(* A Rescan covers every path. *)
LEMMA RescanTells ==
  ASSUME TypeOK, updates' = Append(updates, Rescan)
  PROVE  updates' \in Seq(Told) /\ \A p \in Dirs : Pending(p)'
<1>1. updates \in Seq(Told) /\ Rescan \in Told
  BY DEF TypeOK, Told
<1>2. updates' \in Seq(Told) /\ \E i \in 1..Len(updates') : updates'[i] = Rescan
  BY <1>1, RowsOfTold
<1>3. ASSUME NEW p \in Dirs
      PROVE  Pending(p)'
  <2>1. \E i \in 1..Len(updates') : Covered(updates'[i], p)
    BY <1>2 DEF Covered
  <2> QED
    BY <2>1 DEF Pending, Covered
<1> QED
  BY <1>2, <1>3

LEMMA PollsKeeps ==
  ASSUME SizesInv, Polls
  PROVE  SizesInv'
<1>1. TypeOK /\ Seen
  BY DEF SizesInv
<1>2. /\ source = "poll" /\ unseen' = {}
      /\ updates' = IF last # NoFingerprint THEN Append(updates, Rescan) ELSE updates
      /\ UNCHANGED <<disk, source, raw, batch, cache, walk, budget>>
  BY DEF Polls
<1>3. Seen'
  BY <1>2 DEF Seen
<1>4. CASE last # NoFingerprint
  <2>1. updates' \in Seq(Told) /\ \A p \in Dirs : Pending(p)'
    BY <1>1, <1>2, <1>4, RescanTells
  <2>2. TypeOK'
    BY <1>1, <1>2, <2>1 DEF TypeOK
  <2> QED
    BY <1>2, <1>3, <2>1, <2>2, OnlyTheFeed
<1>5. CASE last = NoFingerprint
  <2>1. updates' = updates /\ unseen = {}
    BY <1>1, <1>2, <1>5 DEF Seen
  <2>2. TypeOK'
    BY <1>1, <1>2, <2>1 DEF TypeOK
  <2>3. \A p \in Dirs : Pending(p) => Pending(p)'
    BY <1>2, <2>1 DEF Pending, Covered
  <2> QED
    BY <1>2, <1>3, <2>2, <2>3, OnlyTheFeed
<1> QED
  BY <1>4, <1>5

LEMMA PollFailsKeeps ==
  ASSUME SizesInv, PollFails
  PROVE  SizesInv'
<1>1. TypeOK /\ Seen
  BY DEF SizesInv
<1>2. /\ updates' = Append(updates, Rescan) /\ budget.faults > 0 /\ Spend("faults")
      /\ UNCHANGED <<disk, source, raw, batch, last, cache, walk, unseen>>
  BY DEF PollFails
<1>3. updates' \in Seq(Told) /\ \A p \in Dirs : Pending(p)'
  BY <1>1, <1>2, RescanTells
<1>4. budget' \in [changes : 0..MaxChanges, faults : 0..MaxFaults]
  BY <1>1, <1>2, Budgets
<1>5. TypeOK'
  BY <1>1, <1>2, <1>3, <1>4 DEF TypeOK
<1>6. Seen'
  BY <1>1, <1>2, DiskStays DEF Seen
<1> QED
  BY <1>2, <1>3, <1>5, <1>6, OnlyTheFeed

(* An update that does not cover a path leaves what is pending for it; one *)
(* that does takes its size.                                               *)
LEMMA HandleWatchUpdateKeeps ==
  ASSUME SizesInv, HandleWatchUpdate
  PROVE  SizesInv'
<1>1. /\ TypeOK /\ Seen /\ Nested
      /\ \A w \in Walkers : Walks(w)
      /\ \A p \in Dirs : Holding(p)
  BY DEF SizesInv
<1>2. /\ updates \in Seq(Told) /\ updates # << >>
      /\ cache \in [Dirs -> [key : {<< >>} \cup ((Dirs \cup {<< >>}) \X Nat), size : Nat,
                            excused : BOOLEAN]]
      /\ walk \in [Walkers -> WalkState]
  BY <1>1 DEF TypeOK, HandleWatchUpdate
<1>3. PICK update \in Told : update = Head(updates)
  BY <1>2, RestOfTold
<1>4. /\ cache' = [p \in Dirs |-> IF Covered(update, p) THEN Nothing ELSE cache[p]]
      /\ walk' = [w \in Walkers |->
                    IF walk[w].at # "idle" /\ Covered(update, walk[w].path)
                    THEN [walk[w] EXCEPT !.excused = TRUE] ELSE walk[w]]
      /\ updates' = Tail(updates)
      /\ UNCHANGED <<disk, source, raw, batch, last, unseen, budget>>
  BY <1>3 DEF HandleWatchUpdate
<1>5. /\ Tail(updates) \in Seq(Told) /\ update = updates[1]
      /\ \A i \in 1..Len(updates) : i # 1 =>
           i - 1 \in 1..Len(Tail(updates)) /\ Tail(updates)[i - 1] = updates[i]
  BY <1>2, <1>3, RestOfTold
<1>6. ASSUME NEW w \in Walkers
      PROVE  /\ walk'[w] \in WalkState
             /\ walk[w].at # "idle" /\ Covered(update, walk[w].path) =>
                  /\ walk'[w].at = walk[w].at /\ walk'[w].path = walk[w].path
                  /\ walk'[w].stack = walk[w].stack /\ walk'[w].excused
             /\ ~(walk[w].at # "idle" /\ Covered(update, walk[w].path)) =>
                  walk'[w] = walk[w]
  <2>1. PICK v \in WalkState : v = walk[w]
    BY <1>2
  <2>2. PICK x : x = [v EXCEPT !.excused = TRUE]
    OBVIOUS
  <2>3. x \in WalkState
    BY <2>1, <2>2 DEF WalkState
  <2>4. x.at = v.at /\ x.path = v.path /\ x.stack = v.stack /\ x.excused
    BY <2>1, <2>2 DEF WalkState
  <2>5. walk'[w] = IF v.at # "idle" /\ Covered(update, v.path) THEN x ELSE v
    BY <1>4, <2>1, <2>2
  <2> QED
    BY <2>1, <2>3, <2>4, <2>5
<1>7. TypeOK'
  <2>1. walk' \in [Walkers -> WalkState]
    BY <1>4, <1>6
  <2>2. Nothing \in [key : {<< >>} \cup ((Dirs \cup {<< >>}) \X Nat), size : Nat,
                     excused : BOOLEAN]
    BY DEF Nothing
  <2>3. cache' \in [Dirs -> [key : {<< >>} \cup ((Dirs \cup {<< >>}) \X Nat), size : Nat,
                            excused : BOOLEAN]]
    BY <1>2, <1>4, <2>2
  <2>4. updates' \in Seq(Told)
    BY <1>4, <1>5
  <2> QED
    BY <1>1, <1>4, <2>1, <2>3, <2>4 DEF TypeOK
<1>8. Nested' /\ Seen'
  BY <1>1, <1>4, DiskStays DEF Seen
<1>9. ASSUME NEW p \in Dirs, ~Covered(update, p), Pending(p)
      PROVE  Pending(p)'
  <2>1. CASE \E i \in 1..Len(updates) : Covered(updates[i], p)
    <3>1. PICK i \in 1..Len(updates) : Covered(updates[i], p)
      BY <2>1
    <3>2. i - 1 \in 1..Len(updates') /\ Covered(updates'[i - 1], p)
      BY <1>4, <1>5, <1>9, <3>1
    <3>3. \E j \in 1..Len(updates') : Covered(updates'[j], p)
      BY <3>2
    <3> QED
      BY <3>3 DEF Pending, Covered
  <2>2. CASE ~\E i \in 1..Len(updates) : Covered(updates[i], p)
    BY <1>4, <1>9, <2>2 DEF Pending, Covered
  <2> QED
    BY <2>1, <2>2
<1>10. ASSUME NEW p \in Dirs
       PROVE  Holding(p)'
  <2>1. CASE Covered(update, p)
    <3>1. cache'[p] = Nothing
      BY <1>4, <2>1
    <3> QED
      BY <3>1 DEF Holding, Nothing
  <2>2. CASE ~Covered(update, p)
    <3>1. cache'[p] = cache[p]
      BY <1>4, <2>2
    <3> QED
      BY <1>1, <1>4, <1>9, <2>2, <3>1, StillHolding
  <2> QED
    BY <2>1, <2>2
<1>11. ASSUME NEW w \in Walkers
       PROVE  Walks(w)'
  <2>1. Walks(w)
    BY <1>1
  <2>2. CASE walk[w].at # "idle" /\ Covered(update, walk[w].path)
    <3>1. /\ walk'[w].at = walk[w].at /\ walk'[w].path = walk[w].path
          /\ walk'[w].stack = walk[w].stack /\ walk'[w].excused
      BY <1>6, <2>2
    <3> QED
      BY <2>1, <2>2, <3>1 DEF Walks
  <2>3. CASE walk[w].at # "idle" /\ ~Covered(update, walk[w].path)
    <3>1. walk'[w] = walk[w]
      BY <1>6, <2>3
    <3>2. \A p \in Dirs : p = walk[w].path /\ Pending(p) => Pending(p)'
      BY <1>9, <2>3
    <3> QED
      BY <1>4, <2>1, <2>3, <3>1, <3>2, StillWalks
  <2>4. CASE walk[w].at = "idle"
    <3>1. walk'[w] = walk[w]
      BY <1>6, <2>4
    <3> QED
      BY <2>4, <3>1 DEF Walks
  <2> QED
    BY <2>2, <2>3, <2>4
<1> QED
  BY <1>7, <1>8, <1>10, <1>11 DEF SizesInv

LEMMA InvalidateKeeps ==
  ASSUME SizesInv, Invalidate
  PROVE  SizesInv'
<1>1. /\ TypeOK /\ Seen /\ Nested
      /\ \A w \in Walkers : Walks(w)
      /\ \A p \in Dirs : Holding(p)
  BY DEF SizesInv
<1>2. /\ budget.faults > 0 /\ Spend("faults")
      /\ UNCHANGED <<disk, source, raw, batch, last, updates, unseen, walk>>
  BY DEF Invalidate, feed
<1>3. PICK v \in Dirs : cache' = [cache EXCEPT ![v] = Nothing]
  BY DEF Invalidate
<1>4. TypeOK'
  <2>1. Nothing \in [key : {<< >>} \cup ((Dirs \cup {<< >>}) \X Nat), size : Nat,
                     excused : BOOLEAN]
    BY DEF Nothing
  <2>2. cache' \in [Dirs -> [key : {<< >>} \cup ((Dirs \cup {<< >>}) \X Nat), size : Nat,
                            excused : BOOLEAN]]
    BY <1>1, <1>3, <2>1 DEF TypeOK
  <2>3. budget' \in [changes : 0..MaxChanges, faults : 0..MaxFaults]
    BY <1>1, <1>2, Budgets
  <2> QED
    BY <1>1, <1>2, <2>2, <2>3 DEF TypeOK
<1>5. \A p \in Dirs : Pending(p) => Pending(p)'
  BY <1>2 DEF Pending, Covered
<1>6. ASSUME NEW p \in Dirs
      PROVE  Holding(p)'
  <2>1. cache'[p] = Nothing \/ cache'[p] = cache[p]
    BY <1>1, <1>3 DEF TypeOK
  <2>2. CASE cache'[p] = Nothing
    BY <2>2 DEF Holding, Nothing
  <2>3. CASE cache'[p] = cache[p]
    BY <1>1, <1>2, <1>5, <2>3, StillHolding
  <2> QED
    BY <2>1, <2>2, <2>3
<1>7. \A w \in Walkers : Walks(w)'
  BY <1>1, <1>2, <1>5, StillWalks
<1>8. Nested' /\ Seen'
  BY <1>1, <1>2, DiskStays DEF Seen
<1> QED
  BY <1>4, <1>6, <1>7, <1>8 DEF SizesInv

-----------------------------------------------------------------------------
(* The walks.                                                              *)

(* What a walk that stands there may be. *)
MayBe(to) ==
  to.at # "idle" =>
    /\ to.path \in Dirs
    /\ to.at = "walking" =>
         Apart(to.stack) /\ \A e \in Dirs : Holds(to.stack, e) => AtOrUnder(e, to.path)
    /\ \/ to.excused \/ Pending(to.path)
       \/ /\ to.at = "walking" =>
               to.total + Cardinality(Ahead(to.stack)) = SizeOf(to.path)
          /\ to.at = "keyed" => to.total = SizeOf(to.path)

LEMMA OnlyAWalk ==
  ASSUME SizesInv, NEW w \in Walkers, NEW to \in WalkState, Step(w, to), MayBe(to),
         UNCHANGED <<disk, source, feed, cache>>,
         budget' \in [changes : 0..MaxChanges, faults : 0..MaxFaults]
  PROVE  SizesInv'
<1>1. /\ TypeOK /\ Seen /\ Nested
      /\ \A v \in Walkers : Walks(v)
      /\ \A p \in Dirs : Holding(p)
  BY DEF SizesInv
<1>2. UNCHANGED <<disk, source, raw, batch, last, updates, unseen, cache>>
  BY DEF feed
<1>3. /\ walk' \in [Walkers -> WalkState] /\ walk'[w] = to
      /\ \A v \in Walkers : v # w => walk'[v] = walk[v]
  BY <1>1 DEF TypeOK, Step
<1>4. TypeOK'
  BY <1>1, <1>2, <1>3 DEF TypeOK
<1>5. Nested' /\ Seen'
  BY <1>1, <1>2, DiskStays DEF Seen
<1>6. ASSUME NEW p
      PROVE  Pending(p) => Pending(p)'
  BY <1>2 DEF Pending, Covered
<1>7. \A p \in Dirs : Holding(p)'
  BY <1>1, <1>2, <1>6, StillHolding
<1>8. Walks(w)'
  <2>1. PICK s, p : s = to.stack /\ p = to.path
    OBVIOUS
  <2>2. SizeOf(p)' = SizeOf(p) /\ Ahead(s)' = Ahead(s)
    BY <1>2, DiskStays
  <2>3. Pending(p) => Pending(p)'
    BY <1>6
  <2>4. SizeOf(walk[w].path)' = SizeOf(to.path) /\ Ahead(walk[w].stack)' = Ahead(to.stack)
        /\ (Pending(to.path) => Pending(walk[w].path)')
    BY <1>3, <2>1, <2>2, <2>3
  <2>5. CASE to.at = "idle"
    BY <1>3, <2>5 DEF Walks
  <2>6. CASE to.at # "idle" /\ to.excused
    BY <1>3, <2>6 DEF Walks, MayBe
  <2>7. CASE to.at # "idle" /\ Pending(to.path)
    BY <1>3, <2>4, <2>7 DEF Walks, MayBe
  <2>8. CASE to.at # "idle" /\ ~to.excused /\ ~Pending(to.path)
    <3>1. Counts(w)'
      BY <1>3, <2>4, <2>8 DEF MayBe, Counts
    <3> QED
      BY <1>3, <2>8, <3>1 DEF Walks, MayBe
  <2> QED
    BY <2>5, <2>6, <2>7, <2>8
<1>9. ASSUME NEW v \in Walkers
      PROVE  Walks(v)'
  <2>1. CASE v = w
    BY <1>8, <2>1
  <2>2. CASE v # w
    BY <1>1, <1>2, <1>3, <1>6, <2>2, StillWalks
  <2> QED
    BY <2>1, <2>2
<1> QED
  BY <1>4, <1>5, <1>7, <1>9 DEF SizesInv

LEMMA IdleMayBe ==
  Idle \in WalkState /\ MayBe(Idle)
<1>1. << >> \in Seq(Dirs)
  BY EmptySeq
<1> QED
  BY <1>1 DEF Idle, WalkState, MayBe

LEMMA ComputeKeeps ==
  ASSUME SizesInv, NEW w \in Walkers, Compute(w)
  PROVE  SizesInv'
<1>1. PICK p \in Dirs :
        Step(w, [Idle EXCEPT !.at = "walking", !.path = p, !.stack = <<p>>])
  BY DEF Compute
<1>2. PICK s : s = <<p>>
  OBVIOUS
<1>3. s \in Seq(Dirs) /\ Ahead(s) = Within(p) /\ Apart(s)
      /\ \A e \in Dirs : Holds(s, e) => AtOrUnder(e, p)
  <2>1. Ahead(s) = Within(p) /\ Apart(s)
    BY <1>2, StartsWhole
  <2>2. s \in Seq(Dirs)
    BY <1>2
  <2>3. \A e \in Dirs : Holds(s, e) => e = p
    BY <1>2 DEF Holds
  <2> QED
    BY <2>1, <2>2, <2>3, AtItself
<1>4. PICK i \in WalkState : i = Idle
  BY IdleMayBe
<1>5. PICK to : to = [i EXCEPT !.at = "walking", !.path = p, !.stack = s]
  OBVIOUS
<1>a. Step(w, to)
  BY <1>1, <1>2, <1>4, <1>5
<1>6. to \in WalkState
  BY <1>3, <1>4, <1>5 DEF WalkState
<1>b. to.at = "walking" /\ to.path = p /\ to.stack = s /\ to.total = 0
  <2>1. i.total = 0
    BY <1>4 DEF Idle
  <2> QED
    BY <1>4, <1>5, <2>1 DEF WalkState
<1>7. Cardinality(Ahead(s)) = SizeOf(p) /\ SizeOf(p) \in Nat
  BY <1>3, FullAreFinite
<1>8. MayBe(to)
  BY <1>3, <1>7, <1>b DEF MayBe
<1>9. /\ UNCHANGED <<disk, source, feed, cache, budget>>
      /\ budget \in [changes : 0..MaxChanges, faults : 0..MaxFaults]
  BY DEF Compute, SizesInv, TypeOK
<1> QED
  BY <1>6, <1>8, <1>9, <1>a, OnlyAWalk

LEMMA CancelKeeps ==
  ASSUME SizesInv, NEW w \in Walkers, Cancel(w)
  PROVE  SizesInv'
<1>1. TypeOK /\ Walks(w)
  BY DEF SizesInv
<1>2. PICK v \in WalkState : v = walk[w]
  BY <1>1 DEF TypeOK
<1>3. PICK to : to = [v EXCEPT !.cancelled = TRUE]
  OBVIOUS
<1>4. to \in WalkState
  BY <1>2, <1>3 DEF WalkState
<1>5. /\ to.at = v.at /\ to.path = v.path /\ to.stack = v.stack
      /\ to.total = v.total /\ to.excused = v.excused
  BY <1>2, <1>3 DEF WalkState
<1>6. Step(w, to)
  BY <1>2, <1>3 DEF Cancel
<1>7. MayBe(to)
  BY <1>1, <1>2, <1>5 DEF MayBe, Walks, Counts
<1>8. budget' \in [changes : 0..MaxChanges, faults : 0..MaxFaults]
  BY <1>1, Budgets DEF Cancel
<1>9. UNCHANGED <<disk, source, feed, cache>>
  BY DEF Cancel
<1> QED
  BY <1>4, <1>6, <1>7, <1>8, <1>9, OnlyAWalk

LEMMA WalkVisitsKeeps ==
  ASSUME SizesInv, NEW w \in Walkers, WalkVisits(w)
  PROVE  SizesInv'
<1>1. TypeOK /\ Walks(w) /\ Nested
  BY DEF SizesInv
<1>2. PICK v \in WalkState : v = walk[w]
  BY <1>1 DEF TypeOK
<1>3. PICK s : s = v.stack
  OBVIOUS
<1>4. s \in Seq(Dirs) /\ v.path \in Dirs \cup {<< >>} /\ v.total \in Nat
  BY <1>2, <1>3 DEF WalkState
<1>5. v.at = "walking" /\ s # << >>
  BY <1>2, <1>3 DEF WalkVisits
<1>6. PICK t : t = Front(s) \o SetToSeq({q \in Children(Last(s)) : Present(q)})
  OBVIOUS
<1>7. PICK bytes : bytes = disk[Last(s)].bytes
  OBVIOUS
<1>8. Step(w, [v EXCEPT !.stack = t, !.total = v.total + bytes])
  BY <1>2, <1>3, <1>6, <1>7 DEF WalkVisits
<1>9. PICK to : to = [v EXCEPT !.stack = t, !.total = v.total + bytes]
  OBVIOUS
<1>10. /\ v.path \in Dirs /\ Apart(s)
       /\ \A e \in Dirs : Holds(s, e) => AtOrUnder(e, v.path)
       /\ v.excused \/ Pending(v.path) \/ v.total + Cardinality(Ahead(s)) = SizeOf(v.path)
  BY <1>1, <1>2, <1>3, <1>5 DEF Walks, Counts
<1>11. disk \in [Dirs -> Entry]
  BY <1>1 DEF TypeOK
<1>12. /\ t \in Seq(Dirs) /\ Apart(t)
       /\ Holds(s, Last(s)) /\ Last(s) \in Dirs
       /\ \A e \in Dirs : Holds(t, e) => Holds(s, e) \/ AtOrUnder(e, Last(s))
       /\ bytes \in Nat
       /\ Cardinality(Ahead(s)) = bytes + Cardinality(Ahead(t))
  BY <1>1, <1>4, <1>5, <1>6, <1>7, <1>10, <1>11, VisitCounts
<1>13. to \in WalkState /\ to.at = "walking" /\ to.path = v.path /\ to.stack = t
       /\ to.total = v.total + bytes /\ to.excused = v.excused
  <2>1. to \in WalkState
    <3>1. PICK total \in Nat : total = v.total + bytes
      BY <1>4, <1>12
    <3>2. to = [v EXCEPT !.stack = t, !.total = total]
      BY <1>9, <3>1
    <3>3. v \in WalkState /\ t \in Seq(Dirs) /\ total \in Nat
      BY <1>2, <1>12, <3>1
    <3> QED
      BY <3>2, <3>3 DEF WalkState
  <2>2. to.at = "walking" /\ to.path = v.path /\ to.stack = t
        /\ to.total = v.total + bytes /\ to.excused = v.excused
    BY <1>2, <1>5, <1>9 DEF WalkState
  <2> QED
    BY <2>1, <2>2
<1>14. \A e \in Dirs : Holds(t, e) => AtOrUnder(e, v.path)
  BY <1>10, <1>12, FurtherDown
<1>15. Cardinality(Ahead(t)) \in Nat
  BY FullAreFinite
<1>16. v.total + Cardinality(Ahead(s)) = (v.total + bytes) + Cardinality(Ahead(t))
  BY <1>4, <1>12, <1>15
<1>17. MayBe(to)
  BY <1>10, <1>12, <1>13, <1>14, <1>16 DEF MayBe
<1>18. /\ UNCHANGED <<disk, source, feed, cache, budget>>
       /\ budget \in [changes : 0..MaxChanges, faults : 0..MaxFaults]
  BY <1>1 DEF WalkVisits, TypeOK
<1> QED
  BY <1>8, <1>9, <1>13, <1>17, <1>18, OnlyAWalk

LEMMA WalkStopsKeeps ==
  ASSUME SizesInv, NEW w \in Walkers, WalkStops(w)
  PROVE  SizesInv'
<1>1. PICK to : to = Idle
  OBVIOUS
<1>2. to \in WalkState /\ MayBe(to) /\ Step(w, to)
  BY <1>1, IdleMayBe DEF WalkStops
<1>3. /\ UNCHANGED <<disk, source, feed, cache, budget>>
      /\ budget \in [changes : 0..MaxChanges, faults : 0..MaxFaults]
  BY DEF WalkStops, SizesInv, TypeOK
<1> QED
  BY <1>2, <1>3, OnlyAWalk

LEMMA WalkEndsKeeps ==
  ASSUME SizesInv, NEW w \in Walkers, WalkEnds(w)
  PROVE  SizesInv'
<1>1. TypeOK /\ Walks(w)
  BY DEF SizesInv
<1>2. PICK v \in WalkState : v = walk[w]
  BY <1>1 DEF TypeOK
<1>3. v.at = "walking" /\ v.stack = << >> /\ v.path \in Dirs
  BY <1>1, <1>2 DEF WalkEnds, Walks
<1>4. PICK key : key = KeyOf(v.path)
  OBVIOUS
<1>5. key \in (Dirs \cup {<< >>}) \X Nat
  <2>1. disk[v.path] \in Entry
    BY <1>1, <1>3 DEF TypeOK
  <2> QED
    BY <1>4, <2>1 DEF KeyOf, Entry
<1>6. /\ UNCHANGED <<disk, source, feed, cache, budget>>
      /\ budget \in [changes : 0..MaxChanges, faults : 0..MaxFaults]
  BY <1>1 DEF WalkEnds, TypeOK
<1>7. CASE Present(v.path)
  <2>1. PICK to : to = [v EXCEPT !.at = "keyed", !.key = key]
    OBVIOUS
  <2>2. Step(w, to)
    BY <1>2, <1>4, <1>7, <2>1 DEF WalkEnds
  <2>3. to \in WalkState
    BY <1>2, <1>5, <2>1 DEF WalkState
  <2>4. /\ to.at = "keyed" /\ to.path = v.path /\ to.total = v.total
        /\ to.excused = v.excused
    BY <1>2, <2>1 DEF WalkState
  <2>5. v.excused \/ Pending(v.path) \/ v.total = SizeOf(v.path)
    <3>1. v.excused \/ Pending(v.path)
          \/ v.total + Cardinality(Ahead(v.stack)) = SizeOf(v.path)
      BY <1>1, <1>2, <1>3 DEF Walks, Counts
    <3>2. Cardinality(Ahead(v.stack)) = 0
      BY <1>3, EndsWhole, FS_EmptySet
    <3>3. v.total \in Nat
      BY <1>2 DEF WalkState
    <3> QED
      BY <3>1, <3>2, <3>3
  <2>6. MayBe(to)
    BY <1>3, <2>4, <2>5 DEF MayBe
  <2> QED
    BY <1>6, <2>2, <2>3, <2>6, OnlyAWalk
<1>8. CASE ~Present(v.path)
  <2>1. PICK to : to = Idle
    OBVIOUS
  <2>2. to \in WalkState /\ MayBe(to) /\ Step(w, to)
    BY <1>2, <1>8, <2>1, IdleMayBe DEF WalkEnds
  <2> QED
    BY <1>6, <2>2, OnlyAWalk
<1> QED
  BY <1>7, <1>8

(* A walk's total takes the place of the size cached. *)
LEMMA InsertsKeeps ==
  ASSUME SizesInv, NEW w \in Walkers, Inserts(w)
  PROVE  SizesInv'
<1>1. /\ TypeOK /\ Seen /\ Nested
      /\ \A x \in Walkers : Walks(x)
      /\ \A p \in Dirs : Holding(p)
  BY DEF SizesInv
<1>2. PICK v \in WalkState : v = walk[w]
  BY <1>1 DEF TypeOK
<1>3. v.at = "keyed" /\ v.path \in Dirs
  BY <1>1, <1>2 DEF Inserts, Walks
<1>4. v.excused \/ Pending(v.path) \/ v.total = SizeOf(v.path)
  BY <1>1, <1>2, <1>3 DEF Walks, Counts
<1>5. PICK new : new = [key |-> v.key, size |-> v.total, excused |-> v.excused]
  OBVIOUS
<1>6. cache' = [cache EXCEPT ![v.path] = new]
  BY <1>2, <1>5 DEF Inserts
<1>7. new \in [key : {<< >>} \cup ((Dirs \cup {<< >>}) \X Nat), size : Nat,
               excused : BOOLEAN]
  BY <1>2, <1>5 DEF WalkState
<1>8. /\ UNCHANGED <<disk, source, raw, batch, last, updates, unseen, budget>>
      /\ Step(w, Idle)
  BY DEF Inserts, feed
<1>9. /\ walk' \in [Walkers -> WalkState] /\ walk'[w] = Idle
      /\ \A x \in Walkers : x # w => walk'[x] = walk[x]
  <2>1. PICK to \in WalkState : to = Idle
    BY IdleMayBe
  <2>2. Step(w, to)
    BY <1>8, <2>1
  <2> QED
    BY <1>1, <2>1, <2>2 DEF TypeOK, Step
<1>10. TypeOK'
  <2>1. cache' \in [Dirs -> [key : {<< >>} \cup ((Dirs \cup {<< >>}) \X Nat), size : Nat,
                            excused : BOOLEAN]]
    BY <1>1, <1>6, <1>7 DEF TypeOK
  <2> QED
    BY <1>1, <1>8, <1>9, <2>1 DEF TypeOK
<1>11. Nested' /\ Seen'
  BY <1>1, <1>8, DiskStays DEF Seen
<1>12. ASSUME NEW p
       PROVE  Pending(p) => Pending(p)'
  BY <1>8 DEF Pending, Covered
<1>13. ASSUME NEW p \in Dirs
       PROVE  Holding(p)'
  <2>1. CASE p # v.path
    <3>1. cache'[p] = cache[p]
      BY <1>1, <1>6, <2>1 DEF TypeOK
    <3> QED
      BY <1>1, <1>8, <1>12, <3>1, StillHolding
  <2>2. CASE p = v.path
    <3>1. cache'[p] = new
      BY <1>1, <1>6, <2>2 DEF TypeOK
    <3>2. new.size = v.total /\ new.excused = v.excused
      BY <1>5
    <3>3. SizeOf(p)' = SizeOf(p)
      BY <1>8, DiskStays
    <3>4. v.excused \/ Pending(p)' \/ v.total = SizeOf(p)'
      BY <1>4, <1>12, <2>2, <3>3
    <3> QED
      BY <3>1, <3>2, <3>4 DEF Holding
  <2> QED
    BY <2>1, <2>2
<1>14. ASSUME NEW x \in Walkers
       PROVE  Walks(x)'
  <2>1. CASE x = w
    BY <1>9, <2>1 DEF Walks, Idle
  <2>2. CASE x # w
    BY <1>1, <1>8, <1>9, <1>12, <2>2, StillWalks
  <2> QED
    BY <2>1, <2>2
<1> QED
  BY <1>10, <1>11, <1>13, <1>14 DEF SizesInv

-----------------------------------------------------------------------------
LEMMA SizesInitially ==
  ASSUME Init
  PROVE  SizesInv
<1>1. \A w \in Walkers : walk[w] = Idle
  BY DEF Init
<1>2. \A p \in Dirs : cache[p] = Nothing
  BY DEF Init
<1>3. TypeOK
  <2>1. disk \in [Dirs -> Entry]
    <3>1. ASSUME NEW p \in Dirs
          PROVE  [ino |-> p, mtime |-> 0, version |-> 0, bytes |-> 1] \in Entry
                 /\ Gone \in Entry
      BY DEF Entry, Gone
    <3> QED
      BY <3>1 DEF Init
  <2>2. raw \in Seq(Told) /\ updates \in Seq(Told)
    BY EmptySeq DEF Init
  <2>3. batch \in [held : BOOLEAN, changed : SUBSET Dirs, rescan : BOOLEAN]
    BY DEF Init, NoBatch
  <2>4. cache \in [Dirs -> [key : {<< >>} \cup ((Dirs \cup {<< >>}) \X Nat), size : Nat,
                           excused : BOOLEAN]]
    BY DEF Init, Nothing
  <2>5. walk \in [Walkers -> WalkState]
    BY IdleMayBe DEF Init
  <2>6. budget \in [changes : 0..MaxChanges, faults : 0..MaxFaults]
    BY SizesAssumption DEF Init, SizesAssumption
  <2>7. source \in Sources /\ last = NoFingerprint /\ unseen \subseteq Dirs
    BY DEF Init
  <2> QED
    BY <2>1, <2>2, <2>3, <2>4, <2>5, <2>6, <2>7 DEF TypeOK
<1>4. Nested
  <2>1. ASSUME NEW p \in Dirs
        PROVE  Present(p) <=> p \in FirstDirs
    BY <2>1 DEF Init, Present, Gone
  <2> QED
    BY <2>1, UnderIs, SizesAssumption DEF SizesAssumption, Nested
<1>5. Seen
  BY DEF Init, Seen
<1>6. \A w \in Walkers : Walks(w)
  BY <1>1 DEF Walks, Idle
<1>7. \A p \in Dirs : Holding(p)
  BY <1>2 DEF Holding
<1> QED
  BY <1>3, <1>4, <1>5, <1>6, <1>7 DEF SizesInv

LEMMA SizesStep ==
  ASSUME SizesInv, [Next]_vars
  PROVE  SizesInv'
<1>1. CASE UNCHANGED vars
  <2>1. UNCHANGED <<disk, source, raw, batch, last, updates, cache, walk, unseen, budget>>
    BY <1>1 DEF vars
  <2>2. TypeOK'
    BY <2>1 DEF SizesInv, TypeOK
  <2>3. Seen'
    BY <2>1, DiskStays DEF SizesInv, Seen
  <2>4. \A p \in Dirs : Pending(p) => Pending(p)'
    BY <2>1 DEF Pending, Covered
  <2> QED
    BY <2>1, <2>2, <2>3, <2>4, OnlyTheFeed
<1>2. CASE FileChanges
  BY <1>2, FileChangesKeeps
<1>3. CASE DirRenamed
  BY <1>3, DirRenamedKeeps
<1>4. CASE BatchTakes
  BY <1>4, BatchTakesKeeps
<1>5. CASE BatchEnds
  BY <1>5, BatchEndsKeeps
<1>6. CASE Polls
  BY <1>6, PollsKeeps
<1>7. CASE PollFails
  BY <1>7, PollFailsKeeps
<1>8. CASE HandleWatchUpdate
  BY <1>8, HandleWatchUpdateKeeps
<1>9. CASE Invalidate
  BY <1>9, InvalidateKeeps
<1>10. ASSUME NEW w \in Walkers, Compute(w) \/ Cancel(w) \/ Thread(w)
       PROVE  SizesInv'
  <2>1. CASE Compute(w)
    BY <2>1, ComputeKeeps
  <2>2. CASE Cancel(w)
    BY <2>2, CancelKeeps
  <2>3. CASE WalkVisits(w)
    BY <2>3, WalkVisitsKeeps
  <2>4. CASE WalkStops(w)
    BY <2>4, WalkStopsKeeps
  <2>5. CASE WalkEnds(w)
    BY <2>5, WalkEndsKeeps
  <2>6. CASE Inserts(w)
    BY <2>6, InsertsKeeps
  <2> QED
    BY <1>10, <2>1, <2>2, <2>3, <2>4, <2>5, <2>6 DEF Thread
<1> QED
  BY <1>1, <1>2, <1>3, <1>4, <1>5, <1>6, <1>7, <1>8, <1>9, <1>10 DEF Next

(* Every variable keeps its type (size_service.rs, watch.rs, poll.rs), and  *)
(* a size that is cached, or that a walk works out, is right, or an update  *)
(* that takes it away is on its way, or no update could tell of what has    *)
(* changed.                                                                 *)
THEOREM SizesAreCovered == Spec => []SizesInv
<1>1. Init => SizesInv
  BY SizesInitially
<1>2. SizesInv /\ [Next]_vars => SizesInv'
  BY SizesStep
<1> QED
  BY <1>1, <1>2, PTL DEF Spec

(* Every variable of the update source, the walks and the cache is of its   *)
(* type (size_service.rs, watch.rs, poll.rs).                               *)
THEOREM SizesTyped == Spec => []TypeOK
<1>1. SizesInv => TypeOK
  BY DEF SizesInv
<1> QED
  BY <1>1, SizesAreCovered, PTL

(* "invalidated by watch events" (size_service.rs:6): once every update has *)
(* been handled, a size that cached_size answers with is the size of the    *)
(* directory, unless no update could tell of the change.                    *)
THEOREM WrongSizesAreUnknown == Spec => []WrongIsUnknown
<1>1. ASSUME SizesInv, Drained, NEW p \in Dirs, Served(p), ~cache[p].excused
      PROVE  cache[p].size = SizeOf(p)
  <2>1. Holding(p) /\ Seen /\ source \in Sources
    BY <1>1 DEF SizesInv, TypeOK
  <2>2. raw = << >> /\ ~batch.held /\ updates = << >>
    BY <1>1 DEF Drained
  <2>3. unseen = {}
    BY <1>1, <2>1 DEF Drained, Seen
  <2>4. ~Pending(p)
    BY <2>2, <2>3 DEF Pending
  <2>5. cache[p] # Nothing
    BY <1>1 DEF Served
  <2> QED
    BY <1>1, <2>1, <2>4, <2>5 DEF Holding
<1>2. SizesInv => WrongIsUnknown
  BY <1>1 DEF WrongIsUnknown
<1> QED
  BY <1>2, SizesAreCovered, PTL
===============================================================================
