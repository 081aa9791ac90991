-------------------------- MODULE PositionsTheorems --------------------------
(***************************************************************************)
(* Facts about texts that the proofs about consoles and commands share:    *)
(* positions and their order, induction over the positions of a text,      *)
(* functions that are defined by going through it, concatenation.  What is *)
(* inductive is stated of sets and functions, so that it can be cited for  *)
(* any of them.                                                            *)
(***************************************************************************)
EXTENDS Positions, SequencesExt, FiniteSetsExt, FiniteSetTheorems, SequenceTheorems,
        WellFoundedInduction, TLAPS

-----------------------------------------------------------------------------
(* A set of positions is finite.                                           *)
LEMMA PartFinite ==
  ASSUME NEW n \in Nat, NEW I \in SUBSET (1 .. n)
  PROVE  IsFiniteSet(I) /\ Cardinality(I) \in Nat
<1>1. IsFiniteSet(1 .. n)
  BY FS_Interval
<1> QED
  BY <1>1, FS_Subset, FS_CardinalityType

(* What a further position does to the rank of the others: nothing, when   *)
(* it comes behind them.                                                   *)
LEMMA RankBelow ==
  ASSUME NEW n \in Nat, NEW I \in SUBSET (1 .. n)
  PROVE  /\ \A i \in 1 .. n : Rank(I \union {n + 1}, i) = Rank(I, i)
         /\ Rank(I \union {n + 1}, n + 1) = Cardinality(I) + 1
<1>0. \A j \in I : j \in 1 .. n
  OBVIOUS
<1>1. ASSUME NEW i \in 1 .. n
      PROVE  {j \in I \union {n + 1} : j <= i} = {j \in I : j <= i}
  BY <1>1
<1>2. {j \in I \union {n + 1} : j <= n + 1} = I \union {n + 1}
  <2>1. \A j \in I \union {n + 1} : j <= n + 1
    BY <1>0
  <2> QED
    BY <2>1, Zenon
<1>3. IsFiniteSet(I) /\ n + 1 \notin I
  <2>1. n + 1 \notin 1 .. n
    OBVIOUS
  <2> QED
    BY <2>1, PartFinite
<1>4. Cardinality(I \union {n + 1}) = Cardinality(I) + 1
  BY <1>3, FS_AddElement
<1> QED
  BY <1>1, <1>2, <1>4 DEF Rank

LEMMA RankInRange ==
  ASSUME NEW n \in Nat, NEW I \in SUBSET (1 .. n), NEW i \in I
  PROVE  Rank(I, i) \in 1 .. Cardinality(I)
<1> DEFINE below == {j \in I : j <= i}
<1>1. IsFiniteSet(I)
  BY PartFinite
<1>2. /\ IsFiniteSet(below) /\ Cardinality(below) <= Cardinality(I)
      /\ Cardinality(below) \in Nat /\ Cardinality(I) \in Nat
  <2>1. below \in SUBSET I
    OBVIOUS
  <2> QED
    BY <1>1, <2>1, FS_Subset, FS_CardinalityType
<1>3. Cardinality(below) # 0
  <2>1. i \in below
    OBVIOUS
  <2> QED
    BY <1>2, <2>1, FS_EmptySet
<1> QED
  BY <1>2, <1>3 DEF Rank

(* Ranks count the positions off: each rank up to the number of positions  *)
(* belongs to exactly one of them, and they come in their order.           *)
LEMMA RankGrows ==
  ASSUME NEW n \in Nat, NEW I \in SUBSET (1 .. n), NEW i \in I, NEW j \in I, i < j
  PROVE  Rank(I, i) < Rank(I, j)
<1> DEFINE A == {k \in I : k <= i}
           B == {k \in I : k <= j}
<1>1. i \in 1 .. n /\ j \in 1 .. n /\ \A k \in I : k \in 1 .. n
  OBVIOUS
<1>2. A \in SUBSET B
  <2> SUFFICES ASSUME NEW k \in A PROVE k \in B
    OBVIOUS
  <2>1. k \in 1 .. n /\ k <= i
    BY <1>1
  <2>2. k <= j
    BY <1>1, <2>1
  <2> QED
    BY <2>2
<1>3. B \in SUBSET I /\ j \in B /\ j \notin A
  BY <1>1
<1> HIDE DEF A, B
<1>4. IsFiniteSet(B)
  BY <1>3, PartFinite, FS_Subset
<1>5. Cardinality(A) <= Cardinality(B) /\ Cardinality(A) # Cardinality(B)
  BY <1>2, <1>3, <1>4, FS_Subset
<1>6. Cardinality(A) \in Nat /\ Cardinality(B) \in Nat
  BY <1>2, <1>4, FS_Subset, FS_CardinalityType
<1>7. Cardinality(A) < Cardinality(B)
  BY <1>5, <1>6
<1> QED
  BY <1>7 DEF Rank, A, B

LEMMA NthIsThere ==
  ASSUME NEW n \in Nat, NEW I \in SUBSET (1 .. n), NEW k \in 1 .. Cardinality(I)
  PROVE  Nth(I, k) \in I /\ Rank(I, Nth(I, k)) = k
<1> DEFINE m == Cardinality(I)
           r == [i \in I |-> Rank(I, i)]
<1>1. IsFiniteSet(I) /\ m \in Nat
  BY PartFinite
<1>2. r \in [I -> 1 .. m]
  BY RankInRange
<1>3. ASSUME NEW i \in I, NEW j \in I, i # j PROVE r[i] # r[j]
  <2>1. i \in 1 .. n /\ j \in 1 .. n
    OBVIOUS
  <2>2. i < j \/ j < i
    BY <1>3, <2>1
  <2>3. Rank(I, i) \in 1 .. m /\ Rank(I, j) \in 1 .. m
    BY RankInRange
  <2>4. i < j => Rank(I, i) < Rank(I, j)
    BY RankGrows
  <2>5. j < i => Rank(I, j) < Rank(I, i)
    BY RankGrows
  <2> QED
    BY <1>1, <2>2, <2>3, <2>4, <2>5
<1>4. r \in Injection(I, 1 .. m)
  BY <1>2, <1>3 DEF Injection, IsInjective
<1>5. IsFiniteSet(1 .. m) /\ Cardinality(1 .. m) = m
  BY <1>1, FS_Interval
<1> HIDE DEF r, m
<1>6. r \in Surjection(I, 1 .. m)
  BY <1>4, <1>5, FS_Injection DEF m
<1>7. \E i \in I : r[i] = k
  BY <1>6 DEF Surjection, m
<1> QED
  BY <1>7 DEF Nth, r

LEMMA NthOfRank ==
  ASSUME NEW n \in Nat, NEW I \in SUBSET (1 .. n), NEW i \in I
  PROVE  Rank(I, i) \in 1 .. Cardinality(I) /\ Nth(I, Rank(I, i)) = i
<1>1. Rank(I, i) \in 1 .. Cardinality(I)
  BY RankInRange
<1>2. PICK j : j = Nth(I, Rank(I, i))
  OBVIOUS
<1>3. j \in I /\ Rank(I, j) = Rank(I, i)
  BY <1>1, <1>2, NthIsThere
<1>4. i \in 1 .. n /\ j \in 1 .. n /\ Rank(I, i) \in Nat
  BY <1>1, <1>3, PartFinite
<1>5. i < j => Rank(I, i) < Rank(I, j)
  BY <1>3, RankGrows
<1>6. j < i => Rank(I, j) < Rank(I, i)
  BY <1>3, RankGrows
<1>7. ~(i < j) /\ ~(j < i)
  BY <1>3, <1>4, <1>5, <1>6
<1>8. i = j
  BY <1>4, <1>7
<1> QED
  BY <1>1, <1>2, <1>8

LEMMA NthInOrder ==
  ASSUME NEW n \in Nat, NEW I \in SUBSET (1 .. n),
         NEW j \in 1 .. Cardinality(I), NEW k \in 1 .. Cardinality(I), j < k
  PROVE  Nth(I, j) < Nth(I, k)
<1> DEFINE a == Nth(I, j)
           b == Nth(I, k)
<1>1. a \in I /\ b \in I /\ Rank(I, a) = j /\ Rank(I, b) = k
  BY NthIsThere
<1>2. a \in 1 .. n /\ b \in 1 .. n /\ Cardinality(I) \in Nat
  BY <1>1, PartFinite
<1> HIDE DEF a, b
<1>3. a # b
  BY <1>1, <1>2
<1>4. b < a => Rank(I, b) < Rank(I, a)
  BY <1>1, RankGrows
<1>5. a < b
  BY <1>1, <1>2, <1>3, <1>4
<1> QED
  BY <1>5 DEF a, b

(* No position is between the n-th and the next.                           *)
LEMMA NthHasNext ==
  ASSUME NEW n \in Nat, NEW I \in SUBSET (1 .. n),
         NEW k \in 1 .. Cardinality(I), NEW i \in I, Nth(I, k) < i
  PROVE  k + 1 \in 1 .. Cardinality(I) /\ Nth(I, k + 1) <= i
<1> DEFINE r == Rank(I, i)
           m == Cardinality(I)
<1>1. Nth(I, k) \in I /\ Rank(I, Nth(I, k)) = k
  BY NthIsThere
<1>2. r \in 1 .. m /\ Nth(I, r) = i /\ m \in Nat
  BY NthOfRank, PartFinite
<1>3. k < r
  BY <1>1, RankGrows
<1> HIDE DEF r, m
<1>4. k + 1 \in 1 .. m /\ k \in Nat
  BY <1>2, <1>3 DEF m
<1>5. Nth(I, k + 1) \in I
  BY <1>4, NthIsThere DEF m
<1>6. Nth(I, k + 1) \in 1 .. n /\ i \in 1 .. n
  BY <1>5
<1>7. CASE k + 1 = r
  BY <1>2, <1>4, <1>6, <1>7 DEF m
<1>8. CASE k + 1 < r
  <2>1. Nth(I, k + 1) < Nth(I, r)
    BY <1>2, <1>4, <1>8, NthInOrder DEF m
  <2> QED
    BY <1>2, <1>4, <1>6, <2>1 DEF m
<1> QED
  BY <1>2, <1>3, <1>4, <1>7, <1>8

LEMMA NthHasFirst ==
  ASSUME NEW n \in Nat, NEW I \in SUBSET (1 .. n), NEW i \in I
  PROVE  1 \in 1 .. Cardinality(I) /\ Nth(I, 1) <= i
<1> DEFINE r == Rank(I, i)
           m == Cardinality(I)
<1>1. r \in 1 .. m /\ Nth(I, r) = i /\ m \in Nat
  BY NthOfRank, PartFinite
<1> HIDE DEF r, m
<1>2. 1 \in 1 .. m
  BY <1>1
<1>3. Nth(I, 1) \in 1 .. n /\ i \in 1 .. n
  BY <1>2, NthIsThere DEF m
<1>4. CASE r = 1
  BY <1>1, <1>2, <1>3, <1>4 DEF m
<1>5. CASE r > 1
  <2>1. Nth(I, 1) < Nth(I, r)
    BY <1>1, <1>2, <1>5, NthInOrder DEF m
  <2> QED
    BY <1>1, <1>2, <1>3, <2>1 DEF m
<1> QED
  BY <1>1, <1>4, <1>5

(* A list of all the positions in their order is what Nth gives.           *)
LEMMA NthEnumerates ==
  ASSUME NEW n \in Nat, NEW I \in SUBSET (1 .. n), NEW m \in Nat, NEW h \in [1 .. m -> I],
         \A j, k \in 1 .. m : j < k => h[j] < h[k],
         \A i \in I : \E k \in 1 .. m : h[k] = i
  PROVE  Cardinality(I) = m /\ \A k \in 1 .. m : Nth(I, k) = h[k]
<1>0. \A k \in 1 .. m : h[k] \in 1 .. n
  OBVIOUS
<1>1. \A j, k \in 1 .. m : j # k => h[j] # h[k]
  <2> SUFFICES ASSUME NEW j \in 1 .. m, NEW k \in 1 .. m, j # k PROVE h[j] # h[k]
    OBVIOUS
  <2>1. j < k \/ k < j
    OBVIOUS
  <2> QED
    BY <1>0, <2>1
<1>2. h \in Bijection(1 .. m, I)
  BY <1>1 DEF Bijection, Injection, IsInjective, Surjection
<1>3. IsFiniteSet(1 .. m) /\ Cardinality(1 .. m) = m
  BY FS_Interval
<1>4. Cardinality(I) = m
  BY <1>2, <1>3, FS_Bijection DEF ExistsBijection
<1>5. ASSUME NEW k \in 1 .. m PROVE Rank(I, h[k]) = k
  <2> DEFINE B == {i \in I : i <= h[k]}
             f == [j \in 1 .. k |-> h[j]]
  <2>1. ASSUME NEW j \in 1 .. k PROVE j \in 1 .. m /\ h[j] \in B
    <3>1. j \in 1 .. m /\ (j < k \/ j = k)
      OBVIOUS
    <3>2. h[j] <= h[k]
      BY <1>0, <3>1
    <3> QED
      BY <3>1, <3>2
  <2>2. ASSUME NEW i \in B PROVE \E j \in 1 .. k : h[j] = i
    <3>1. PICK j \in 1 .. m : h[j] = i
      OBVIOUS
    <3>2. ~(k < j)
      BY <1>0, <3>1
    <3>3. j \in 1 .. k
      BY <3>2
    <3> QED
      BY <3>1, <3>3
  <2>3. f \in [1 .. k -> B]
    BY <2>1
  <2>4. \A i, j \in 1 .. k : f[i] = f[j] => i = j
    BY <1>1, <2>1
  <2>5. \A i \in B : \E j \in 1 .. k : f[j] = i
    BY <2>2
  <2> HIDE DEF f, B
  <2>6. f \in Bijection(1 .. k, B)
    BY <2>3, <2>4, <2>5 DEF Bijection, Injection, IsInjective, Surjection
  <2>7. IsFiniteSet(1 .. k) /\ Cardinality(1 .. k) = k
    BY FS_Interval
  <2>8. Cardinality(B) = k
    BY <2>6, <2>7, FS_Bijection DEF ExistsBijection
  <2> QED
    BY <2>8 DEF Rank, B
<1>6. ASSUME NEW k \in 1 .. m PROVE Nth(I, k) = h[k]
  <2>1. h[k] \in I /\ Rank(I, h[k]) = k
    BY <1>5
  <2> QED
    BY <2>1, NthOfRank
<1> QED
  BY <1>4, <1>6

LEMMA SelectedIsText ==
  ASSUME NEW C, NEW t \in Seq(C), NEW I \in SUBSET (1 .. Len(t))
  PROVE  /\ Selected(t, I) \in Seq(C) /\ Len(Selected(t, I)) = Cardinality(I)
         /\ \A k \in 1 .. Cardinality(I) : Selected(t, I)[k] = t[Nth(I, k)]
<1>0. Len(t) \in Nat
  OBVIOUS
<1>1. Cardinality(I) \in Nat
  BY <1>0, PartFinite
<1>2. \A k \in 1 .. Cardinality(I) : t[Nth(I, k)] \in C
  <2> TAKE k \in 1 .. Cardinality(I)
  <2>1. Nth(I, k) \in I
    BY <1>0, <1>1, NthIsThere
  <2>2. Nth(I, k) \in 1 .. Len(t)
    BY <2>1
  <2> QED
    BY <2>2
<1> QED
  BY <1>1, <1>2 DEF Selected

(* A text between two positions; it is empty if the second is the one      *)
(* before the first.                                                       *)
LEMMA PartOfText ==
  ASSUME NEW C, NEW t \in Seq(C),
         NEW m \in 1 .. Len(t) + 1, NEW n \in m - 1 .. Len(t)
  PROVE  /\ SubSeq(t, m, n) \in Seq(C) /\ Len(SubSeq(t, m, n)) = n - m + 1
         /\ \A i \in 1 .. n - m + 1 : SubSeq(t, m, n)[i] = t[m + i - 1]
<1>1. m \in Int /\ n \in Int /\ Len(t) \in Nat
  OBVIOUS
<1>2. \A i \in m .. n : t[i] \in C
  OBVIOUS
<1>3. /\ SubSeq(t, m, n) \in Seq(C) /\ Len(SubSeq(t, m, n)) = IF m <= n THEN n - m + 1 ELSE 0
      /\ \A i \in 1 .. n - m + 1 : SubSeq(t, m, n)[i] = t[m + i - 1]
  BY <1>1, <1>2, SubSeqProperties
<1> QED
  BY <1>1, <1>3

LEMMA SameText ==
  ASSUME NEW C, NEW D, NEW s \in Seq(C), NEW t \in Seq(D), Len(s) = Len(t),
         \A i \in 1 .. Len(s) : s[i] = t[i]
  PROVE  s = t
<1>1. s = [i \in 1 .. Len(s) |-> s[i]] /\ t = [i \in 1 .. Len(t) |-> t[i]]
  OBVIOUS
<1> QED
  BY <1>1

-----------------------------------------------------------------------------
(* The least of some natural numbers, and induction up to a number.        *)
LEMMA LeastIsThere ==
  ASSUME NEW S \in SUBSET Nat, S # {}
  PROVE  Min(S) \in S /\ \A j \in S : Min(S) <= j
<1>1. \E i \in S : \A j \in S : ~(<<j, i>> \in OpToRel(<, Nat))
  BY NatLessThanWellFounded, WFMin
<1>2. PICK i \in S : \A j \in S : ~(<<j, i>> \in OpToRel(<, Nat))
  BY <1>1
<1>3. \A j \in S : <<j, i>>[1] = j /\ <<j, i>>[2] = i /\ <<j, i>> \in Nat \X Nat
  OBVIOUS
<1>4. \A j \in S : ~(j < i)
  BY <1>2, <1>3 DEF OpToRel
<1>5. \E k \in S : \A j \in S : k <= j
  BY <1>4
<1> QED
  BY <1>5 DEF Min

LEMMA LeastIs ==
  ASSUME NEW S \in SUBSET Nat, NEW i \in S, \A j \in S : i <= j
  PROVE  Min(S) = i
<1>1. Min(S) \in S /\ Min(S) <= i
  BY LeastIsThere
<1>2. Min(S) \in Nat /\ i \in Nat /\ i <= Min(S)
  BY <1>1
<1> QED
  BY <1>1, <1>2

LEMMA InductionUpTo ==
  ASSUME NEW m \in Nat, NEW P, 0 \in P,
         \A n \in 0 .. m - 1 : n \in P => n + 1 \in P
  PROVE  \A n \in 0 .. m : n \in P
<1> DEFINE Bad == {n \in 0 .. m : n \notin P}
<1> SUFFICES ASSUME Bad # {} PROVE FALSE
  OBVIOUS
<1>1. Min(Bad) \in Bad /\ \A j \in Bad : Min(Bad) <= j
  <2>1. Bad \in SUBSET Nat
    OBVIOUS
  <2> HIDE DEF Bad
  <2> QED
    BY <2>1, LeastIsThere
<1>2. PICK b \in Bad : \A j \in Bad : b <= j
  BY <1>1
<1>3. b \in 0 .. m /\ b \notin P /\ b # 0
  BY <1>2
<1>4. b - 1 \in 0 .. m - 1 /\ b - 1 \notin Bad
  BY <1>2, <1>3
<1>5. b - 1 \in P /\ (b - 1) + 1 = b
  BY <1>3, <1>4
<1> QED
  BY <1>3, <1>4, <1>5

(* A function that is defined by its first value and by how each further   *)
(* value follows from the one before exists.                               *)
Unfolds(f, m, S, a, g) ==
  f \in [0 .. m -> S] /\ f[0] = a /\ \A i \in 1 .. m : f[i] = g[i][f[i - 1]]

LEMMA Recursion ==
  ASSUME NEW m \in Nat, NEW S, NEW a \in S, NEW g, \A i \in 1 .. m : g[i] \in [S -> S]
  PROVE  \E f : Unfolds(f, m, S, a, g)
<1> DEFINE Up(k, f) == f[0] = a /\ \A i \in 1 .. k : f[i] = g[i][f[i - 1]]
           P == {k \in 0 .. m : \E f \in [0 .. k -> S] : Up(k, f)}
<1>1. 0 \in P
  <2> DEFINE f == [i \in 0 .. 0 |-> a]
  <2>1. f \in [0 .. 0 -> S] /\ Up(0, f)
    OBVIOUS
  <2> HIDE DEF f, Up
  <2> QED
    BY <2>1
<1>2. ASSUME NEW k \in 0 .. m - 1, k \in P PROVE k + 1 \in P
  <2>1. PICK f \in [0 .. k -> S] : Up(k, f)
    BY <1>2
  <2> DEFINE h == [i \in 0 .. k + 1 |-> IF i <= k THEN f[i] ELSE g[k + 1][f[k]]]
  <2>2. g[k + 1] \in [S -> S] /\ f[k] \in S
    OBVIOUS
  <2>3. h \in [0 .. k + 1 -> S]
    BY <2>2
  <2>4. h[0] = a
    BY <2>1
  <2>5. ASSUME NEW i \in 1 .. k + 1 PROVE h[i] = g[i][h[i - 1]]
    <3>1. CASE i <= k
      <4>1. i \in 1 .. k /\ h[i] = f[i] /\ h[i - 1] = f[i - 1]
        BY <3>1
      <4> QED
        BY <2>1, <4>1
    <3>2. CASE i = k + 1
      <4>1. h[i] = g[k + 1][f[k]] /\ h[i - 1] = f[k]
        BY <3>2
      <4> QED
        BY <3>2, <4>1
    <3> QED
      BY <3>1, <3>2
  <2>6. Up(k + 1, h)
    BY <2>4, <2>5
  <2> HIDE DEF h, Up
  <2> QED
    BY <2>3, <2>6
<1>3. m \in P
  <2> HIDE DEF P
  <2>1. \A n \in 0 .. m : n \in P
    BY <1>1, <1>2, InductionUpTo
  <2> QED
    BY <2>1
<1>4. PICK f \in [0 .. m -> S] : Up(m, f)
  BY <1>3
<1> QED
  BY <1>4 DEF Unfolds

-----------------------------------------------------------------------------
(* Concatenation: FlattenSeq puts one sequence behind the other.           *)
LEMMA FlattenStepByStep ==
  ASSUME NEW T, NEW seqs \in Seq(Seq(T))
  PROVE  \E F \in [0 .. Len(seqs) -> Seq(T)] :
           /\ F[0] = <<>> /\ \A i \in 1 .. Len(seqs) : F[i] = F[i - 1] \o seqs[i]
           /\ FlattenSeq(seqs) = F[Len(seqs)]
<1> DEFINE m == Len(seqs)
           g == [i \in 1 .. m |-> [s \in Seq(T) |-> s \o seqs[i]]]
<1>1. m \in Nat /\ \A i \in 1 .. m : seqs[i] \in Seq(T)
  OBVIOUS
<1>2. \A i \in 1 .. m : g[i] \in [Seq(T) -> Seq(T)]
  BY <1>1
<1> DEFINE S == Seq(T)
           a == <<>>
<1>3. a \in S
  OBVIOUS
<1>4. PICK F : Unfolds(F, m, S, a, g)
  <2>1. m \in Nat /\ a \in S /\ \A i \in 1 .. m : g[i] \in [S -> S]
    BY <1>1, <1>2, <1>3
  <2> HIDE DEF m, g, S, a
  <2> QED
    BY <2>1, Recursion
<1>5. F \in [0 .. m -> Seq(T)] /\ F[0] = <<>> /\ \A i \in 1 .. m : F[i] = g[i][F[i - 1]]
  BY <1>4 DEF Unfolds
<1> HIDE DEF a, S
<1>6. \A i \in 1 .. m : F[i - 1] \in Seq(T) /\ F[i] = F[i - 1] \o seqs[i]
  <2> TAKE i \in 1 .. m
  <2>1. i - 1 \in 0 .. m
    BY <1>1
  <2>2. F[i - 1] \in Seq(T)
    BY <1>5, <2>1
  <2>3. g[i][F[i - 1]] = F[i - 1] \o seqs[i]
    BY <2>2
  <2> HIDE DEF g
  <2> QED
    BY <1>5, <2>2, <2>3
<1>7. CASE m = 0
  <2>1. FlattenSeq(seqs) = seqs /\ seqs = <<>>
    BY <1>7 DEF FlattenSeq
  <2> QED
    BY <1>5, <1>6, <1>7, <2>1
<1>8. CASE m # 0
  <2> DEFINE Q(f) == f = [i \in 1 .. m |-> IF i = 1 THEN seqs[i] ELSE f[i - 1] \o seqs[i]]
             h == [i \in 1 .. m |-> F[i]]
             c == CHOOSE f : Q(f)
  <2>1. FlattenSeq(seqs) = c[m]
    BY <1>8 DEF FlattenSeq
  <2>2. Q(h)
    <3>1. ASSUME NEW i \in 1 .. m
          PROVE  F[i] = IF i = 1 THEN seqs[i] ELSE h[i - 1] \o seqs[i]
      <4>1. CASE i = 1
        <5>1. F[i] = F[i - 1] \o seqs[i]
          <6> HIDE DEF m
          <6> QED
            BY <1>6
        <5>2. F[i - 1] = <<>>
          BY <1>5, <4>1
        <5>3. <<>> \o seqs[i] = seqs[i]
          BY <1>1
        <5> QED
          BY <4>1, <5>1, <5>2, <5>3
      <4>2. CASE i # 1
        <5>1. i - 1 \in 1 .. m
          BY <1>1, <4>2
        <5>2. h[i - 1] = F[i - 1]
          BY <5>1
        <5> HIDE DEF h
        <5> QED
          BY <1>6, <4>2, <5>2
      <4> QED
        BY <4>1, <4>2
    <3> QED
      BY <3>1
  <2>3. Q(c)
    <3> HIDE DEF Q, h
    <3> QED
      BY <2>2
  <2> DEFINE P == {i \in 0 .. m : i = 0 \/ c[i] = F[i]}
  <2>4. 0 \in P
    BY <1>1
  <2>5. ASSUME NEW i \in 0 .. m - 1, i \in P PROVE i + 1 \in P
    <3>1. i + 1 \in 1 .. m
      BY <1>1
    <3>2. c[i + 1] = IF i + 1 = 1 THEN seqs[i + 1] ELSE c[(i + 1) - 1] \o seqs[i + 1]
      <4> HIDE DEF c, m
      <4> QED
        BY <2>3, <3>1
    <3>0. (i + 1) - 1 = i
      BY <1>1
    <3>3. F[i + 1] = F[(i + 1) - 1] \o seqs[i + 1]
      <4> HIDE DEF m, c
      <4> QED
        BY <1>6, <3>1
    <3>4. CASE i = 0
      <4>1. seqs[1] \in Seq(T) /\ F[0] = <<>>
        BY <1>1, <1>5, <3>1, <3>4
      <4>2. <<>> \o seqs[1] = seqs[1]
        BY <4>1
      <4> HIDE DEF c
      <4>3. c[i + 1] = seqs[i + 1] /\ F[i + 1] = F[i] \o seqs[i + 1]
        BY <3>0, <3>2, <3>3, <3>4
      <4> QED
        BY <1>1, <3>1, <3>4, <4>1, <4>2, <4>3
    <3>5. CASE i # 0
      <4> HIDE DEF c
      <4>1. c[i] = F[i] /\ i + 1 # 1
        BY <1>1, <2>5, <3>5
      <4>2. c[i + 1] = F[i + 1]
        BY <3>0, <3>2, <3>3, <4>1
      <4> QED
        BY <1>1, <3>1, <4>2
    <3> QED
      BY <3>4, <3>5
  <2>6. \A i \in 0 .. m : i \in P
    <3> HIDE DEF P, m
    <3> QED
      BY <1>1, <2>4, <2>5, InductionUpTo
  <2>7. c[m] = F[m]
    <3>1. m \in 0 .. m
      BY <1>1
    <3> HIDE DEF c
    <3> QED
      BY <1>8, <2>6, <3>1
  <2> QED
    BY <1>5, <1>6, <2>1, <2>7
<1> QED
  BY <1>7, <1>8

(* What a concatenation is: any sequence R that has the i-th sequence      *)
(* between e[i - 1] and e[i].                                              *)
Cuts(e, seqs, R) ==
  /\ e \in [0 .. Len(seqs) -> 0 .. Len(R)] /\ e[0] = 0 /\ e[Len(seqs)] = Len(R)
  /\ \A i \in 1 .. Len(seqs) :
       /\ e[i] = e[i - 1] + Len(seqs[i])
       /\ \A k \in 1 .. Len(seqs[i]) : R[e[i - 1] + k] = seqs[i][k]

LEMMA FlattenIs ==
  ASSUME NEW T, NEW seqs \in Seq(Seq(T)), NEW R \in Seq(T), NEW e, Cuts(e, seqs, R)
  PROVE  FlattenSeq(seqs) = R
<1> DEFINE m == Len(seqs)
<1>0. /\ e \in [0 .. m -> 0 .. Len(R)] /\ e[0] = 0 /\ e[m] = Len(R)
      /\ \A i \in 1 .. m : e[i] = e[i - 1] + Len(seqs[i])
      /\ \A i \in 1 .. m : \A k \in 1 .. Len(seqs[i]) : R[e[i - 1] + k] = seqs[i][k]
  BY DEF Cuts
<1>1. m \in Nat /\ Len(R) \in Nat /\ \A i \in 1 .. m : seqs[i] \in Seq(T)
  OBVIOUS
<1>2. PICK F \in [0 .. m -> Seq(T)] :
        /\ F[0] = <<>> /\ \A i \in 1 .. m : F[i] = F[i - 1] \o seqs[i]
        /\ FlattenSeq(seqs) = F[m]
  BY FlattenStepByStep
<1> DEFINE P == {i \in 0 .. m : /\ Len(F[i]) = e[i] /\ \A k \in 1 .. e[i] : F[i][k] = R[k]}
<1>3. 0 \in P
  BY <1>0, <1>1, <1>2
<1>4. ASSUME NEW i \in 0 .. m - 1, i \in P PROVE i + 1 \in P
  <2>1. i \in 0 .. m /\ i + 1 \in 1 .. m /\ i + 1 \in 0 .. m /\ (i + 1) - 1 = i
    BY <1>1
  <2>2. PICK s \in Seq(T) : s = seqs[i + 1]
    BY <1>1, <2>1
  <2>3. F[i] \in Seq(T) /\ F[i + 1] = F[i] \o s
    BY <1>2, <2>1, <2>2
  <2>4. Len(F[i]) = e[i] /\ \A k \in 1 .. e[i] : F[i][k] = R[k]
    BY <1>4
  <2>5. e[i] \in Nat /\ e[i + 1] \in Nat /\ Len(s) \in Nat /\ e[i + 1] = e[i] + Len(s)
    <3>1. e[i + 1] = e[(i + 1) - 1] + Len(seqs[i + 1])
      <4> HIDE DEF m
      <4> QED
        BY <1>0, <2>1
    <3>2. e[i] \in Nat /\ e[i + 1] \in Nat
      <4> HIDE DEF m
      <4>1. e[i] \in 0 .. Len(R) /\ e[i + 1] \in 0 .. Len(R)
        BY <1>0, <2>1
      <4> QED
        BY <1>1, <4>1
    <3>3. Len(s) \in Nat
      BY <2>2
    <3> QED
      BY <2>1, <2>2, <3>1, <3>2, <3>3
  <2>6. Len(F[i + 1]) = e[i + 1]
    BY <2>3, <2>4, <2>5
  <2>7. ASSUME NEW k \in 1 .. e[i + 1] PROVE F[i + 1][k] = R[k]
    <3>1. CASE k <= e[i]
      <4>1. k \in 1 .. e[i] /\ F[i + 1][k] = F[i][k]
        BY <2>3, <2>4, <2>5, <3>1
      <4> QED
        BY <2>4, <4>1
    <3>2. CASE k > e[i]
      <4>0. k \in Nat /\ k - e[i] \in 1 .. Len(s) /\ e[i] + (k - e[i]) = k
        BY <2>5, <3>2
      <4>1. F[i + 1][k] = s[k - e[i]]
        <5>1. k \in 1 .. Len(F[i]) + Len(s) /\ ~(k <= Len(F[i]))
          BY <2>4, <2>5, <3>2, <4>0
        <5>2. PICK x \in Seq(T) : x = F[i]
          BY <2>3
        <5>3. (x \o s)[k] = s[k - Len(x)]
          BY <2>2, <5>1, <5>2, ConcatProperties
        <5> QED
          BY <2>3, <2>4, <5>2, <5>3
      <4>2. R[e[i] + (k - e[i])] = s[k - e[i]]
        BY <1>0, <2>1, <2>2, <4>0
      <4> QED
        BY <4>0, <4>1, <4>2
    <3> QED
      BY <2>5, <3>1, <3>2
  <2> QED
    BY <2>1, <2>6, <2>7
<1>5. \A i \in 0 .. m : i \in P
  <2> HIDE DEF P, m
  <2> QED
    BY <1>1, <1>3, <1>4, InductionUpTo
<1>6. Len(F[m]) = Len(R) /\ \A k \in 1 .. Len(R) : F[m][k] = R[k]
  <2>1. m \in P
    BY <1>1, <1>5
  <2> QED
    BY <1>0, <2>1
<1>7. F[m] \in Seq(T)
  <2>1. m \in 0 .. m
    BY <1>1
  <2> QED
    BY <2>1
<1>8. F[m] = R
  BY <1>6, <1>7
<1> QED
  BY <1>2, <1>8
=============================================================================
