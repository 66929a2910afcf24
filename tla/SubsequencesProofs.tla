------------------------- MODULE SubsequencesProofs -------------------------
(***************************************************************************)
(* Facts about numbers, positions and subsequences that the proofs of      *)
(* LogRow rest on.  The natural numbers are well-founded, so that a set of *)
(* them has a least element; what would be an induction over the length of *)
(* a sequence is an argument about the first or the last of a set of       *)
(* positions.                                                              *)
(***************************************************************************)
EXTENDS Subsequences, FiniteSetTheorems, WellFoundedInduction, TLAPS

\* A set of natural numbers has a least element ...
LEMMA Least ==
  ASSUME NEW T \in SUBSET Nat, T # {}
  PROVE  \E x \in T : \A y \in T : x <= y
<1> DEFINE R == {p \in Nat \X Nat : p[1] < p[2]}
<1>1. IsWellFoundedOn(R, Nat)
  BY NatLessThanWellFounded DEF OpToRel
<1> HIDE DEF R
<1>2. PICK x \in T : \A y \in T : ~ (<<y, x>> \in R)
  BY <1>1, WFMin
<1>3. \A y \in T : ~ (y < x)
  BY <1>2 DEF R
<1> QED
  BY <1>3

\* ... and, when it has a bound, a greatest one.
LEMMA Greatest ==
  ASSUME NEW n \in Nat, NEW T \in SUBSET (0..n), T # {}
  PROVE  \E x \in T : \A y \in T : y <= x
<1> DEFINE U == {u \in Nat : n - u \in T}
<1>1. PICK t \in T : TRUE
  OBVIOUS
<1>2. n - t \in U
  OBVIOUS
<1> HIDE DEF U
<1>3. U \in SUBSET Nat /\ U # {}
  BY <1>2 DEF U
<1>4. PICK u \in U : \A y \in U : u <= y
  BY <1>3, Least
<1>5. u \in Nat /\ n - u \in T
  BY DEF U
<1>6. \A y \in T : y <= n - u
  <2> SUFFICES ASSUME NEW y \in T PROVE y <= n - u
    OBVIOUS
  <2>1. n - y \in U
    BY DEF U
  <2> QED
    BY <1>4, <1>5, <2>1
<1> QED
  BY <1>5, <1>6

\* The numbers from 1 to n are n numbers.
LEMMA CountUpTo ==
  ASSUME NEW n \in Nat
  PROVE  IsFiniteSet(1..n) /\ Cardinality(1..n) = n
<1>1. IsFiniteSet(1..n) /\ Cardinality(1..n) = IF 1 > n THEN 0 ELSE n - 1 + 1
  BY FS_Interval
<1>2. (IF 1 > n THEN 0 ELSE n - 1 + 1) = n
  OBVIOUS
<1> QED
  BY <1>1, <1>2

-----------------------------------------------------------------------------
(* Ranks: the positions of a finite set are counted from 1 in their order. *)

\* The rank of a position is one of the numbers up to their count.
LEMMA RankType ==
  ASSUME NEW I \in SUBSET Nat, IsFiniteSet(I), NEW i \in I
  PROVE  /\ Rank(I, i) \in 1..Cardinality(I)
         /\ IsFiniteSet({j \in I : j <= i})
<1> DEFINE L == {j \in I : j <= i}
<1>1. IsFiniteSet(L) /\ Cardinality(L) <= Cardinality(I)
  BY FS_Subset
<1>2. i \in L
  OBVIOUS
<1>3. Cardinality(L) \in Nat /\ Cardinality(I) \in Nat
  BY <1>1, FS_CardinalityType
<1> HIDE DEF L
<1>4. Cardinality(L) # 0
  BY <1>1, <1>2, FS_EmptySet
<1>5. Cardinality(L) \in 1..Cardinality(I)
  BY <1>1, <1>3, <1>4
<1> QED
  BY <1>1, <1>5 DEF L, Rank

\* A later position has a higher rank.
LEMMA RankGrows ==
  ASSUME NEW I \in SUBSET Nat, IsFiniteSet(I), NEW i \in I, NEW j \in I, i < j
  PROVE  Rank(I, i) < Rank(I, j)
<1> DEFINE K == {k \in I : k <= i}  L == {k \in I : k <= j}
<1>1. IsFiniteSet(K) /\ IsFiniteSet(L)
  BY RankType
<1>2. K \in SUBSET L /\ j \in L /\ j \notin K
  <2>1. \A k \in I : k \in Int
    OBVIOUS
  <2>2. \A k \in I : k <= i => k <= j
    BY <2>1
  <2>3. j <= j /\ ~ (j <= i)
    BY <2>1
  <2> QED
    BY <2>1, <2>2, <2>3
<1> HIDE DEF K, L
<1>3. Cardinality(K) <= Cardinality(L) /\ Cardinality(K) # Cardinality(L)
  BY <1>1, <1>2, FS_Subset
<1>4. Cardinality(K) \in Nat /\ Cardinality(L) \in Nat
  BY <1>1, FS_CardinalityType
<1>5. Cardinality(K) < Cardinality(L)
  BY <1>3, <1>4
<1> QED
  BY <1>5 DEF K, L, Rank

\* Every number up to their count is the rank of one of them.
LEMMA RankOnto ==
  ASSUME NEW I \in SUBSET Nat, IsFiniteSet(I), NEW k \in 1..Cardinality(I)
  PROVE  \E i \in I : Rank(I, i) = k
<1> DEFINE f == [i \in I |-> Rank(I, i)]  C == 1..Cardinality(I)
<1>1. Cardinality(I) \in Nat
  BY FS_CardinalityType
<1>2. IsFiniteSet(C) /\ Cardinality(C) = Cardinality(I)
  BY <1>1, FS_Interval
<1>3. f \in [I -> C]
  BY RankType
<1>4. \A i, j \in I : f[i] = f[j] => i = j
  <2> SUFFICES ASSUME NEW i \in I, NEW j \in I, i # j PROVE f[i] # f[j]
    OBVIOUS
  <2>1. i < j \/ j < i
    OBVIOUS
  <2>2. f[i] < f[j] \/ f[j] < f[i]
    BY <2>1, RankGrows
  <2>3. f[i] \in Int /\ f[j] \in Int
    BY <1>3
  <2> QED
    BY <2>2, <2>3
<1>5. f \in Injection(I, C)
  BY <1>3, <1>4 DEF Injection, IsInjective
<1> HIDE DEF f, C
<1>6. f \in Surjection(I, C)
  BY <1>2, <1>5, FS_Injection
<1>7. \A c \in C : \E i \in I : f[i] = c
  BY <1>6 DEF Surjection
<1> QED
  BY <1>7 DEF f, C

\* A subsequence has the elements of the positions, each at the rank of its position, and
\* no other ones.
LEMMA SelectedElements ==
  ASSUME NEW R, NEW s \in Seq(R), NEW I \in SUBSET DOMAIN s
  PROVE  /\ IsFiniteSet(I) /\ Cardinality(I) \in Nat
         /\ Selected(s, I) \in Seq(R) /\ Len(Selected(s, I)) = Cardinality(I)
         /\ \A i \in I : Rank(I, i) \in DOMAIN Selected(s, I) /\ Selected(s, I)[Rank(I, i)] = s[i]
         /\ \A k \in DOMAIN Selected(s, I) : \E i \in I : Rank(I, i) = k /\ Selected(s, I)[k] = s[i]
<1>1. I \in SUBSET Nat /\ I \subseteq 1..Len(s) /\ Len(s) \in Nat
  OBVIOUS
<1>2. IsFiniteSet(1..Len(s))
  BY <1>1, FS_Interval
<1>3. IsFiniteSet(I)
  BY <1>1, <1>2, FS_Subset
<1>4. Cardinality(I) \in Nat
  BY <1>3, FS_CardinalityType
<1> DEFINE at(k) == CHOOSE i \in I : Rank(I, i) = k  t == Selected(s, I)
<1>5. \A k \in 1..Cardinality(I) : at(k) \in I /\ Rank(I, at(k)) = k
  BY <1>1, <1>3, RankOnto
<1>6. \A i, j \in I : Rank(I, i) = Rank(I, j) => i = j
  <2> SUFFICES ASSUME NEW i \in I, NEW j \in I, i # j PROVE Rank(I, i) # Rank(I, j)
    OBVIOUS
  <2>1. i < j \/ j < i
    BY <1>1
  <2>2. Rank(I, i) < Rank(I, j) \/ Rank(I, j) < Rank(I, i)
    BY <1>1, <1>3, <2>1, RankGrows
  <2>3. Rank(I, i) \in Int /\ Rank(I, j) \in Int
    <3>1. Rank(I, i) \in 1..Cardinality(I) /\ Rank(I, j) \in 1..Cardinality(I)
      BY <1>1, <1>3, RankType
    <3> QED
      BY <1>4, <3>1
  <2> QED
    BY <2>2, <2>3
<1>7. t = [k \in 1..Cardinality(I) |-> s[at(k)]]
  BY DEF Selected
<1> HIDE DEF at, t
<1>8. \A k \in 1..Cardinality(I) : t[k] = s[at(k)] /\ t[k] \in R
  BY <1>5, <1>7
<1>9. t \in Seq(R) /\ Len(t) = Cardinality(I) /\ DOMAIN t = 1..Cardinality(I)
  BY <1>4, <1>7, <1>8
<1>10. \A i \in I : Rank(I, i) \in DOMAIN t /\ t[Rank(I, i)] = s[i]
  <2> SUFFICES ASSUME NEW i \in I PROVE Rank(I, i) \in DOMAIN t /\ t[Rank(I, i)] = s[i]
    OBVIOUS
  <2>1. Rank(I, i) \in 1..Cardinality(I)
    BY <1>1, <1>3, RankType
  <2>2. at(Rank(I, i)) = i
    BY <1>5, <1>6, <2>1
  <2> QED
    BY <1>8, <1>9, <2>1, <2>2
<1>11. \A k \in DOMAIN t : \E i \in I : Rank(I, i) = k /\ t[k] = s[i]
  BY <1>5, <1>8, <1>9
<1> QED
  BY <1>3, <1>4, <1>9, <1>10, <1>11 DEF t
=============================================================================
