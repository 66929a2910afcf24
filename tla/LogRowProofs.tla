---------------------------- MODULE LogRowProofs ----------------------------
(***************************************************************************)
(* The proofs about LogRow: for every set of containers, of payloads and   *)
(* actions and every limit of a message, however many rows and snapshots   *)
(* there are, each invariant that TLC checks holds.  The bytes of a text   *)
(* are counted first, then what a cut leaves of it, then come the steps.   *)
(***************************************************************************)
EXTENDS LogRow, SubsequencesProofs, SequenceTheorems

-----------------------------------------------------------------------------
(* The bytes of a text. *)

BytesOf(t) == {b \in (DOMAIN t) \X (1..4) : b[2] <= Width[t[b[1]]]}

\* A character has one to four bytes.
LEMMA Widths == /\ \A c \in Chars : Width[c] \in 1..4
                /\ Width["bad"] = 3 /\ Width["dot"] = 1
<1>1. /\ Width["x"] = 1 /\ Width["wide"] = 2 /\ Width["emoji"] = 4 /\ Width["bad"] = 3
      /\ Width["dot"] = 1 /\ Width["amp"] = 1 /\ Width["space"] = 1 /\ Width["cr"] = 1 /\ Width["ansi"] = 1
  BY DEF Width
<1> QED
  BY <1>1 DEF Chars

\* A text has finitely many bytes.
LEMMA BytesFinite ==
  ASSUME NEW t \in Seq(Chars)
  PROVE  IsFiniteSet(BytesOf(t)) /\ Bytes(t) = Cardinality(BytesOf(t)) /\ Bytes(t) \in Nat
<1>1. DOMAIN t = 1..Len(t) /\ Len(t) \in Nat
  OBVIOUS
<1>2. IsFiniteSet(1..Len(t)) /\ IsFiniteSet(1..4)
  BY <1>1, CountUpTo
<1>3. IsFiniteSet((DOMAIN t) \X (1..4))
  BY <1>1, <1>2, FS_Product
<1>4. BytesOf(t) \in SUBSET ((DOMAIN t) \X (1..4))
  BY DEF BytesOf
<1>5. IsFiniteSet(BytesOf(t))
  BY <1>3, <1>4, FS_Subset
<1> QED
  BY <1>5, FS_CardinalityType DEF Bytes, BytesOf

\* The bytes of two texts one after the other are those of both.
LEMMA BytesConcat ==
  ASSUME NEW s \in Seq(Chars), NEW t \in Seq(Chars)
  PROVE  Bytes(s \o t) = Bytes(s) + Bytes(t)
<1> DEFINE u == s \o t
           S == BytesOf(s)
           T == BytesOf(t)
           U == {b \in BytesOf(u) : b[1] > Len(s)}
           f == [b \in T |-> <<b[1] + Len(s), b[2]>>]
<1>1. /\ u \in Seq(Chars) /\ Len(u) = Len(s) + Len(t) /\ DOMAIN u = 1..Len(u)
      /\ DOMAIN s = 1..Len(s) /\ DOMAIN t = 1..Len(t) /\ Len(s) \in Nat /\ Len(t) \in Nat
      /\ \A i \in 1..Len(s) : u[i] = s[i]
      /\ \A i \in 1..Len(t) : u[i + Len(s)] = t[i]
  OBVIOUS
<1>2. \A b : b \in T => /\ b[1] \in 1..Len(t) /\ b[2] \in 1..4 /\ b = <<b[1], b[2]>>
                        /\ b[2] <= Width[t[b[1]]]
  BY <1>1 DEF BytesOf
<1>3. \A b \in U : /\ b[1] - Len(s) \in 1..Len(t) /\ b[2] \in 1..4 /\ b = <<b[1], b[2]>>
                   /\ b[2] <= Width[t[b[1] - Len(s)]]
  <2> SUFFICES ASSUME NEW b \in U
               PROVE  /\ b[1] - Len(s) \in 1..Len(t) /\ b[2] \in 1..4 /\ b = <<b[1], b[2]>>
                      /\ b[2] <= Width[t[b[1] - Len(s)]]
    OBVIOUS
  <2>1. b[1] \in 1..Len(u) /\ b[1] > Len(s) /\ b[2] \in 1..4 /\ b = <<b[1], b[2]>> /\ b[2] <= Width[u[b[1]]]
    BY <1>1 DEF BytesOf
  <2>2. b[1] - Len(s) \in 1..Len(t) /\ (b[1] - Len(s)) + Len(s) = b[1]
    BY <1>1, <2>1
  <2> QED
    BY <1>1, <2>1, <2>2
<1>4. BytesOf(u) = S \cup U /\ S \cap U = {}
  <2>1. \A b : b \in BytesOf(u) <=> /\ b \in (1..Len(u)) \X (1..4) /\ b[2] <= Width[u[b[1]]]
    BY <1>1 DEF BytesOf
  <2>2. \A b : b \in S <=> b \in (1..Len(s)) \X (1..4) /\ b[2] <= Width[s[b[1]]]
    BY <1>1 DEF BytesOf
  <2>3. \A b \in S : b \in BytesOf(u) /\ ~ (b[1] > Len(s))
    BY <1>1, <2>1, <2>2
  <2>4. \A b \in BytesOf(u) : ~ (b[1] > Len(s)) => b \in S
    BY <1>1, <2>1, <2>2
  <2> QED
    BY <2>3, <2>4
<1>5. f \in Bijection(T, U)
  <2>1. \A b \in T : f[b] \in U
    <3> SUFFICES ASSUME NEW b \in T PROVE <<b[1] + Len(s), b[2]>> \in U
      OBVIOUS
    <3>1. b[1] + Len(s) \in 1..Len(u) /\ b[1] + Len(s) > Len(s) /\ u[b[1] + Len(s)] = t[b[1]]
      BY <1>1, <1>2
    <3> QED
      BY <1>1, <1>2, <3>1 DEF BytesOf
  <2>2. \A a, b \in T : f[a] = f[b] => a = b
    <3> SUFFICES ASSUME NEW a \in T, NEW b \in T, f[a] = f[b] PROVE a = b
      OBVIOUS
    <3>1. a[1] + Len(s) = b[1] + Len(s) /\ a[2] = b[2]
      OBVIOUS
    <3> QED
      BY <1>1, <1>2, <3>1
  <2>3. \A b \in U : \E a \in T : f[a] = b
    <3> SUFFICES ASSUME NEW b \in U PROVE \E a \in T : f[a] = b
      OBVIOUS
    <3> DEFINE a == <<b[1] - Len(s), b[2]>>
    <3>1. a \in T
      BY <1>1, <1>3 DEF BytesOf
    <3>2. b[1] \in Int /\ b = <<b[1], b[2]>>
      BY <1>1, <1>3 DEF BytesOf
    <3>3. f[a] = b
      BY <1>1, <3>1, <3>2
    <3> QED
      BY <3>1, <3>3
  <2> HIDE DEF T, U
  <2>4. f \in [T -> U]
    BY <2>1
  <2> HIDE DEF f
  <2> QED
    BY <2>2, <2>3, <2>4 DEF Bijection, Injection, Surjection, IsInjective
<1>6. IsFiniteSet(S) /\ IsFiniteSet(T) /\ IsFiniteSet(BytesOf(u))
  BY <1>1, BytesFinite
<1>7. Bytes(s) = Cardinality(S) /\ Bytes(t) = Cardinality(T) /\ Bytes(u) = Cardinality(BytesOf(u))
      /\ Bytes(s) \in Nat /\ Bytes(t) \in Nat
  BY <1>1, BytesFinite
<1> HIDE DEF u, S, T, U, f
<1>8. IsFiniteSet(U) /\ Cardinality(U) = Cardinality(T)
  BY <1>5, <1>6, FS_Bijection DEF ExistsBijection
<1>9. Cardinality(S \cup U) = Cardinality(S) + Cardinality(U) - Cardinality(S \cap U)
  BY <1>6, <1>8, FS_Union
<1>10. Cardinality(S \cap U) = 0
  BY <1>4, FS_EmptySet
<1> QED
  BY <1>4, <1>7, <1>8, <1>9, <1>10 DEF u

\* A text of characters of one width has that many bytes for each.
LEMMA BytesUniform ==
  ASSUME NEW t \in Seq(Chars), NEW w \in 1..4, \A i \in DOMAIN t : Width[t[i]] = w
  PROVE  Bytes(t) = Len(t) * w
<1>1. DOMAIN t = 1..Len(t) /\ Len(t) \in Nat
  OBVIOUS
<1>2. BytesOf(t) = (1..Len(t)) \X (1..w)
  <2>1. \A b : b \in BytesOf(t) <=> b \in (1..Len(t)) \X (1..4) /\ b[2] <= w
    BY <1>1 DEF BytesOf
  <2>2. \A b : b \in (1..Len(t)) \X (1..4) /\ b[2] <= w <=> b \in (1..Len(t)) \X (1..w)
    OBVIOUS
  <2> QED
    BY <2>1, <2>2
<1>3. IsFiniteSet(1..Len(t)) /\ Cardinality(1..Len(t)) = Len(t)
  BY <1>1, CountUpTo
<1>4. IsFiniteSet(1..w) /\ Cardinality(1..w) = w
  BY CountUpTo
<1>5. Cardinality((1..Len(t)) \X (1..w)) = Len(t) * w
  BY <1>3, <1>4, FS_Product
<1> QED
  BY <1>2, <1>5, BytesFinite

\* One character has its width, nothing has none.
LEMMA BytesSmall ==
  /\ Bytes(<<>>) = 0
  /\ \A c \in Chars : Bytes(<<c>>) = Width[c]
<1>1. Bytes(<<>>) = 0
  <2>1. <<>> \in Seq(Chars) /\ Len(<<>>) = 0 /\ 1 \in 1..4
        /\ \A i \in DOMAIN <<>> : Width[<<>>[i]] = 1
    OBVIOUS
  <2>2. Bytes(<<>>) = Len(<<>>) * 1
    BY <2>1, BytesUniform
  <2> QED
    BY <2>1, <2>2
<1>2. ASSUME NEW c \in Chars
      PROVE  Bytes(<<c>>) = Width[c]
  <2>1. <<c>> \in Seq(Chars) /\ Len(<<c>>) = 1 /\ \A i \in DOMAIN <<c>> : Width[<<c>>[i]] = Width[c]
    OBVIOUS
  <2>2. Width[c] \in 1..4
    BY Widths
  <2>3. Bytes(<<c>>) = Len(<<c>>) * Width[c]
    BY <2>1, <2>2, BytesUniform
  <2> QED
    BY <2>1, <2>2, <2>3
<1> QED
  BY <1>1, <1>2

\* A character that is cut leaves three bytes for each of its own; the dots are three more.
Bads(r) == [i \in 1..r |-> "bad"]
Dots == <<"dot", "dot", "dot">>
Cut(p, r) == (p \o Bads(r)) \o Dots

LEMMA BytesOfCut ==
  /\ Dots \in Seq(Chars) /\ Len(Dots) = 3 /\ Bytes(Dots) = 3
  /\ \A r \in Nat : Bads(r) \in Seq(Chars) /\ Len(Bads(r)) = r /\ Bytes(Bads(r)) = r * 3
<1>1. Dots \in Seq(Chars) /\ Len(Dots) = 3 /\ Bytes(Dots) = 3
  <2>1. Dots \in Seq(Chars) /\ Len(Dots) = 3 /\ 1 \in 1..4
        /\ \A i \in DOMAIN Dots : Width[Dots[i]] = 1
    BY Widths DEF Dots, Chars
  <2>2. Bytes(Dots) = Len(Dots) * 1
    BY <2>1, BytesUniform
  <2> QED
    BY <2>1, <2>2
<1>2. ASSUME NEW r \in Nat
      PROVE  Bads(r) \in Seq(Chars) /\ Len(Bads(r)) = r /\ Bytes(Bads(r)) = r * 3
  <2>1. Bads(r) \in Seq(Chars) /\ Len(Bads(r)) = r /\ 3 \in 1..4
        /\ \A i \in DOMAIN Bads(r) : Width[Bads(r)[i]] = 3
    BY Widths DEF Bads, Chars
  <2>2. Bytes(Bads(r)) = Len(Bads(r)) * 3
    BY <2>1, BytesUniform
  <2> QED
    BY <2>1, <2>2
<1> QED
  BY <1>1, <1>2

-----------------------------------------------------------------------------
(* Prefixes. *)

\* A text is any of its prefixes and the rest.
LEMMA Parts ==
  ASSUME NEW t \in Seq(Chars), NEW k \in 0..Len(t)
  PROVE  /\ Prefix(t, k) \in Seq(Chars) /\ Len(Prefix(t, k)) = k
         /\ \A i \in 1..k : Prefix(t, k)[i] = t[i]
         /\ SubSeq(t, k + 1, Len(t)) \in Seq(Chars) /\ Len(SubSeq(t, k + 1, Len(t))) = Len(t) - k
         /\ t = Prefix(t, k) \o SubSeq(t, k + 1, Len(t))
<1> DEFINE p == SubSeq(t, 1, k)  q == SubSeq(t, k + 1, Len(t))
<1>1. p \in Seq(Chars) /\ Len(p) = k /\ \A i \in 1..k : p[i] = t[i]
  BY SubSeqProperties
<1>2. q \in Seq(Chars) /\ Len(q) = Len(t) - k /\ \A i \in 1..Len(q) : q[i] = t[k + i]
  BY SubSeqProperties
<1> HIDE DEF p, q
<1>3. p \o q \in Seq(Chars) /\ Len(p \o q) = Len(t)
  BY <1>1, <1>2
<1>4. \A i \in 1..Len(t) : t[i] = (p \o q)[i]
  <2> SUFFICES ASSUME NEW i \in 1..Len(t) PROVE t[i] = (p \o q)[i]
    OBVIOUS
  <2>1. (p \o q)[i] = IF i <= k THEN p[i] ELSE q[i - k]
    <3>1. Len(p) = k /\ i \in 1..Len(p) + Len(q)
      BY <1>1, <1>2
    <3> QED
      BY <1>1, <1>2, <3>1, ConcatProperties
  <2>2. CASE i <= k
    BY <1>1, <2>1, <2>2
  <2>3. CASE i > k
    <3>1. i - k \in 1..Len(q) /\ k + (i - k) = i
      BY <1>2, <2>3
    <3> QED
      BY <1>2, <2>1, <2>3, <3>1
  <2>4. i <= k \/ i > k
    BY <1>1
  <2> QED
    BY <2>2, <2>3, <2>4
<1>5. t = p \o q
  BY <1>3, <1>4, SeqEqual
<1> QED
  BY <1>1, <1>2, <1>5 DEF p, q, Prefix

\* What two texts begin with is the same when it is, element by element.
LEMMA SamePrefix ==
  ASSUME NEW s \in Seq(Chars), NEW t \in Seq(Chars), NEW k \in Nat, k <= Len(s), k <= Len(t)
  PROVE  Prefix(s, k) = Prefix(t, k) <=> \A i \in 1..k : s[i] = t[i]
<1>1. Prefix(s, k) \in Seq(Chars) /\ Len(Prefix(s, k)) = k /\ \A i \in 1..k : Prefix(s, k)[i] = s[i]
  BY Parts
<1>2. Prefix(t, k) \in Seq(Chars) /\ Len(Prefix(t, k)) = k /\ \A i \in 1..k : Prefix(t, k)[i] = t[i]
  BY Parts
<1> QED
  BY <1>1, <1>2, SeqEqual

\* A prefix has no more bytes than a longer one, and the next character adds its own.
LEMMA PrefixBytes ==
  ASSUME NEW t \in Seq(Chars), NEW k \in 0..Len(t)
  PROVE  /\ Bytes(Prefix(t, k)) \in Nat
         /\ \A j \in k..Len(t) : Bytes(Prefix(t, k)) <= Bytes(Prefix(t, j))
         /\ Bytes(Prefix(t, k)) <= Bytes(t) /\ Bytes(Prefix(t, 0)) = 0 /\ Prefix(t, Len(t)) = t
         /\ k < Len(t) => Bytes(Prefix(t, k + 1)) = Bytes(Prefix(t, k)) + Width[t[k + 1]]
<1>1. Bytes(Prefix(t, k)) \in Nat
  BY Parts, BytesFinite
<1>2. ASSUME NEW j \in k..Len(t)
      PROVE  Bytes(Prefix(t, k)) <= Bytes(Prefix(t, j))
  <2> DEFINE p == Prefix(t, j)
  <2>1. p \in Seq(Chars) /\ Len(p) = j /\ \A i \in 1..j : p[i] = t[i]
    BY Parts
  <2>2. k \in 0..Len(p)
    BY <2>1
  <2>3. Prefix(p, k) = Prefix(t, k)
    BY <2>1, <2>2, SamePrefix
  <2> HIDE DEF p
  <2>4. /\ p = Prefix(p, k) \o SubSeq(p, k + 1, Len(p))
        /\ Prefix(p, k) \in Seq(Chars) /\ SubSeq(p, k + 1, Len(p)) \in Seq(Chars)
    BY <2>1, <2>2, Parts
  <2>5. /\ Bytes(p) = Bytes(Prefix(p, k)) + Bytes(SubSeq(p, k + 1, Len(p)))
        /\ Bytes(Prefix(p, k)) \in Nat /\ Bytes(SubSeq(p, k + 1, Len(p))) \in Nat
    BY <2>4, BytesConcat, BytesFinite
  <2>6. Bytes(Prefix(p, k)) <= Bytes(p)
    BY <2>5
  <2> QED
    BY <2>3, <2>6 DEF p
<1>3. Prefix(t, Len(t)) = t
  BY DEF Prefix
<1>4. Bytes(Prefix(t, k)) <= Bytes(t)
  <2>1. Len(t) \in k..Len(t)
    OBVIOUS
  <2> QED
    BY <1>2, <1>3, <2>1
<1>5. Prefix(t, 0) = <<>>
  BY DEF Prefix
<1>6. ASSUME k < Len(t)
      PROVE  Bytes(Prefix(t, k + 1)) = Bytes(Prefix(t, k)) + Width[t[k + 1]]
  <2>1. k + 1 \in 0..Len(t) /\ t[k + 1] \in Chars /\ <<t[k + 1]>> \in Seq(Chars)
    BY <1>6
  <2>2. Prefix(t, k + 1) = Prefix(t, k) \o <<t[k + 1]>>
    BY <1>6 DEF Prefix
  <2>3. Prefix(t, k) \in Seq(Chars)
    BY Parts
  <2>4. Bytes(<<t[k + 1]>>) = Width[t[k + 1]]
    BY <2>1, BytesSmall
  <2> QED
    BY <2>1, <2>2, <2>3, <2>4, BytesConcat
<1> QED
  BY <1>1, <1>2, <1>3, <1>4, <1>5, <1>6, BytesSmall

-----------------------------------------------------------------------------
(* What is left of a text that is cut. *)

\* There is a place where the bytes up to n end ...
LEMMA EndExists ==
  ASSUME NEW t \in Seq(Chars), NEW n \in Nat
  PROVE  \E k \in 0..Len(t) : EndsAt(t, n, k)
<1> DEFINE Over == {k \in 0..Len(t) : Bytes(Prefix(t, k)) > n}
<1>1. \A k \in 0..Len(t) : Bytes(Prefix(t, k)) \in Nat
  BY PrefixBytes
<1>2. CASE Over = {}
  <2>1. Len(t) \in 0..Len(t) /\ ~ (Len(t) < Len(t))
    OBVIOUS
  <2>2. Len(t) \notin Over
    BY <1>2
  <2>3. Bytes(Prefix(t, Len(t))) <= n
    BY <1>1, <2>1, <2>2
  <2> QED
    BY <2>1, <2>3 DEF EndsAt
<1>3. CASE Over # {}
  <2>1. Over \in SUBSET Nat
    OBVIOUS
  <2>2. PICK o \in Over : \A k \in Over : o <= k
    BY <1>3, <2>1, Least
  <2>3. o \in 0..Len(t) /\ Bytes(Prefix(t, o)) > n
    OBVIOUS
  <2>4. 0 \in 0..Len(t)
    OBVIOUS
  <2>5. Bytes(Prefix(t, 0)) = 0
    BY <2>4, PrefixBytes
  <2>6. o # 0
    BY <2>3, <2>5
  <2>7. o - 1 \in 0..Len(t) /\ (o - 1) + 1 = o
    BY <2>3, <2>6
  <2>8. o - 1 \notin Over
    BY <2>2, <2>3
  <2>9. Bytes(Prefix(t, o - 1)) <= n
    BY <1>1, <2>7, <2>8
  <2> QED
    BY <2>3, <2>7, <2>9 DEF EndsAt
<1> QED
  BY <1>2, <1>3

\* ... and no other one.
LEMMA EndUnique ==
  ASSUME NEW t \in Seq(Chars), NEW n \in Nat, NEW j \in 0..Len(t), NEW k \in 0..Len(t),
         EndsAt(t, n, j), EndsAt(t, n, k)
  PROVE  j = k
<1>1. ASSUME NEW a \in 0..Len(t), NEW b \in 0..Len(t), EndsAt(t, n, a), EndsAt(t, n, b), a < b
      PROVE  FALSE
  <2>1. a \in 0..Len(t) /\ b \in 0..Len(t) /\ a + 1 \in 0..Len(t) /\ b \in (a + 1)..Len(t) /\ a < Len(t)
    BY <1>1
  <2>2. Bytes(Prefix(t, a + 1)) <= Bytes(Prefix(t, b))
    BY <2>1, PrefixBytes
  <2>3. Bytes(Prefix(t, a + 1)) \in Nat /\ Bytes(Prefix(t, b)) \in Nat
    BY <2>1, PrefixBytes
  <2>4. Bytes(Prefix(t, a + 1)) > n /\ Bytes(Prefix(t, b)) <= n
    BY <1>1, <2>1 DEF EndsAt
  <2> QED
    BY <2>2, <2>3, <2>4
<1>2. j \in Int /\ k \in Int
  OBVIOUS
<1>3. ~ (j < k) /\ ~ (k < j)
  BY <1>1
<1> QED
  BY <1>2, <1>3

\* So a cut keeps what is before it and makes U+FFFD of the bytes after it.
LEMMA FirstBytesAt ==
  ASSUME NEW t \in Seq(Chars), NEW n \in Nat, NEW k \in 0..Len(t), EndsAt(t, n, k)
  PROVE  FirstBytes(t, n) = Prefix(t, k) \o Bads(n - Bytes(Prefix(t, k)))
<1> DEFINE whole == CHOOSE i \in 0..Len(t) : EndsAt(t, n, i)
<1>1. whole \in 0..Len(t) /\ EndsAt(t, n, whole)
  OBVIOUS
<1>2. FirstBytes(t, n) = Prefix(t, whole) \o [i \in 1..(n - Bytes(Prefix(t, whole))) |-> "bad"]
  BY DEF FirstBytes
<1> HIDE DEF whole
<1>3. whole = k
  BY <1>1, EndUnique
<1> QED
  BY <1>2, <1>3 DEF Bads

\* A text is cut between p and the rest u when u begins with a character that is too wide.
LEMMA CutBetween ==
  ASSUME NEW p \in Seq(Chars), NEW u \in Seq(Chars), Len(u) > 0,
         Bytes(p) <= MaxMessage, Bytes(p) + Width[u[1]] > MaxMessage
  PROVE  Truncate(p \o u) = Cut(p, MaxMessage - Bytes(p))
<1> DEFINE t == p \o u  k == Len(p)
<1>1. /\ t \in Seq(Chars) /\ Len(t) = k + Len(u) /\ k \in 0..Len(t) /\ k < Len(t)
      /\ t[k + 1] = u[1] /\ \A i \in 1..k : t[i] = p[i]
  OBVIOUS
<1>2. k \in Nat /\ k \in 0..Len(p) /\ k <= Len(p) /\ k <= Len(t) /\ Prefix(p, k) = p
  BY <1>1, PrefixBytes
<1> HIDE DEF t, k
<1>3. Prefix(t, k) = p
  BY <1>1, <1>2, SamePrefix
<1>4. Bytes(Prefix(t, k + 1)) = Bytes(p) + Width[u[1]]
  BY <1>1, <1>3, PrefixBytes
<1>5. MaxMessage \in Nat
  BY BoundsAssumption
<1>6. EndsAt(t, MaxMessage, k)
  BY <1>1, <1>3, <1>4 DEF EndsAt
<1>7. FirstBytes(t, MaxMessage) = Prefix(t, k) \o Bads(MaxMessage - Bytes(Prefix(t, k)))
  BY <1>1, <1>5, <1>6, FirstBytesAt
<1>8. Bytes(t) > MaxMessage
  <2>1. k + 1 \in 0..Len(t)
    BY <1>1
  <2>2. Bytes(Prefix(t, k + 1)) <= Bytes(t) /\ Bytes(Prefix(t, k + 1)) \in Nat /\ Bytes(t) \in Nat
    BY <1>1, <2>1, PrefixBytes, BytesFinite
  <2> QED
    BY <1>4, <1>5, <2>2
<1>9. Truncate(t) = FirstBytes(t, MaxMessage) \o Dots
  BY <1>8 DEF Truncate, Dots
<1> QED
  BY <1>3, <1>7, <1>9 DEF t, Cut

\* Every text that is too long is cut at such a place, and less than a character is lost there.
LEMMA CutShape ==
  ASSUME NEW t \in Seq(Chars), Bytes(t) > MaxMessage
  PROVE  \E k \in 0..(Len(t) - 1), r \in 0..3 :
           /\ EndsAt(t, MaxMessage, k)
           /\ Bytes(Prefix(t, k)) + r = MaxMessage
           /\ Truncate(t) = Cut(Prefix(t, k), r)
<1>1. MaxMessage \in Nat
  BY BoundsAssumption
<1>2. PICK k \in 0..Len(t) : EndsAt(t, MaxMessage, k)
  BY <1>1, EndExists
<1>3. Bytes(Prefix(t, k)) \in Nat /\ Prefix(t, Len(t)) = t
  BY PrefixBytes
<1>4. k < Len(t)
  BY <1>1, <1>2, <1>3 DEF EndsAt
<1>5. Bytes(Prefix(t, k)) <= MaxMessage /\ Bytes(Prefix(t, k)) + Width[t[k + 1]] > MaxMessage
  BY <1>2, <1>4, PrefixBytes DEF EndsAt
<1>6. t[k + 1] \in Chars
  BY <1>4
<1>7. Width[t[k + 1]] \in 1..4
  BY <1>6, Widths
<1> DEFINE r == MaxMessage - Bytes(Prefix(t, k))
<1>8. r \in 0..3 /\ Bytes(Prefix(t, k)) + r = MaxMessage
  BY <1>1, <1>3, <1>5, <1>7
<1>9. FirstBytes(t, MaxMessage) = Prefix(t, k) \o Bads(r)
  BY <1>1, <1>2, FirstBytesAt
<1>10. Truncate(t) = Cut(Prefix(t, k), r)
  BY <1>9 DEF Truncate, Dots, Cut
<1>11. k \in 0..(Len(t) - 1)
  BY <1>4
<1> HIDE DEF r
<1> QED
  BY <1>2, <1>8, <1>10, <1>11

\* What is left of p and a character of r bytes; Bads and Dots may be taken together.
LEMMA CutParts ==
  ASSUME NEW p \in Seq(Chars), NEW r \in Nat
  PROVE  /\ Cut(p, r) \in Seq(Chars) /\ Len(Cut(p, r)) = Len(p) + r + 3
         /\ \A i \in 1..Len(p) : Cut(p, r)[i] = p[i]
         /\ Cut(p, r)[Len(p) + r + 3] = "dot"
         /\ Bytes(Cut(p, r)) = Bytes(p) + r * 3 + 3
         /\ Cut(p, r) = p \o (Bads(r) \o Dots)
         /\ Bads(r) \o Dots \in Seq(Chars) /\ Len(Bads(r) \o Dots) = r + 3
         /\ (Bads(r) \o Dots)[1] = IF r > 0 THEN "bad" ELSE "dot"
<1> DEFINE b == Bads(r)  d == Dots  pb == p \o b
<1>1. /\ b \in Seq(Chars) /\ Len(b) = r /\ Bytes(b) = r * 3 /\ \A i \in 1..r : b[i] = "bad"
      /\ d \in Seq(Chars) /\ Len(d) = 3 /\ Bytes(d) = 3 /\ d[1] = "dot" /\ d[3] = "dot"
  BY BytesOfCut DEF Bads, Dots
<1> HIDE DEF b, d
<1>2. /\ pb \in Seq(Chars) /\ Len(pb) = Len(p) + r
      /\ \A i \in 1..Len(p) : pb[i] = p[i]
  BY <1>1
<1>3. pb \o d = p \o (b \o d)
  BY <1>1, ConcatAssociative
<1>4. Bytes(pb) = Bytes(p) + r * 3
  BY <1>1, BytesConcat
<1>5. b \o d \in Seq(Chars) /\ Len(b \o d) = r + 3 /\ (b \o d)[1] = IF r > 0 THEN "bad" ELSE "dot"
  <2>1. /\ b \o d \in Seq(Chars) /\ Len(b \o d) = r + 3
        /\ \A i \in 1..(r + 3) : (b \o d)[i] = IF i <= r THEN b[i] ELSE d[i - r]
    <3>1. /\ b \o d \in Seq(Chars) /\ Len(b \o d) = Len(b) + Len(d)
          /\ \A i \in 1..(Len(b) + Len(d)) :
               (b \o d)[i] = IF i <= Len(b) THEN b[i] ELSE d[i - Len(b)]
      BY <1>1, ConcatProperties, Zenon
    <3> QED
      BY <1>1, <3>1
  <2>2. 1 \in 1..(r + 3) /\ (r > 0 => 1 \in 1..r) /\ (~ (r > 0) => 1 - r = 1)
    OBVIOUS
  <2>3. (b \o d)[1] = IF 1 <= r THEN b[1] ELSE d[1 - r]
    BY <2>1, <2>2
  <2>4. r > 0 <=> 1 <= r
    OBVIOUS
  <2> QED
    BY <1>1, <2>1, <2>2, <2>3, <2>4
<1>6. Len(p) \in Nat
  OBVIOUS
<1> HIDE DEF pb
<1>7. pb \o d \in Seq(Chars) /\ Len(pb \o d) = Len(p) + r + 3 /\ Bytes(pb \o d) = Bytes(p) + r * 3 + 3
  <2>1. Bytes(pb \o d) = Bytes(pb) + Bytes(d)
    BY <1>1, <1>2, BytesConcat
  <2>2. pb \o d \in Seq(Chars) /\ Len(pb \o d) = Len(pb) + Len(d)
    BY <1>1, <1>2, ConcatProperties
  <2> QED
    BY <1>1, <1>2, <1>4, <2>1, <2>2
<1>8. \A i \in 1..(Len(pb) + Len(d)) : (pb \o d)[i] = IF i <= Len(pb) THEN pb[i] ELSE d[i - Len(pb)]
  <2>1. pb \in Seq(Chars) /\ d \in Seq(Chars)
    BY <1>1, <1>2
  <2>2. /\ pb \o d \in Seq(Chars) /\ Len(pb \o d) = Len(pb) + Len(d)
        /\ \A i \in 1..(Len(pb) + Len(d)) :
             (pb \o d)[i] = IF i <= Len(pb) THEN pb[i] ELSE d[i - Len(pb)]
    BY <2>1, ConcatProperties, Zenon
  <2> QED
    BY <2>2
<1>9. \A i \in 1..Len(p) : (pb \o d)[i] = p[i]
  BY <1>1, <1>2, <1>6, <1>8
<1>10. (pb \o d)[Len(p) + r + 3] = "dot"
  <2> DEFINE n == Len(p) + r + 3
  <2>1. n \in 1..(Len(pb) + Len(d)) /\ ~ (n <= Len(pb)) /\ n - Len(pb) = 3
    BY <1>1, <1>2, <1>6
  <2> HIDE DEF n
  <2>2. (pb \o d)[n] = d[3]
    BY <1>8, <2>1
  <2> QED
    BY <1>1, <2>2 DEF n
<1> QED
  BY <1>3, <1>5, <1>7, <1>9, <1>10 DEF b, d, pb, Cut

\* What is stored is a text, nine bytes longer than the limit at most, ...
LEMMA TruncateType ==
  ASSUME NEW t \in Seq(Chars)
  PROVE  Truncate(t) \in Seq(Chars) /\ Bytes(Truncate(t)) <= MaxMessage + 9
<1>1. MaxMessage \in Nat /\ Bytes(t) \in Nat
  BY BoundsAssumption, BytesFinite
<1>2. CASE Bytes(t) > MaxMessage
  <2>1. PICK k \in 0..(Len(t) - 1), r \in 0..3 :
          /\ Bytes(Prefix(t, k)) + r = MaxMessage
          /\ Truncate(t) = Cut(Prefix(t, k), r)
    BY <1>2, CutShape
  <2>2. k \in 0..Len(t) /\ r \in Nat
    OBVIOUS
  <2>3. Prefix(t, k) \in Seq(Chars)
    BY <2>2, Parts
  <2>4. Bytes(Prefix(t, k)) \in Nat
    BY <2>3, BytesFinite
  <2>5. Truncate(t) \in Seq(Chars) /\ Bytes(Truncate(t)) = Bytes(Prefix(t, k)) + r * 3 + 3
    BY <2>1, <2>2, <2>3, CutParts
  <2> QED
    BY <1>1, <2>1, <2>2, <2>4, <2>5
<1>3. CASE ~ (Bytes(t) > MaxMessage)
  BY <1>1, <1>3 DEF Truncate
<1> QED
  BY <1>2, <1>3

\* ... ends in dots when it was cut, which are no white space, ...
LEMMA TruncateBlank ==
  ASSUME NEW t \in Seq(Chars), Blank(Truncate(t))
  PROVE  Blank(t)
<1>1. CASE Bytes(t) > MaxMessage
  <2>1. PICK k \in 0..(Len(t) - 1), r \in 0..3 : Truncate(t) = Cut(Prefix(t, k), r)
    BY <1>1, CutShape
  <2>2. k \in 0..Len(t) /\ r \in Nat
    OBVIOUS
  <2> DEFINE p == Prefix(t, k)
  <2>3. p \in Seq(Chars) /\ Len(p) = k /\ Truncate(t) = Cut(p, r)
    BY <2>1, <2>2, Parts
  <2> HIDE DEF p
  <2>4. Truncate(t) \in Seq(Chars) /\ Len(Truncate(t)) = k + r + 3 /\ Truncate(t)[k + r + 3] = "dot"
    <3>1. /\ Cut(p, r) \in Seq(Chars) /\ Len(Cut(p, r)) = Len(p) + r + 3
          /\ \A i \in 1..Len(p) : Cut(p, r)[i] = p[i]
          /\ Cut(p, r)[Len(p) + r + 3] = "dot"
      BY <2>2, <2>3, CutParts
    <3> QED
      BY <2>3, <3>1
  <2>5. k + r + 3 \in DOMAIN Truncate(t)
    BY <2>2, <2>4
  <2>6. "dot" \in White
    BY <2>4, <2>5 DEF Blank
  <2> QED
    BY <2>6 DEF White
<1>2. CASE ~ (Bytes(t) > MaxMessage)
  BY <1>2 DEF Truncate
<1> QED
  BY <1>1, <1>2

\* ... and begins as the text did, as far as that is within the limit.
LEMMA TruncateCarries ==
  ASSUME NEW t \in Seq(Chars), NEW m \in Seq(Chars), Carries(t, m)
  PROVE  Carries(Truncate(t), m)
<1>1. MaxMessage \in Nat
  BY BoundsAssumption
<1>2. CASE ~ (Bytes(t) > MaxMessage)
  BY <1>2 DEF Truncate
<1>3. CASE Bytes(t) > MaxMessage
  <2>1. PICK j \in 0..(Len(t) - 1), r \in 0..3 :
          /\ EndsAt(t, MaxMessage, j)
          /\ Truncate(t) = Cut(Prefix(t, j), r)
    BY <1>3, CutShape
  <2>2. j \in 0..Len(t) /\ j < Len(t) /\ j + 1 \in 0..Len(t) /\ r \in Nat
    OBVIOUS
  <2> DEFINE c == Truncate(t)  p == Prefix(t, j)
  <2>3. /\ p \in Seq(Chars) /\ Len(p) = j /\ c = Cut(p, r)
        /\ \A i \in 1..j : p[i] = t[i]
    BY <2>1, <2>2, Parts
  <2> HIDE DEF p
  <2>4. /\ c \in Seq(Chars) /\ Len(c) = j + r + 3
        /\ \A i \in 1..j : c[i] = t[i]
    <3>1. /\ Cut(p, r) \in Seq(Chars) /\ Len(Cut(p, r)) = Len(p) + r + 3
          /\ \A i \in 1..Len(p) : Cut(p, r)[i] = p[i]
          /\ Cut(p, r)[Len(p) + r + 3] = "dot"
      BY <2>2, <2>3, CutParts
    <3> QED
      BY <2>3, <3>1
  <2> HIDE DEF c
  <2>5. Bytes(m) <= MaxMessage => c = m
    <3> SUFFICES ASSUME Bytes(m) <= MaxMessage PROVE FALSE
      OBVIOUS
    <3>1. t = m /\ Bytes(m) \in Nat
      BY BytesFinite DEF Carries
    <3> QED
      BY <1>1, <1>3, <3>1
  <2>6. ASSUME NEW k \in 0..Len(m), Bytes(Prefix(m, k)) <= MaxMessage
        PROVE  k <= Len(c) /\ Prefix(c, k) = Prefix(m, k)
    <3>1. k \in Nat /\ k <= Len(t) /\ Prefix(t, k) = Prefix(m, k)
      BY <2>6 DEF Carries
    <3>2. k <= j
      <4> SUFFICES ASSUME k > j PROVE FALSE
        BY <2>2, <3>1
      <4>1. k \in (j + 1)..Len(t)
        BY <2>2, <3>1
      <4>2. Bytes(Prefix(t, j + 1)) <= Bytes(Prefix(t, k)) /\ Bytes(Prefix(t, j + 1)) \in Nat
        BY <2>2, <4>1, PrefixBytes
      <4>3. Bytes(Prefix(t, k)) \in Nat
        BY <3>1, PrefixBytes
      <4>4. Bytes(Prefix(t, j + 1)) > MaxMessage
        BY <2>1, <2>2 DEF EndsAt
      <4> QED
        BY <1>1, <2>6, <3>1, <4>2, <4>3, <4>4
    <3>3. k <= Len(c)
      BY <2>2, <2>4, <3>1, <3>2
    <3>4. \A i \in 1..k : c[i] = t[i]
      BY <2>2, <2>4, <3>1, <3>2
    <3>5. Prefix(c, k) = Prefix(t, k)
      BY <2>4, <3>1, <3>3, <3>4, SamePrefix
    <3> QED
      BY <3>1, <3>3, <3>5
  <2> QED
    BY <2>5, <2>6 DEF Carries, c
<1> QED
  BY <1>2, <1>3

\* A text that was cut where less than a "bad" is missing is not changed by a cut.
LEMMA CutAgain ==
  ASSUME NEW p \in Seq(Chars), NEW r \in 0..2, Bytes(p) + r = MaxMessage
  PROVE  Truncate(Cut(p, r)) = Cut(p, r)
<1> DEFINE u == Bads(r) \o Dots
<1>1. Bytes(p) \in Nat /\ MaxMessage \in Nat /\ r \in Nat
  BY BytesFinite, BoundsAssumption
<1>2. /\ u \in Seq(Chars) /\ Len(u) = r + 3 /\ u[1] = IF r > 0 THEN "bad" ELSE "dot"
      /\ Cut(p, r) = p \o u
  BY <1>1, CutParts
<1> HIDE DEF u
<1>3. Len(u) > 0 /\ Bytes(p) <= MaxMessage /\ MaxMessage - Bytes(p) = r
  BY <1>1, <1>2
<1>4. Bytes(p) + Width[u[1]] > MaxMessage
  BY <1>1, <1>2, Widths
<1>5. Truncate(p \o u) = Cut(p, MaxMessage - Bytes(p))
  BY <1>2, <1>3, <1>4, CutBetween
<1> QED
  BY <1>2, <1>3, <1>5

\* The second cut is the last one that changes a text.
LEMMA TruncateSettles ==
  ASSUME NEW t \in Seq(Chars)
  PROVE  Truncate(Truncate(Truncate(t))) = Truncate(Truncate(t))
<1>1. CASE ~ (Bytes(t) > MaxMessage)
  BY <1>1 DEF Truncate
<1>2. CASE Bytes(t) > MaxMessage
  <2>1. PICK k \in 0..(Len(t) - 1), r \in 0..3 :
          /\ Bytes(Prefix(t, k)) + r = MaxMessage
          /\ Truncate(t) = Cut(Prefix(t, k), r)
    BY <1>2, CutShape
  <2> DEFINE p == Prefix(t, k)
  <2>2. p \in Seq(Chars)
    <3>1. k \in 0..Len(t)
      OBVIOUS
    <3> QED
      BY <3>1, Parts
  <2> HIDE DEF p
  <2>3. Bytes(p) + r = MaxMessage /\ Truncate(t) = Cut(p, r)
    BY <2>1 DEF p
  <2>4. Bytes(p) \in Nat /\ MaxMessage \in Nat /\ r \in Nat
    BY <2>2, BytesFinite, BoundsAssumption
  <2>5. CASE r \in 0..2
    <3>1. Truncate(Truncate(t)) = Truncate(t)
      BY <2>2, <2>3, <2>5, CutAgain
    <3> QED
      BY <3>1
  <2>6. CASE r = 3
    \* A first "bad" fits, and is a whole character now.
    <3> DEFINE q == p \o <<"bad">>  u == <<"bad", "bad">> \o Dots
    <3>1. /\ <<"bad">> \in Seq(Chars) /\ <<"bad", "bad">> \in Seq(Chars)
          /\ Dots \in Seq(Chars) /\ Len(Dots) = 3
      BY BytesOfCut DEF Chars
    <3>2. q \in Seq(Chars) /\ Bytes(q) = Bytes(p) + 3
      <4>1. "bad" \in Chars
        BY DEF Chars
      <4>2. Bytes(<<"bad">>) = 3
        BY <4>1, BytesSmall, Widths
      <4>3. Bytes(q) = Bytes(p) + Bytes(<<"bad">>)
        BY <2>2, <3>1, BytesConcat
      <4>4. q \in Seq(Chars)
        BY <2>2, <3>1, ConcatProperties
      <4> QED
        BY <4>2, <4>3, <4>4
    <3>3. u \in Seq(Chars) /\ Len(u) = 5 /\ u[1] = "bad"
      <4> DEFINE bb == <<"bad", "bad">>
      <4>1. Len(bb) = 2 /\ bb[1] = "bad" /\ bb \in Seq(Chars)
        BY <3>1
      <4> HIDE DEF bb
      <4>2. /\ bb \o Dots \in Seq(Chars) /\ Len(bb \o Dots) = Len(bb) + Len(Dots)
            /\ \A i \in 1..(Len(bb) + Len(Dots)) :
                 (bb \o Dots)[i] = IF i <= Len(bb) THEN bb[i] ELSE Dots[i - Len(bb)]
        BY <3>1, <4>1, ConcatProperties
      <4> QED
        BY <3>1, <4>1, <4>2 DEF bb
    <3>4. Truncate(t) = q \o u
      <4>1. Bads(3) = <<"bad">> \o <<"bad", "bad">>
        BY DEF Bads
      <4>2. Truncate(t) = (p \o (<<"bad">> \o <<"bad", "bad">>)) \o Dots
        BY <2>3, <2>6, <4>1 DEF Cut
      <4>3. p \o (<<"bad">> \o <<"bad", "bad">>) = q \o <<"bad", "bad">>
        BY <2>2, <3>1, ConcatAssociative
      <4>4. (q \o <<"bad", "bad">>) \o Dots = q \o u
        BY <3>1, <3>2, ConcatAssociative
      <4> QED
        BY <4>2, <4>3, <4>4
    <3> HIDE DEF q, u
    <3>5. Bytes(q) + 0 = MaxMessage /\ MaxMessage - Bytes(q) = 0 /\ Len(u) > 0
          /\ Bytes(q) <= MaxMessage /\ Bytes(q) + Width[u[1]] > MaxMessage
      BY <2>3, <2>4, <2>6, <3>2, <3>3, Widths
    <3>6. Truncate(q \o u) = Cut(q, MaxMessage - Bytes(q))
      BY <3>2, <3>3, <3>5, CutBetween
    <3>7. Truncate(Truncate(t)) = Cut(q, 0)
      BY <3>4, <3>5, <3>6
    <3>8. Truncate(Cut(q, 0)) = Cut(q, 0)
      BY <3>2, <3>5, CutAgain
    <3> QED
      BY <3>7, <3>8
  <2> QED
    BY <2>4, <2>5, <2>6
<1> QED
  BY <1>1, <1>2

\* A saving keeps of a row what there is to keep, and is a trip.
LEMMA SavedKeeps ==
  ASSUME NEW c, NEW l, NEW m \in Seq(Chars), NEW o \in Origins, NEW n \in Nat, NEW g \in BOOLEAN,
         Keeps(c, l, m, o, n, g)
  PROVE  Keeps(c, l, Truncate(m), o, n + 1, g)
<1>1. o.entry.message \in Seq(Chars)
  BY DEF Origins, Entries
<1>2. Carries(m, o.entry.message) => Carries(Truncate(m), o.entry.message)
  BY <1>1, TruncateCarries
<1>3. Blank(Truncate(m)) => Blank(m)
  BY TruncateBlank
<1>4. Truncate(Truncate(Truncate(m))) = Truncate(Truncate(m))
  BY TruncateSettles
<1>5. ~g /\ n + 1 > 1 => Truncate(Truncate(m)) = Truncate(m)
  BY DEF Keeps
<1> QED
  BY <1>2, <1>3, <1>4, <1>5 DEF Keeps

\* A text that is escaped once too often begins each character as it did.
LEMMA EscapedKeeps ==
  ASSUME NEW t \in Seq(Chars)
  PROVE  Escaped(t) \in Seq(Chars) /\ (Blank(Escaped(t)) => Blank(t))
<1> DEFINE cells == [k \in 1..(5 * Len(t)) |-> IF k % 5 = 1 THEN t[(k + 4) \div 5] ELSE "x"]
           I == {k \in DOMAIN cells : k % 5 = 1 \/ t[(k + 4) \div 5] = "amp"}
<1>1. Len(t) \in Nat /\ DOMAIN t = 1..Len(t) /\ \A i \in 1..Len(t) : t[i] \in Chars
  OBVIOUS
<1>2. Escaped(t) = Selected(cells, I)
  BY DEF Escaped
<1>3. \A k \in 1..(5 * Len(t)) : (k + 4) \div 5 \in 1..Len(t)
  BY <1>1
<1>4. cells \in Seq(Chars)
  <2>1. "x" \in Chars /\ 5 * Len(t) \in Nat
    BY <1>1 DEF Chars
  <2>2. \A k \in 1..(5 * Len(t)) : (IF k % 5 = 1 THEN t[(k + 4) \div 5] ELSE "x") \in Chars
    BY <1>1, <1>3, <2>1
  <2> QED
    BY <2>1, <2>2
<1>5. \A i \in 1..Len(t) : 5 * i - 4 \in I /\ cells[5 * i - 4] = t[i]
  <2> SUFFICES ASSUME NEW i \in 1..Len(t) PROVE 5 * i - 4 \in I /\ cells[5 * i - 4] = t[i]
    OBVIOUS
  <2>1. 5 * i - 4 \in 1..(5 * Len(t)) /\ (5 * i - 4) % 5 = 1 /\ ((5 * i - 4) + 4) \div 5 = i
    BY <1>1
  <2> QED
    BY <2>1
<1>6. I \in SUBSET DOMAIN cells
  OBVIOUS
<1> HIDE DEF cells, I
<1>7. /\ Selected(cells, I) \in Seq(Chars)
      /\ \A i \in I : Rank(I, i) \in DOMAIN Selected(cells, I)
                     /\ Selected(cells, I)[Rank(I, i)] = cells[i]
  BY <1>4, <1>6, SelectedElements
<1>8. ASSUME Blank(Escaped(t))
      PROVE  Blank(t)
  <2> SUFFICES ASSUME NEW i \in 1..Len(t) PROVE t[i] \in White
    BY <1>1 DEF Blank
  <2>1. \E k \in DOMAIN Selected(cells, I) : Selected(cells, I)[k] = t[i]
    BY <1>5, <1>7
  <2> QED
    BY <1>2, <1>8, <2>1 DEF Blank
<1> QED
  BY <1>2, <1>7, <1>8

-----------------------------------------------------------------------------
(* The entries the server makes. *)

\* The levels are those of the tuple.
LEMMA LevelsKnown ==
  /\ Range(Levels) = {"alert", "error", "warning", "info", "debug"}
  /\ DOMAIN Levels = 1..5 /\ \A i \in 1..5 : Levels[i] \in Range(Levels)
<1>1. /\ DOMAIN Levels = 1..5 /\ Levels[1] = "alert" /\ Levels[2] = "error" /\ Levels[3] = "warning"
      /\ Levels[4] = "info" /\ Levels[5] = "debug"
  BY DEF Levels
<1>2. 1..5 = {1, 2, 3, 4, 5}
  OBVIOUS
<1>3. Range(Levels) = {Levels[i] : i \in 1..5}
  BY <1>1 DEF Range
<1>4. {Levels[i] : i \in {1, 2, 3, 4, 5}} = {Levels[1], Levels[2], Levels[3], Levels[4], Levels[5]}
  OBVIOUS
<1> QED
  BY <1>1, <1>2, <1>3, <1>4

\* The level of a line is one of them, whatever patterns it matches.
LEMMA DetectedLevel ==
  ASSUME NEW p \in Payloads
  PROVE  detectLogLevel(p) \in Range(Levels)
<1>1. p.structured \subseteq Range(Levels) /\ p.keyword \subseteq Range(Levels)
  BY PayloadsAssumption
<1> DEFINE Known(L) == {i \in DOMAIN Levels : Levels[i] \in L}
<1>2. ASSUME NEW L, L \subseteq Range(Levels), L # {}
      PROVE  Levels[Min(Known(L))] \in Range(Levels)
  <2> DEFINE K == Known(L)
  <2>1. K \in SUBSET Nat /\ K \subseteq 1..5
    BY LevelsKnown
  <2>2. K # {}
    <3>1. PICK l \in L : l \in Range(Levels)
      BY <1>2
    <3>2. \E i \in DOMAIN Levels : Levels[i] = l
      BY <3>1 DEF Range
    <3> QED
      BY <3>2
  <2> HIDE DEF K
  <2>3. \E x \in K : \A y \in K : x <= y
    BY <2>1, <2>2, Least
  <2>4. Min(K) \in K
    BY <2>3 DEF Min
  <2> QED
    BY <2>1, <2>4, LevelsKnown DEF K
<1>3. "info" \in Range(Levels)
  BY LevelsKnown
<1>4. CASE p.structured # {}
  BY <1>1, <1>2, <1>4 DEF detectLogLevel
<1>5. CASE p.structured = {} /\ p.keyword # {}
  BY <1>1, <1>2, <1>5 DEF detectLogLevel
<1>6. CASE p.structured = {} /\ p.keyword = {}
  BY <1>3, <1>6 DEF detectLogLevel
<1> QED
  BY <1>4, <1>5, <1>6

\* What is trimmed begins and ends with the first and the last character that is not white.
LEMMA Trimmed ==
  ASSUME NEW t \in Seq(Chars), TrimSpace(t) # <<>>
  PROVE  \E a \in DOMAIN t, b \in DOMAIN t :
           /\ a <= b /\ t[a] \notin White /\ t[b] \notin White
           /\ TrimSpace(t) \in Seq(Chars) /\ Len(TrimSpace(t)) = b - a + 1
           /\ \A i \in 1..(b - a + 1) : TrimSpace(t)[i] = t[a + i - 1]
<1> DEFINE ink == {i \in DOMAIN t : t[i] \notin White}
<1>1. DOMAIN t = 1..Len(t) /\ Len(t) \in Nat /\ \A i \in 1..Len(t) : t[i] \in Chars
  OBVIOUS
<1>2. ink # {} /\ TrimSpace(t) = SubSeq(t, Min(ink), Max(ink))
  BY DEF TrimSpace
<1>3. ink \in SUBSET Nat /\ ink \in SUBSET (0..Len(t))
  BY <1>1
<1>4. \A i \in ink : i \in DOMAIN t /\ t[i] \notin White
  OBVIOUS
<1> DEFINE a == Min(ink)  b == Max(ink)
<1> HIDE DEF ink
<1>5. a \in ink /\ \A y \in ink : a <= y
  <2>1. \E x \in ink : \A y \in ink : x <= y
    BY <1>2, <1>3, Least
  <2> QED
    BY <2>1 DEF Min
<1>6. b \in ink
  <2>1. \E x \in ink : \A y \in ink : y <= x
    BY <1>1, <1>2, <1>3, Greatest
  <2>2. \E x \in ink : \A y \in ink : x >= y
    BY <1>3, <2>1
  <2> QED
    BY <2>2 DEF Max
<1>7. a \in DOMAIN t /\ b \in DOMAIN t /\ a <= b /\ t[a] \notin White /\ t[b] \notin White
  BY <1>4, <1>5, <1>6
<1>8. TrimSpace(t) = SubSeq(t, a, b)
  BY <1>2
<1> HIDE DEF a, b
<1>9. a \in Int /\ b \in Int /\ \A i \in a..b : t[i] \in Chars
  BY <1>1, <1>7
<1>10. /\ SubSeq(t, a, b) \in Seq(Chars)
       /\ Len(SubSeq(t, a, b)) = IF a <= b THEN b - a + 1 ELSE 0
       /\ \A i \in 1..(b - a + 1) : SubSeq(t, a, b)[i] = t[a + i - 1]
  BY <1>9, SubSeqProperties
<1> QED
  BY <1>7, <1>8, <1>10

\* What is stripped has the characters of the text that are no escapes, and no other ones.
LEMMA Stripped ==
  ASSUME NEW t \in Seq(Chars)
  PROVE  /\ stripANSI(t) \in Seq(Chars)
         /\ \A k \in DOMAIN stripANSI(t) : \E i \in DOMAIN t : stripANSI(t)[k] = t[i]
         /\ \A i \in DOMAIN t : t[i] # "ansi" => \E k \in DOMAIN stripANSI(t) : stripANSI(t)[k] = t[i]
<1> DEFINE I == {i \in DOMAIN t : t[i] # "ansi"}
<1>1. stripANSI(t) = Selected(t, I)
  BY DEF stripANSI
<1>2. I \in SUBSET DOMAIN t
  OBVIOUS
<1>3. \A i \in DOMAIN t : t[i] # "ansi" => i \in I
  OBVIOUS
<1> HIDE DEF I
<1>4. /\ Selected(t, I) \in Seq(Chars)
      /\ \A i \in I : Rank(I, i) \in DOMAIN Selected(t, I) /\ Selected(t, I)[Rank(I, i)] = t[i]
      /\ \A k \in DOMAIN Selected(t, I) : \E i \in I : Rank(I, i) = k /\ Selected(t, I)[k] = t[i]
  BY <1>2, SelectedElements
<1> QED
  BY <1>1, <1>2, <1>3, <1>4

\* The message of a line is blank only by escapes, and has a carriage return only from within.
LEMMA LineMessage ==
  ASSUME NEW t \in Seq(Chars), TrimSpace(t) # <<>>
  PROVE  LET m == stripANSI(TrimSpace(t))
         IN /\ m \in Seq(Chars)
            /\ Blank(m) => "ansi" \in Range(t)
            /\ "cr" \in Range(m) => ReturnInside(t)
<1> DEFINE s == TrimSpace(t)  m == stripANSI(s)
<1>1. PICK a \in DOMAIN t, b \in DOMAIN t :
        /\ a <= b /\ t[a] \notin White /\ t[b] \notin White
        /\ s \in Seq(Chars) /\ Len(s) = b - a + 1
        /\ \A i \in 1..(b - a + 1) : s[i] = t[a + i - 1]
  BY Trimmed
<1>2. DOMAIN t = 1..Len(t) /\ Len(t) \in Nat /\ DOMAIN s = 1..(b - a + 1) /\ a \in Nat /\ b \in Nat
  BY <1>1
<1> HIDE DEF s
<1>3. /\ m \in Seq(Chars)
      /\ \A k \in DOMAIN m : \E i \in DOMAIN s : m[k] = s[i]
      /\ \A i \in DOMAIN s : s[i] # "ansi" => \E k \in DOMAIN m : m[k] = s[i]
  BY <1>1, Stripped
<1> HIDE DEF m
<1>4. ASSUME Blank(m)
      PROVE  "ansi" \in Range(t)
  <2>1. 1 \in DOMAIN s /\ s[1] = t[a]
    BY <1>1, <1>2
  <2>2. t[a] = "ansi"
    <3> SUFFICES ASSUME t[a] # "ansi" PROVE FALSE
      OBVIOUS
    <3>1. PICK k \in DOMAIN m : m[k] = t[a]
      BY <1>3, <2>1
    <3> QED
      BY <1>1, <1>4, <3>1 DEF Blank
  <2> QED
    BY <2>2 DEF Range
<1>5. ASSUME "cr" \in Range(m)
      PROVE  ReturnInside(t)
  <2>1. PICK k \in DOMAIN m : m[k] = "cr"
    BY <1>5 DEF Range
  <2>2. PICK i \in DOMAIN s : s[i] = "cr"
    BY <1>3, <2>1
  <2> DEFINE n == a + i - 1
  <2>3. n \in DOMAIN t /\ t[n] = "cr" /\ a \in 1..n /\ b \in n..Len(t)
    BY <1>1, <1>2, <2>2
  <2> HIDE DEF n
  <2> QED
    BY <1>1, <2>3 DEF ReturnInside
<1> QED
  BY <1>3, <1>4, <1>5 DEF m, s

-----------------------------------------------------------------------------
(* The steps. *)

\* An entry that comes with a text from which it may have been made.
Sound(e, text) ==
  /\ e \in Entries /\ text \in Seq(Chars)
  /\ ~ Arrives(e) => ReturnInside(text)
  /\ ~e.isEvent => (Blank(e.message) => "ansi" \in Range(text))

\* The lines and the events of a step are such entries.
LEMMA LineSound ==
  ASSUME NEW c \in Containers, NEW stream \in {"stdout", "stderr"},
         NEW p \in Payloads, ~Skipped(p)
  PROVE  Sound(LogEntry(c, stream, p), p.text)
<1> DEFINE m == stripANSI(TrimSpace(p.text))
<1>1. p.text \in Seq(Chars) /\ TrimSpace(p.text) # <<>>
  BY PayloadsAssumption DEF Skipped
<1>2. m \in Seq(Chars) /\ (Blank(m) => "ansi" \in Range(p.text)) /\ ("cr" \in Range(m) => ReturnInside(p.text))
  BY <1>1, LineMessage
<1>3. detectLogLevel(p) \in Range(Levels)
  BY DetectedLevel
<1>4. LogEntry(c, stream, p) =
        [container |-> c, containerID |-> c, stream |-> stream, time |-> "written",
         message |-> m, level |-> detectLogLevel(p), isEvent |-> FALSE]
  BY DEF LogEntry
<1> HIDE DEF m
<1> QED
  BY <1>1, <1>2, <1>3, <1>4 DEF Sound, Entries, Arrives

LEMMA EventSound ==
  ASSUME NEW c \in Containers, NEW action \in Actions
  PROVE  Sound(EventEntry(c, action), <<"x">>) /\ EventEntry(c, action).isEvent
<1>1. eventActionToLevel(action) \in Range(Levels)
  <2>1. eventActionToLevel(action) \in {"error", "warning", "info", "debug"}
    BY Zenon DEF eventActionToLevel
  <2> QED
    BY <2>1, LevelsKnown
<1>2. <<"x">> \in Seq(Chars) /\ "cr" \notin Range(<<"x">>)
  BY DEF Chars, Range
<1>3. EventEntry(c, action) =
        [container |-> c, containerID |-> c, stream |-> "event", time |-> "written",
         message |-> <<"x">>, level |-> eventActionToLevel(action), isEvent |-> TRUE]
  BY DEF EventEntry
<1> QED
  BY <1>1, <1>2, <1>3 DEF Sound, Entries, Arrives

\* A row that is added shows its entry, and one that is not had a carriage return inside.
LEMMA AddStep ==
  ASSUME IInv, NEW e, NEW text, Sound(e, text), AddLogEntry(e, text)
  PROVE  IInv'
<1> DEFINE dom == Render(e)  origin == Origin(e, text)  row == Row(dom, origin, 0, FALSE)
<1>1. e \in Entries /\ text \in Seq(Chars)
  BY DEF Sound
<1>2. /\ origin \in Origins /\ origin.entry = e /\ origin.text = text
      /\ dom \in Doms
      /\ ~e.isEvent => dom.primary = e.container /\ dom.dataLevel = e.level /\ dom.content = e.message
  <2>1. <<>> \in Seq(Chars)
    OBVIOUS
  <2> QED
    BY <1>1, <2>1 DEF Origin, Origins, Entries, Doms, Render, LineRow, EventRow
<1> HIDE DEF dom, origin
<1>3. /\ row = [dom |-> dom, origin |-> origin, trips |-> 0, garbled |-> FALSE]
      /\ row \in Shown
  <2>1. row = [dom |-> dom, origin |-> origin, trips |-> 0, garbled |-> FALSE]
    BY DEF Row
  <2>2. 0 \in 0..MaxSaves
    BY BoundsAssumption
  <2> HIDE DEF row
  <2> QED
    BY <1>2, <2>1, <2>2 DEF Shown
<1>4. Carries(e.message, e.message)
  <2> DEFINE m == e.message
  <2>1. m \in Seq(Chars)
    BY <1>1 DEF Entries
  <2> HIDE DEF m
  <2>2. \A k \in 0..Len(m) : k <= Len(m)
    BY <2>1
  <2>3. Carries(m, m)
    BY <2>2 DEF Carries
  <2> QED
    BY <2>3 DEF m
<1> HIDE DEF row
<1>5. Keeps(row.dom.primary, row.dom.dataLevel, row.dom.content, row.origin, row.trips, row.garbled)
  <2>1. row.dom = dom /\ row.origin = origin /\ row.trips = 0 /\ row.garbled = FALSE
    BY <1>3
  <2>2. Keeps(dom.primary, dom.dataLevel, dom.content, origin, 0, FALSE)
    BY <1>2, <1>4 DEF Keeps, Sound
  <2> QED
    BY <2>1, <2>2
<1>6. UNCHANGED snapshots
  BY DEF AddLogEntry
<1>7. SnapshotsKeep' /\ StoredBounded'
  BY <1>6 DEF IInv, SnapshotsKeep, StoredBounded
<1>8. CASE Arrives(e)
  <2>1. rows' = Append(rows, row) /\ lost' = lost
    BY <1>8 DEF AddLogEntry, row, dom, origin
  <2>2. /\ Len(rows') = Len(rows) + 1 /\ DOMAIN rows' = 1..(Len(rows) + 1) /\ DOMAIN rows = 1..Len(rows)
        /\ Len(rows) \in Nat
        /\ rows'[Len(rows) + 1] = row /\ \A i \in DOMAIN rows : rows'[i] = rows[i]
    BY <1>3, <2>1 DEF IInv, TypeOK
  <2>3. \A i \in DOMAIN rows' : i \in DOMAIN rows \/ i = Len(rows) + 1
    BY <2>2
  <2>4. TypeOK'
    BY <1>3, <1>6, <2>1 DEF IInv, TypeOK
  <2>5. RowsKeep'
    <3>1. Len(snapshots) \in Nat /\ row.trips = 0
      BY <1>3 DEF IInv, TypeOK
    <3> QED
      BY <1>5, <1>6, <2>2, <2>3, <3>1 DEF IInv, RowsKeep
  <2> QED
    BY <1>7, <2>1, <2>4, <2>5 DEF IInv, LostOnlyByReturn
<1>9. CASE ~ Arrives(e)
  <2>1. rows' = rows /\ lost' = lost \cup {text}
    BY <1>9 DEF AddLogEntry
  <2>2. TypeOK'
    BY <1>1, <1>6, <2>1 DEF IInv, TypeOK
  <2>3. RowsKeep'
    BY <1>6, <2>1 DEF IInv, RowsKeep
  <2>4. LostOnlyByReturn'
    BY <1>9, <2>1 DEF IInv, LostOnlyByReturn, Sound
  <2> QED
    BY <1>7, <2>2, <2>3, <2>4 DEF IInv
<1> QED
  BY <1>8, <1>9

\* What is saved of a row keeps what the row shows.
LEMMA SavedRow ==
  ASSUME NEW row \in Shown, row.trips < MaxSaves,
         Keeps(row.dom.primary, row.dom.dataLevel, row.dom.content, row.origin, row.trips, row.garbled)
  PROVE  LET saved == [log |-> Store(Bind(Collect(row.dom))), origin |-> row.origin,
                       trips |-> row.trips + 1, garbled |-> row.garbled]
         IN /\ saved \in Saved /\ Bytes(saved.log.message) <= MaxMessage + 9
            /\ Keeps(saved.log.container, saved.log.level, saved.log.message, saved.origin,
                     saved.trips, saved.garbled)
<1> DEFINE dom == row.dom
           log == Store(Bind(Collect(dom)))
           saved == [log |-> log, origin |-> row.origin, trips |-> row.trips + 1, garbled |-> row.garbled]
<1>1. /\ dom \in Doms /\ row.origin \in Origins /\ row.trips \in 0..MaxSaves
      /\ row.garbled \in BOOLEAN
  BY DEF Shown
<1>2. dom.content \in Seq(Chars)
  BY <1>1 DEF Doms
<1>3. Truncate(dom.content) \in Seq(Chars) /\ Bytes(Truncate(dom.content)) <= MaxMessage + 9
  BY <1>2, TruncateType
<1>4. log = [container |-> dom.primary, containerID |-> NoContainer, stream |-> "stdout", time |-> "saved",
             message |-> Truncate(dom.content), level |-> dom.dataLevel, isEvent |-> FALSE]
  <2> DEFINE entry == Bind(Collect(dom))
  <2>1. entry = [container |-> dom.primary, containerID |-> NoContainer, stream |-> "stdout", time |-> "saved",
                 message |-> dom.content, level |-> dom.dataLevel, isEvent |-> FALSE]
    BY DEF Bind, Collect
  <2> HIDE DEF entry
  <2>2. log = [entry EXCEPT !.message = Truncate(entry.message)]
    BY DEF Store, entry
  <2> HIDE DEF log
  <2> QED
    BY <2>1, <2>2
<1>5. log \in Entries
  BY <1>1, <1>3, <1>4 DEF Entries, Doms
<1>6. row.trips + 1 \in 1..MaxSaves /\ row.trips \in Nat
  BY <1>1, BoundsAssumption
<1>7. Keeps(dom.primary, dom.dataLevel, Truncate(dom.content), row.origin, row.trips + 1, row.garbled)
  BY <1>1, <1>2, <1>6, SavedKeeps
<1> HIDE DEF log
<1>8. /\ saved.log = log /\ saved.origin = row.origin /\ saved.trips = row.trips + 1
      /\ saved.garbled = row.garbled
      /\ log.container = dom.primary /\ log.level = dom.dataLevel /\ log.message = Truncate(dom.content)
  BY <1>4
<1>9. saved \in Saved
  BY <1>1, <1>5, <1>6 DEF Saved
<1> QED
  BY <1>3, <1>7, <1>8, <1>9 DEF log

\* A saving changes no row and adds what was saved of each.
LEMMA SaveStep ==
  ASSUME IInv, SaveSnapshot
  PROVE  IInv'
<1> DEFINE save(i) == [log |-> Store(Bind(Collect(rows[i].dom))), origin |-> rows[i].origin,
                       trips |-> rows[i].trips + 1, garbled |-> rows[i].garbled]
           new == [i \in DOMAIN rows |-> save(i)]
<1>1. /\ Len(snapshots) < MaxSaves /\ snapshots' = Append(snapshots, new) /\ UNCHANGED <<rows, lost>>
  BY DEF SaveSnapshot
<1>2. /\ rows \in Seq(Shown) /\ DOMAIN rows = 1..Len(rows) /\ Len(rows) \in Nat
      /\ snapshots \in Seq(Seq(Saved)) /\ Len(snapshots) \in Nat
      /\ \A i \in DOMAIN rows : rows[i] \in Shown /\ rows[i].trips \in Nat
  <2>1. /\ rows \in Seq(Shown) /\ DOMAIN rows = 1..Len(rows) /\ Len(rows) \in Nat
        /\ snapshots \in Seq(Seq(Saved)) /\ Len(snapshots) \in Nat
        /\ \A i \in DOMAIN rows : rows[i] \in Shown
    BY DEF IInv, TypeOK
  <2>2. \A row \in Shown : row.trips \in Nat
    BY BoundsAssumption DEF Shown
  <2> QED
    BY <2>1, <2>2
<1>3. ASSUME NEW i \in DOMAIN rows
      PROVE  /\ save(i) \in Saved /\ save(i).trips <= Len(snapshots) + 1
             /\ Bytes(save(i).log.message) <= MaxMessage + 9
             /\ Keeps(save(i).log.container, save(i).log.level, save(i).log.message,
                      save(i).origin, save(i).trips, save(i).garbled)
  <2>1. /\ Keeps(rows[i].dom.primary, rows[i].dom.dataLevel, rows[i].dom.content,
                 rows[i].origin, rows[i].trips, rows[i].garbled)
        /\ rows[i].trips <= Len(snapshots)
    BY DEF IInv, RowsKeep
  <2>2. rows[i].trips < MaxSaves
    BY <1>1, <1>2, <2>1, BoundsAssumption
  <2>3. save(i).trips <= Len(snapshots) + 1
    BY <1>2, <2>1
  <2> QED
    BY <1>2, <2>1, <2>2, <2>3, SavedRow
<1> HIDE DEF save
<1>4. new \in Seq(Saved) /\ DOMAIN new = DOMAIN rows /\ \A i \in DOMAIN rows : new[i] = save(i)
  BY <1>2, <1>3
<1> HIDE DEF new
<1>5. /\ snapshots' \in Seq(Seq(Saved)) /\ Len(snapshots') = Len(snapshots) + 1
      /\ DOMAIN snapshots = 1..Len(snapshots) /\ DOMAIN snapshots' = 1..(Len(snapshots) + 1)
      /\ snapshots'[Len(snapshots) + 1] = new /\ \A n \in DOMAIN snapshots : snapshots'[n] = snapshots[n]
  BY <1>1, <1>2, <1>4
<1>6. TypeOK'
  BY <1>1, <1>2, <1>5, BoundsAssumption DEF IInv, TypeOK
<1>7. RowsKeep'
  BY <1>1, <1>2, <1>5 DEF IInv, RowsKeep
<1>8. SnapshotsKeep' /\ StoredBounded'
  <2>1. \A i \in DOMAIN new : /\ new[i].trips <= Len(snapshots) + 1
                              /\ Bytes(new[i].log.message) <= MaxMessage + 9
                              /\ Keeps(new[i].log.container, new[i].log.level, new[i].log.message,
                                       new[i].origin, new[i].trips, new[i].garbled)
    BY <1>3, <1>4
  <2>2. \A n \in DOMAIN snapshots' : n \in DOMAIN snapshots \/ n = Len(snapshots) + 1
    BY <1>2, <1>5
  <2> QED
    BY <1>5, <2>1, <2>2 DEF IInv, SnapshotsKeep, StoredBounded
<1>9. LostOnlyByReturn'
  BY <1>1 DEF IInv, LostOnlyByReturn
<1> QED
  BY <1>6, <1>7, <1>8, <1>9 DEF IInv

\* A row of a snapshot shows what the snapshot keeps, or is one whose text is garbled.
LEMMA ViewStep ==
  ASSUME IInv, NEW n \in DOMAIN snapshots, NEW found \in SUBSET DOMAIN snapshots[n],
         ViewSnapshot(n, found)
  PROVE  IInv'
<1> DEFINE s == snapshots[n]
           view(i) == ShowLog(s[i].log, i \in found)
           new(i) == Row(view(i), s[i].origin, s[i].trips,
                         s[i].garbled \/ view(i).content # s[i].log.message)
<1>1. UNCHANGED <<snapshots, lost>> /\ rows' = [i \in DOMAIN s |-> new(i)]
  BY DEF ViewSnapshot
<1>2. /\ s \in Seq(Saved) /\ DOMAIN s = 1..Len(s) /\ Len(s) \in Nat
      /\ n \in 1..Len(snapshots) /\ Len(snapshots) \in Nat
  BY DEF IInv, TypeOK
<1>3. \A i \in DOMAIN s : /\ s[i] \in Saved /\ s[i].trips <= n
                          /\ Keeps(s[i].log.container, s[i].log.level, s[i].log.message,
                                   s[i].origin, s[i].trips, s[i].garbled)
  BY <1>2 DEF IInv, SnapshotsKeep
<1> HIDE DEF s
<1>4. ASSUME NEW i \in DOMAIN s
      PROVE  /\ new(i) \in Shown /\ new(i).trips = s[i].trips
             /\ Keeps(new(i).dom.primary, new(i).dom.dataLevel, new(i).dom.content, new(i).origin,
                      new(i).trips, new(i).garbled)
  <2> DEFINE log == s[i].log
             dom == view(i)
             text == IF i \in found THEN Escaped(log.message) ELSE log.message
             garbled == s[i].garbled \/ text # log.message
  <2>1. /\ log \in Entries /\ s[i].origin \in Origins /\ s[i].trips \in 0..MaxSaves
        /\ s[i].garbled \in BOOLEAN
    BY <1>3, BoundsAssumption DEF Saved
  <2>2. log.level \in Range(Levels) /\ log.message \in Seq(Chars)
    <3> HIDE DEF log
    <3> QED
      BY <2>1 DEF Entries
  <2>3. text \in Seq(Chars) /\ (Blank(text) => Blank(log.message))
    BY <2>2, EscapedKeeps
  <2>4. dom = [dataContainer |-> NoContainer, dataLevel |-> log.level, dataStream |-> log.stream,
               dataTime |-> log.time, dataMessage |-> log.message, primary |-> log.container,
               content |-> text]
    BY <2>2 DEF ShowLog
  <2> HIDE DEF log, text
  <2>5. dom.content = text /\ dom.primary = log.container /\ dom.dataLevel = log.level
    BY <2>4
  <2>6. dom \in Doms
    <3> HIDE DEF dom
    <3> QED
      BY <2>1, <2>2, <2>3, <2>4 DEF Doms, Entries
  <2>7. new(i) = [dom |-> dom, origin |-> s[i].origin, trips |-> s[i].trips, garbled |-> garbled]
    BY <2>5 DEF Row, log
  <2>8. garbled \in BOOLEAN
    OBVIOUS
  <2>9. Keeps(log.container, log.level, log.message, s[i].origin, s[i].trips, s[i].garbled)
    BY <1>3 DEF log
  <2> HIDE DEF dom, garbled, new
  <2>10. Keeps(log.container, log.level, text, s[i].origin, s[i].trips, garbled)
    <3>1. ~garbled => ~s[i].garbled /\ text = log.message
      BY DEF garbled
    <3> QED
      BY <2>3, <2>9, <3>1 DEF Keeps
  <2>11. new(i) \in Shown
    BY <2>1, <2>6, <2>7, <2>8 DEF Shown
  <2> QED
    BY <2>5, <2>7, <2>10, <2>11
<1> HIDE DEF new
<1>5. /\ DOMAIN rows' = DOMAIN s /\ rows' \in Seq(Shown)
      /\ \A i \in DOMAIN s : rows'[i] = new(i)
  <2>1. rows' = [i \in 1..Len(s) |-> new(i)] /\ \A i \in 1..Len(s) : new(i) \in Shown
    BY <1>1, <1>2, <1>4
  <2> QED
    BY <1>2, <2>1
<1>6. TypeOK'
  BY <1>1, <1>5 DEF IInv, TypeOK
<1>7. RowsKeep'
  <2>1. \A i \in DOMAIN s : s[i].trips <= Len(snapshots)
    <3>1. \A i \in DOMAIN s : s[i].trips \in Nat
      BY <1>3, BoundsAssumption DEF Saved
    <3> QED
      BY <1>2, <1>3, <3>1
  <2> QED
    BY <1>1, <1>4, <1>5, <2>1 DEF RowsKeep
<1>8. SnapshotsKeep' /\ StoredBounded' /\ LostOnlyByReturn'
  BY <1>1 DEF IInv, SnapshotsKeep, StoredBounded, LostOnlyByReturn
<1> QED
  BY <1>6, <1>7, <1>8 DEF IInv

LEMMA InitHolds == Init => IInv
<1> SUFFICES ASSUME Init PROVE IInv
  OBVIOUS
<1>1. rows = <<>> /\ snapshots = <<>> /\ lost = {}
  BY DEF Init
<1>2. rows \in Seq(Shown) /\ DOMAIN rows = {} /\ snapshots \in Seq(Seq(Saved)) /\ DOMAIN snapshots = {}
      /\ Len(snapshots) = 0
  BY <1>1
<1>3. TypeOK
  BY <1>1, <1>2, BoundsAssumption DEF TypeOK
<1> QED
  BY <1>1, <1>2, <1>3 DEF IInv, RowsKeep, SnapshotsKeep, StoredBounded, LostOnlyByReturn

LEMMA NextHolds == IInv /\ [Next]_vars => IInv'
<1> SUFFICES ASSUME IInv, [Next]_vars PROVE IInv'
  OBVIOUS
<1>1. ASSUME NEW c \in Containers, NEW stream \in {"stdout", "stderr"}, NEW p \in Payloads,
             Line(c, stream, p)
      PROVE  IInv'
  BY <1>1, LineSound, AddStep DEF Line
<1>2. ASSUME NEW c \in Containers, NEW action \in Actions, Event(c, action)
      PROVE  IInv'
  BY <1>2, EventSound, AddStep DEF Event
<1>3. CASE SaveSnapshot
  BY <1>3, SaveStep
<1>4. ASSUME NEW n \in DOMAIN snapshots, NEW found \in SUBSET DOMAIN snapshots[n],
             ViewSnapshot(n, found)
      PROVE  IInv'
  BY <1>4, ViewStep
<1>5. CASE UNCHANGED vars
  BY <1>5 DEF vars, IInv, TypeOK, RowsKeep, SnapshotsKeep, StoredBounded, LostOnlyByReturn
<1> QED
  BY <1>1, <1>2, <1>3, <1>4, <1>5 DEF Next

\* The inductive invariant of a row, whatever it was made of and however often it was saved.
THEOREM Invariance == Spec => []IInv
  BY InitHolds, NextHolds, PTL DEF Spec

\* Rows, saved entries and lost texts are what they should be, every level one of the five.
THEOREM TypeCorrect == Spec => []TypeOK
<1>1. IInv => TypeOK
  BY DEF IInv
<1> QED
  BY <1>1, Invariance, PTL

\* A line keeps its container, its level and its text up to the limit.
THEOREM Kept == Spec => []LinesKept
<1>1. IInv => LinesKept
  BY DEF IInv, RowsKeep, Keeps, LinesKept, LineRows
<1> QED
  BY <1>1, Invariance, PTL

\* What is stored is nine bytes longer than the limit at most.
THEOREM Bounded == Spec => []StoredBounded
<1>1. IInv => StoredBounded
  BY DEF IInv
<1> QED
  BY <1>1, Invariance, PTL

\* A snapshot of a snapshot is not cut again.
THEOREM Settled == Spec => []SavingSettles
<1>1. IInv => SavingSettles
  <2> SUFFICES ASSUME IInv, NEW i \in DOMAIN rows, rows[i].trips >= 2, ~rows[i].garbled
               PROVE  Truncate(rows[i].dom.content) = rows[i].dom.content
    BY DEF SavingSettles
  <2>1. rows[i].trips \in Int
    <3>1. rows[i] \in Shown
      BY DEF IInv, TypeOK
    <3> QED
      BY <3>1, BoundsAssumption DEF Shown
  <2>2. rows[i].trips > 1
    BY <2>1
  <2> QED
    BY <2>2 DEF IInv, RowsKeep, Keeps
<1> QED
  BY <1>1, Invariance, PTL

\* A line that shows nothing was made of escape sequences.
THEOREM NotBlank == Spec => []BlankOnlyFromEscapes
<1>1. IInv => BlankOnlyFromEscapes
  BY DEF IInv, RowsKeep, Keeps, BlankOnlyFromEscapes, LineRows
<1> QED
  BY <1>1, Invariance, PTL

\* Only a carriage return inside a line loses it.
THEOREM Lost == Spec => []LostOnlyByReturn
<1>1. IInv => LostOnlyByReturn
  BY DEF IInv
<1> QED
  BY <1>1, Invariance, PTL

=============================================================================
