---------------------------- MODULE ViewerProofs ----------------------------
(***************************************************************************)
(* Proofs about Viewer, for every size of the buffer, every tail and every *)
(* set of snapshots of any length.                                         *)
(***************************************************************************)
EXTENDS Viewer, SubsequencesProofs, SequenceTheorems, TLAPS

-----------------------------------------------------------------------------
(* Sequences of rows that lose some of their elements, or get a new one.  A *)
(* row of a snapshot has no place in the order of live ones.               *)

\* Every row of a sequence in Seq(Rows) is a row.
LEMMA RowTypes ==
  ASSUME NEW s \in Seq(Rows), NEW i \in 1..Len(s)
  PROVE  /\ s[i] \in Rows /\ s[i].n \in Nat \ {0}
         /\ IsLive(s[i]) => s[i].src \in Nat
<1>1. s[i] \in Rows
  BY ElementOfSeq
<1> QED BY <1>1 DEF Rows, IsLive

\* Trimming keeps the end of a sequence.
LEMMA TrimProperties ==
  ASSUME NEW S, NEW s \in Seq(S)
  PROVE  /\ Trim(s) \in Seq(S)
         /\ Len(Trim(s)) = IF Len(s) > BufferMax THEN BufferMax ELSE Len(s)
         /\ \A i \in 1..Len(Trim(s)) : Trim(s)[i] = s[i + (Len(s) - Len(Trim(s)))]
<1> USE BufferAssumption
<1>1. Len(s) \in Nat /\ \A i \in 1..Len(s) : s[i] \in S
  BY LenProperties, ElementOfSeq
<1>2. CASE Len(s) > BufferMax
  <2> DEFINE m == Len(s) - BufferMax + 1
  <2>1. m \in Int /\ \A i \in m..Len(s) : s[i] \in S
    BY <1>1, <1>2
  <2>2. /\ SubSeq(s, m, Len(s)) \in Seq(S)
        /\ Len(SubSeq(s, m, Len(s))) = IF m <= Len(s) THEN Len(s) - m + 1 ELSE 0
        /\ \A i \in 1..(Len(s) - m + 1) : SubSeq(s, m, Len(s))[i] = s[m + i - 1]
    BY <1>1, <2>1, SubSeqProperties
  <2>3. Trim(s) = SubSeq(s, m, Len(s))
    BY <1>2 DEF Trim
  <2>4. Len(s) - m + 1 = BufferMax /\ m <= Len(s)
    BY <1>1, <1>2
  <2>5. Len(Trim(s)) = BufferMax
    BY <2>2, <2>3, <2>4
  <2>6. \A i \in 1..BufferMax : m + i - 1 = i + (Len(s) - BufferMax)
    BY <1>1
  <2> HIDE DEF m
  <2> QED BY <1>2, <2>2, <2>3, <2>4, <2>5, <2>6
<1>3. CASE ~(Len(s) > BufferMax)
  <2>1. Trim(s) = s
    BY <1>3 DEF Trim
  <2> QED BY <1>1, <1>3, <2>1
<1> QED BY <1>2, <1>3

LEMMA TrimBound ==
  ASSUME NEW S, NEW s \in Seq(S)
  PROVE  Trim(s) \in Seq(S) /\ Len(Trim(s)) \in Nat /\ Len(Trim(s)) <= BufferMax
BY TrimProperties, LenProperties, BufferAssumption

\* t is s without some elements: t goes on d places further on in s after its
\* k-th element.  It has the order of s.
Thinned(t, s, k, d) == /\ Len(t) + d = Len(s)
                       /\ \A i \in 1..Len(t) : t[i] = s[IF i <= k THEN i ELSE i + d]

LEMMA ThinnedElements ==
  ASSUME NEW S, NEW s \in Seq(S), NEW t \in Seq(S), NEW k \in Nat, NEW d \in Nat, Thinned(t, s, k, d)
  PROVE  \A i \in 1..Len(t) : \E j \in 1..Len(s) : t[i] = s[j]
<1>1. Len(t) \in Nat /\ Len(s) \in Nat
  BY LenProperties
<1> QED BY <1>1 DEF Thinned

LEMMA ThinnedIncreasing ==
  ASSUME NEW S, NEW s \in Seq(S), NEW t \in Seq(S), NEW k \in Nat, NEW d \in Nat,
         Thinned(t, s, k, d), Increasing(s)
  PROVE  Increasing(t)
<1>1. Len(t) \in Nat /\ Len(s) \in Nat
  BY LenProperties
<1>2. SUFFICES ASSUME NEW i \in 1..Len(t), NEW j \in 1..Len(t),
                      i < j, IsLive(t[i]), IsLive(t[j])
               PROVE  Earlier(t[i], t[j])
  BY DEF Increasing
<1> DEFINE at(x) == IF x <= k THEN x ELSE x + d
<1>3. at(i) \in 1..Len(s) /\ at(j) \in 1..Len(s) /\ at(i) < at(j)
  BY <1>1, <1>2 DEF Thinned
<1>4. t[i] = s[at(i)] /\ t[j] = s[at(j)]
  BY DEF Thinned
<1> HIDE DEF at
<1> QED BY <1>2, <1>3, <1>4 DEF Increasing

\* When nothing is lost inside, the sequence stays contiguous.
LEMMA ThinnedContiguous ==
  ASSUME NEW S, NEW s \in Seq(S), NEW t \in Seq(S), NEW d \in Nat, Thinned(t, s, 0, d), Contiguous(s)
  PROVE  Contiguous(t)
<1>1. Len(t) \in Nat /\ Len(s) \in Nat
  BY LenProperties
<1>2. \A i \in 1..Len(t) : t[i] = s[i + d]
  BY <1>1 DEF Thinned
<1>3. SUFFICES ASSUME NEW i \in 1..(Len(t) - 1), IsLive(t[i]), t[i].src = t[i+1].src
               PROVE  t[i+1].n = t[i].n + 1
  BY DEF Contiguous
<1>4. /\ i \in 1..Len(t) /\ i + 1 \in 1..Len(t)
      /\ i + d \in 1..(Len(s) - 1)
  BY <1>1 DEF Thinned
<1>5. t[i] = s[i + d] /\ t[i+1] = s[(i + d) + 1]
  BY <1>2, <1>4
<1> QED BY <1>3, <1>4, <1>5 DEF Contiguous

LEMMA TrimThinned ==
  ASSUME NEW S, NEW s \in Seq(S)
  PROVE  \E d \in Nat : Thinned(Trim(s), s, 0, d)
<1>1. Len(s) \in Nat /\ Len(s) - Len(Trim(s)) \in Nat
  BY TrimProperties, LenProperties, BufferAssumption
<1>2. Thinned(Trim(s), s, 0, Len(s) - Len(Trim(s)))
  BY <1>1, TrimProperties, LenProperties DEF Thinned
<1> QED BY <1>1, <1>2

\* A row later than all live ones may be appended.
LEMMA IncreasingAppend ==
  ASSUME NEW S, NEW s \in Seq(S), NEW x \in S, Increasing(s),
         \A i \in 1..Len(s) : IsLive(s[i]) => Earlier(s[i], x)
  PROVE  Increasing(Append(s, x))
BY AppendProperties, LenProperties DEF Increasing

\* A row that follows the last one may be appended.
LEMMA ContiguousAppend ==
  ASSUME NEW S, NEW s \in Seq(S), NEW x \in S, Contiguous(s),
         s # <<>> /\ IsLive(s[Len(s)]) /\ s[Len(s)].src = x.src => x.n = s[Len(s)].n + 1
  PROVE  Contiguous(Append(s, x))
<1>1. Len(s) \in Nat
  BY LenProperties
<1>2. /\ Len(Append(s, x)) = Len(s) + 1
      /\ \A i \in 1..Len(s) : Append(s, x)[i] = s[i]
      /\ Append(s, x)[Len(s) + 1] = x
  BY AppendProperties
<1>3. SUFFICES ASSUME NEW i \in 1..Len(s), IsLive(Append(s, x)[i]),
                      Append(s, x)[i].src = Append(s, x)[i+1].src
               PROVE  Append(s, x)[i+1].n = Append(s, x)[i].n + 1
  BY <1>1, <1>2 DEF Contiguous
<1>4. CASE i = Len(s)
  <2>1. s # <<>>
    BY <1>1, <1>4, EmptySeq
  <2> QED BY <1>2, <1>3, <1>4, <2>1
<1>5. CASE i # Len(s)
  <2>1. i \in 1..(Len(s) - 1) /\ i + 1 \in 1..Len(s)
    BY <1>1, <1>5
  <2> QED BY <1>2, <1>3, <2>1 DEF Contiguous
<1> QED BY <1>4, <1>5

-----------------------------------------------------------------------------
(* The invariant holds initially. *)

\* The rows of a snapshot are rows, and none of them is live.
LEMMA SnapshotRowsProperties ==
  ASSUME NEW id \in Snapshots
  PROVE  /\ SnapshotRows(id) \in Seq(Rows)
         /\ Len(SnapshotRows(id)) = LogsOf(id)
         /\ \A i \in 1..LogsOf(id) : ~IsLive(SnapshotRows(id)[i])
<1>1. LogsOf(id) \in Nat /\ id \notin Nat
  BY SnapshotsAssumption
<1>2. SnapshotRows(id) \in [1..LogsOf(id) -> Rows]
  BY <1>1 DEF SnapshotRows, Row, Rows
<1>3. SnapshotRows(id) \in Seq(Rows) /\ Len(SnapshotRows(id)) = LogsOf(id)
  BY <1>1, <1>2
<1>4. \A i \in 1..LogsOf(id) : SnapshotRows(id)[i].src = id
  BY DEF SnapshotRows, Row
<1> QED BY <1>1, <1>3, <1>4 DEF IsLive

LEMMA InitIInv == Init => IInv
<1> SUFFICES ASSUME Init PROVE IInv
  OBVIOUS
<1> USE SnapshotsAssumption, BufferAssumption, BoundAssumption
<1>1. <<>> \in Seq(Rows) /\ Len(<<>>) = 0
  BY EmptySeq
<1>2. TypeOK
  <2>1. /\ rows \in Seq(Rows) /\ pausedBuffer \in Seq(Rows)
        /\ Len(pausedBuffer) <= BufferMax
    BY <1>1 DEF Init
  <2>2. paused \in BOOLEAN /\ loading \in SUBSET Snapshots
    BY DEF Init
  <2>3. produced \in Nat /\ stream \in Nat /\ next \in Nat \ {0} /\ timers \in Nat
    BY DEF Init
  <2> QED BY <2>1, <2>2, <2>3 DEF Init, TypeOK
<1>3. Received = <<>>
  BY <1>1, ConcatEmptySeq DEF Init, Received
<1>4. Ordered /\ NoHole /\ Cursor /\ Joined
  BY <1>1, <1>3 DEF Init, Ordered, NoHole, Cursor, Joined, Increasing, Contiguous
<1>5. StatusHonest /\ SkippedHonest /\ SnapshotIntact
  BY <1>1 DEF Init, StatusHonest, SkippedHonest, SnapshotIntact
<1>6. SnapshotsFirst
  BY <1>1 DEF Init, SnapshotsFirst, LiveLast
<1> QED BY <1>2, <1>4, <1>5, <1>6 DEF IInv

-----------------------------------------------------------------------------
(* Every step keeps the types. *)

LEMMA AddTypes ==
  ASSUME rows \in Seq(Rows), NEW es \in Seq(Rows), AddLogEntries(es)
  PROVE  rows' \in Seq(Rows)
<1>1. rows \o es \in Seq(Rows)
  BY ConcatProperties
<1>2. Trim(rows \o es) \in Seq(Rows)
  BY <1>1, TrimProperties
<1> QED BY <1>2 DEF AddLogEntries

\* The row of the entry that arrives.
LEMMA ArrivingRow ==
  ASSUME TypeOK
  PROVE  Row(stream, next) \in Rows /\ IsLive(Row(stream, next))
BY DEF TypeOK, Row, Rows, IsLive

\* Showing a snapshot leaves the page paused, and a count it had already.
LEMMA Paused ==
  ASSUME paused \in BOOLEAN, skippedCount \in Nat, EnsurePaused
  PROVE  /\ paused' /\ paused' \in BOOLEAN
         /\ skippedCount' \in Nat
         /\ paused => skippedCount' = skippedCount
         /\ ~paused => skippedCount' = 0
<1>1. CASE paused
  BY <1>1 DEF EnsurePaused
<1>2. CASE ~paused
  BY <1>2 DEF EnsurePaused, Pause
<1> QED BY <1>1, <1>2

LEMMA TypeStep ==
  ASSUME TypeOK, [Next]_vars
  PROVE  TypeOK'
<1> USE SnapshotsAssumption, BufferAssumption, BoundAssumption
<1> USE DEF conn, buffer, snaps, counts, TypeOK
<1>1. <<>> \in Seq(Rows) /\ Len(<<>>) = 0
  BY EmptySeq
<1>2. CASE Message
  <2> DEFINE x == Row(stream, next)
  <2>1. x \in Rows
    BY ArrivingRow
  <2> HIDE DEF x
  <2>2. CASE paused
    <3>1. Append(pausedBuffer, x) \in Seq(Rows)
      BY <2>1, AppendProperties
    <3>2. /\ Trim(Append(pausedBuffer, x)) \in Seq(Rows)
          /\ Len(Trim(Append(pausedBuffer, x))) <= BufferMax
      BY <3>1, TrimBound
    <3>3. pausedBuffer' = Trim(Append(pausedBuffer, x)) /\ rows' = rows
      BY <1>2, <2>2 DEF Message, x
    <3>4. pausedBuffer' \in Seq(Rows) /\ Len(pausedBuffer') <= BufferMax /\ rows' \in Seq(Rows)
      BY <3>2, <3>3
    <3>5. skippedCount' \in Nat /\ next' \in Nat \ {0}
      BY <1>2, <2>2 DEF Message
    <3> QED BY <1>2, <3>4, <3>5 DEF Message
  <2>3. CASE ~paused
    <3>1. <<x>> \in Seq(Rows)
      BY <2>1
    <3>2. AddLogEntries(<<x>>) /\ UNCHANGED <<pausedBuffer, skippedCount>>
      BY <1>2, <2>3 DEF Message, x
    <3>3. rows' \in Seq(Rows)
      BY <3>1, <3>2, AddTypes
    <3> QED BY <1>2, <3>2, <3>3 DEF Message
  <2> QED BY <2>2, <2>3
<1>3. CASE TogglePause
  <2>1. CASE paused
    <3>1. rows' \in Seq(Rows)
      BY <1>3, <2>1, AddTypes DEF TogglePause
    <3>2. /\ pausedBuffer' \in Seq(Rows) /\ Len(pausedBuffer') <= BufferMax
          /\ skippedCount' \in Nat
      BY <1>1, <1>3, <2>1 DEF TogglePause
    <3>3. paused' \in BOOLEAN /\ viewed' \in Snapshots \cup {NoSnapshot}
      BY <1>3, <2>1 DEF TogglePause
    <3> QED BY <1>3, <3>1, <3>2, <3>3 DEF TogglePause
  <2>2. CASE ~paused
    <3>1. /\ UNCHANGED <<rows, pausedBuffer, viewed>> /\ skippedCount' = 0
          /\ paused' \in BOOLEAN
      BY <1>3, <2>2 DEF TogglePause, Pause
    <3> QED BY <1>3, <3>1 DEF TogglePause
  <2> QED BY <2>1, <2>2
<1>4. ASSUME NEW id \in Snapshots, SnapshotArrives(id) PROVE TypeOK'
  <2>1. rows' \in Seq(Rows)
    BY <1>4, SnapshotRowsProperties DEF SnapshotArrives
  <2>2. paused' \in BOOLEAN /\ skippedCount' \in Nat
    <3>1. EnsurePaused
      BY <1>4 DEF SnapshotArrives
    <3> QED BY <3>1, Paused
  <2>3. loading' \in SUBSET Snapshots
    BY <1>4 DEF SnapshotArrives, Answered
  <2> QED BY <1>4, <2>1, <2>2, <2>3 DEF SnapshotArrives
<1>5. ASSUME NEW id \in Snapshots, SnapshotMissing(id) PROVE TypeOK'
  <2>1. rows' \in Seq(Rows) /\ viewed' \in Snapshots \cup {NoSnapshot}
    BY <1>1, <1>5 DEF SnapshotMissing
  <2>2. paused' \in BOOLEAN /\ skippedCount' \in Nat
    <3>1. EnsurePaused
      BY <1>5 DEF SnapshotMissing
    <3> QED BY <3>1, Paused
  <2>3. loading' \in SUBSET Snapshots
    BY <1>5 DEF SnapshotMissing, Answered
  <2> QED BY <1>5, <2>1, <2>2, <2>3 DEF SnapshotMissing
<1>6. ASSUME NEW id \in Snapshots, RequestSnapshot(id) \/ SnapshotFails(id) PROVE TypeOK'
  BY <1>6 DEF RequestSnapshot, SnapshotFails, Answered, Command
<1>7. CASE Produce
  BY <1>7 DEF Produce
<1>8. CASE Open
  BY <1>8 DEF Open
<1>9. CASE StreamFails
  <2>1. eventSource' \in {"connecting", "closed"}
    BY <1>9 DEF StreamFails
  <2> QED BY <1>9, <2>1 DEF StreamFails
<1>10. CASE TimerFires
  BY <1>10 DEF TimerFires, ConnectSSE
<1>11. CASE Clear
  BY <1>1, <1>11 DEF Clear
<1>12. CASE ChangeLevels
  BY <1>1, <1>12 DEF ChangeLevels, Command, ConnectSSE
<1>13. CASE ChangeContainers
  BY <1>13 DEF ChangeContainers, Command, ConnectSSE
<1>14. CASE UNCHANGED vars
  BY <1>14 DEF vars
<1> QED BY <1>2, <1>3, <1>4, <1>5, <1>6, <1>7, <1>8, <1>9, <1>10, <1>11, <1>12, <1>13, <1>14
        DEF Next, Stream, User

-----------------------------------------------------------------------------
(* Every step keeps the status, the count and the viewed snapshot right. *)

LEMMA StatusStep ==
  ASSUME TypeOK, StatusHonest, [Next]_vars
  PROVE  StatusHonest'
<1> USE DEF conn, StatusHonest
<1>1. timers \in Nat
  BY DEF TypeOK
<1>2. CASE Open
  BY <1>2 DEF Open
<1>3. CASE StreamFails
  <2>1. eventSource' \in {"connecting", "closed"}
    BY <1>3 DEF StreamFails
  <2> QED BY <1>1, <1>3, <2>1 DEF StreamFails
<1>4. CASE TimerFires \/ ChangeLevels \/ ChangeContainers
  BY <1>4 DEF TimerFires, ChangeLevels, ChangeContainers, ConnectSSE
<1>5. CASE Produce \/ Message \/ TogglePause \/ Clear \/ UNCHANGED vars
  BY <1>5 DEF Produce, Message, TogglePause, Clear, vars
<1>6. ASSUME NEW id \in Snapshots,
             \/ RequestSnapshot(id) \/ SnapshotArrives(id)
             \/ SnapshotMissing(id) \/ SnapshotFails(id)
      PROVE  StatusHonest'
  BY <1>6 DEF RequestSnapshot, SnapshotArrives, SnapshotMissing, SnapshotFails
<1> QED BY <1>2, <1>3, <1>4, <1>5, <1>6 DEF Next, Stream, User

LEMMA CountStep ==
  ASSUME TypeOK, SkippedHonest, [Next]_vars
  PROVE  SkippedHonest'
<1> USE BufferAssumption DEF buffer, SkippedHonest
<1>1. /\ skippedCount \in Nat /\ paused \in BOOLEAN
      /\ pausedBuffer \in Seq(Rows) /\ Len(pausedBuffer) \in Nat
      /\ Len(<<>>) = 0
  BY LenProperties, EmptySeq DEF TypeOK
<1>2. CASE Message
  <2>1. CASE paused
    <3>1. /\ Append(pausedBuffer, Row(stream, next)) \in Seq(Rows)
          /\ Len(Append(pausedBuffer, Row(stream, next))) = Len(pausedBuffer) + 1
      BY <1>1, ArrivingRow, AppendProperties
    <3>2. /\ pausedBuffer' = Trim(Append(pausedBuffer, Row(stream, next)))
          /\ skippedCount' = skippedCount + 1 /\ paused' = paused
      BY <1>2, <2>1 DEF Message
    <3>3. Len(pausedBuffer') = IF Len(pausedBuffer) + 1 > BufferMax THEN BufferMax
                               ELSE Len(pausedBuffer) + 1
      BY <3>1, <3>2, TrimProperties
    <3> QED BY <1>1, <2>1, <3>2, <3>3
  <2>2. CASE ~paused
    BY <1>2, <2>2 DEF Message
  <2> QED BY <2>1, <2>2
<1>3. CASE TogglePause
  <2>1. CASE paused
    BY <1>1, <1>3, <2>1 DEF TogglePause
  <2>2. CASE ~paused
    BY <1>1, <1>3, <2>2 DEF TogglePause, Pause
  <2> QED BY <2>1, <2>2
<1>4. ASSUME NEW id \in Snapshots, SnapshotArrives(id) \/ SnapshotMissing(id)
      PROVE  SkippedHonest'
  <2>1. EnsurePaused /\ pausedBuffer' = pausedBuffer
    BY <1>4 DEF SnapshotArrives, SnapshotMissing
  <2>2. skippedCount' = skippedCount /\ paused'
    BY <1>1, <2>1, Paused
  <2> QED BY <2>1, <2>2
<1>5. ASSUME NEW id \in Snapshots, RequestSnapshot(id) \/ SnapshotFails(id)
      PROVE  SkippedHonest'
  BY <1>5 DEF RequestSnapshot, SnapshotFails
<1>6. CASE ChangeLevels
  BY <1>1, <1>6 DEF ChangeLevels
<1>7. CASE \/ Produce \/ Open \/ StreamFails \/ TimerFires \/ Clear \/ ChangeContainers
           \/ UNCHANGED vars
  BY <1>7 DEF Produce, Open, StreamFails, TimerFires, Clear, ChangeContainers, vars
<1> QED BY <1>2, <1>3, <1>4, <1>5, <1>6, <1>7 DEF Next, Stream, User

LEMMA ViewStep ==
  ASSUME TypeOK, SnapshotIntact, [Next]_vars
  PROVE  SnapshotIntact'
<1> USE DEF snaps, SnapshotIntact
<1>1. paused \in BOOLEAN /\ skippedCount \in Nat
  BY DEF TypeOK
<1>2. CASE Message
  <2>1. CASE paused
    BY <1>2, <2>1 DEF Message, SnapshotRows, Row
  <2>2. CASE ~paused
    BY <1>2, <2>2 DEF Message
  <2> QED BY <2>1, <2>2
<1>3. CASE TogglePause
  <2>1. CASE paused
    BY <1>3, <2>1 DEF TogglePause
  <2>2. CASE ~paused
    BY <1>3, <2>2 DEF TogglePause, Pause
  <2> QED BY <2>1, <2>2
<1>4. ASSUME NEW id \in Snapshots, SnapshotArrives(id) PROVE SnapshotIntact'
  <2>1. EnsurePaused /\ rows' = SnapshotRows(id) /\ viewed' = id
    BY <1>4 DEF SnapshotArrives
  <2>2. paused'
    BY <1>1, <2>1, Paused
  <2> QED BY <2>1, <2>2 DEF SnapshotRows, Row
<1>5. CASE Clear \/ ChangeLevels \/ \E id \in Snapshots : SnapshotMissing(id)
  BY <1>5 DEF Clear, ChangeLevels, SnapshotMissing
<1>6. ASSUME NEW id \in Snapshots, RequestSnapshot(id) \/ SnapshotFails(id)
      PROVE  SnapshotIntact'
  BY <1>6 DEF RequestSnapshot, SnapshotFails, SnapshotRows, Row
<1>7. CASE Produce \/ Open \/ StreamFails \/ TimerFires \/ ChangeContainers \/ UNCHANGED vars
  BY <1>7 DEF Produce, Open, StreamFails, TimerFires, ChangeContainers, vars, SnapshotRows, Row
<1> QED BY <1>2, <1>3, <1>4, <1>5, <1>6, <1>7 DEF Next, Stream, User

-----------------------------------------------------------------------------
(* Every step keeps the order of what was received. *)

\* What was received: its length and its elements.
LEMMA ReceivedProperties ==
  ASSUME NEW r \in Seq(Rows), NEW b \in Seq(Rows)
  PROVE  /\ r \o b \in Seq(Rows)
         /\ Len(r) \in Nat /\ Len(b) \in Nat
         /\ Len(r \o b) = Len(r) + Len(b)
         /\ \A i \in 1..(Len(r) + Len(b)) :
              (r \o b)[i] = IF i <= Len(r) THEN r[i] ELSE b[i - Len(r)]
BY ConcatProperties, LenProperties

\* The part of Cursor that is about each row.
Behind(s, x) == \A i \in 1..Len(s) : IsLive(s[i]) => Earlier(s[i], x)

\* The part of Cursor that is about the last row.
UpToDate(s, st, nx) == s # <<>> => LET last == s[Len(s)] IN
                                     IsLive(last) /\ last.src = st => last.n + 1 = nx

LEMMA CursorParts ==
  Cursor <=> /\ Behind(Received, Row(stream, next))
             /\ \A i \in 1..Len(pausedBuffer) : IsLive(pausedBuffer[i])
             /\ UpToDate(Received, stream, next)
BY DEF Cursor, Behind, UpToDate

\* The rows that stay are in order and behind the stream.
LEMMA ThinnedBehind ==
  ASSUME NEW s \in Seq(Rows), NEW t \in Seq(Rows), NEW k \in Nat, NEW d \in Nat, Thinned(t, s, k, d),
         NEW x, Behind(s, x)
  PROVE  Behind(t, x)
<1>1. \A i \in 1..Len(t) : \E j \in 1..Len(s) : t[i] = s[j]
  BY ThinnedElements
<1> QED BY <1>1 DEF Behind

\* The last row stays the last one.
LEMMA ThinnedUpToDate ==
  ASSUME NEW s \in Seq(Rows), NEW t \in Seq(Rows), NEW k \in Nat, NEW d \in Nat, Thinned(t, s, k, d),
         k < Len(t) \/ d = 0, NEW st, NEW nx, UpToDate(s, st, nx)
  PROVE  UpToDate(t, st, nx)
<1>1. Len(t) \in Nat /\ Len(s) \in Nat
  BY LenProperties
<1>2. CASE t = <<>>
  BY <1>2 DEF UpToDate
<1>3. CASE t # <<>>
  <2>1. Len(t) \in Nat \ {0}
    BY <1>3, EmptySeq
  <2>2. t[Len(t)] = s[Len(s)]
    BY <1>1, <2>1 DEF Thinned
  <2>3. s # <<>>
    BY <1>1, <2>1, EmptySeq DEF Thinned
  <2> QED BY <2>2, <2>3 DEF UpToDate
<1> QED BY <1>2, <1>3

\* What is left when the rows are cleared is the end of what was received.
LEMMA BufferThinned ==
  ASSUME NEW r \in Seq(Rows), NEW b \in Seq(Rows)
  PROVE  Thinned(b, r \o b, 0, Len(r))
<1>1. /\ Len(r) \in Nat /\ Len(b) \in Nat /\ Len(r \o b) = Len(r) + Len(b)
      /\ \A i \in 1..(Len(r) + Len(b)) :
           (r \o b)[i] = IF i <= Len(r) THEN r[i] ELSE b[i - Len(r)]
  BY ReceivedProperties
<1>2. SUFFICES ASSUME NEW i \in 1..Len(b) PROVE b[i] = (r \o b)[i + Len(r)]
  BY <1>1 DEF Thinned
<1>3. i + Len(r) \in 1..(Len(r) + Len(b)) /\ ~(i + Len(r) <= Len(r)) /\ (i + Len(r)) - Len(r) = i
  BY <1>1
<1> QED BY <1>1, <1>3

\* What the proofs below carry from one state to the next.
SeqInv == Ordered /\ NoHole /\ Cursor /\ Joined

LEMMA SameRows ==
  ASSUME TypeOK, SeqInv, UNCHANGED <<rows, pausedBuffer>>,
         UNCHANGED <<stream, next>> \/ Open
  PROVE  SeqInv'
<1>1. Received' = Received
  BY DEF Received
<1>2. Ordered' /\ NoHole' /\ Joined'
  BY <1>1 DEF SeqInv, Ordered, NoHole, Joined, Increasing, Contiguous, IsLive, Earlier
<1>3. Cursor'
  <2>1. CASE UNCHANGED <<stream, next>>
    BY <1>1, <2>1 DEF SeqInv, Cursor, IsLive, Earlier, Row
  <2>2. CASE Open
    <3>1. stream' = stream + 1 /\ stream \in Nat
      BY <2>2 DEF Open, TypeOK
    <3>2. Received \in Seq(Rows)
      BY ReceivedProperties DEF TypeOK, Received
    <3>3. ASSUME NEW i \in 1..Len(Received), IsLive(Received[i])
          PROVE  Received[i].src \in Nat /\ Received[i].src < stream'
      <4>1. Received[i].src \in Nat
        BY <3>3 DEF IsLive
      <4>2. Received[i].src <= stream
        BY <3>1, <3>3, <4>1 DEF SeqInv, Cursor, Earlier, Row
      <4> QED BY <3>1, <4>1, <4>2
    <3>4. ASSUME NEW i \in 1..Len(Received), IsLive(Received[i])
          PROVE  Earlier(Received[i], Row(stream', next'))
      BY <3>3, <3>4 DEF Earlier, Row
    <3>5. Behind(Received, Row(stream', next'))
      BY <3>4 DEF Behind
    <3>6. UpToDate(Received, stream', next')
      <4>1. SUFFICES ASSUME Received # <<>>, IsLive(Received[Len(Received)]),
                            Received[Len(Received)].src = stream'
                     PROVE  FALSE
        BY DEF UpToDate
      <4>2. Len(Received) \in 1..Len(Received)
        BY <3>2, <4>1, EmptySeq
      <4> QED BY <3>1, <3>3, <4>1, <4>2
    <3>7. \A i \in 1..Len(pausedBuffer) : IsLive(pausedBuffer[i])
      BY DEF SeqInv, Cursor
    <3> QED BY <1>1, <3>5, <3>6, <3>7 DEF Cursor, Behind, UpToDate, IsLive, Row
  <2> QED BY <2>1, <2>2
<1> QED BY <1>2, <1>3 DEF SeqInv

\* The rows are cleared, the buffer is not.
LEMMA ClearedRows ==
  ASSUME TypeOK, SeqInv, rows' = <<>>, UNCHANGED <<pausedBuffer, stream, next>>
  PROVE  SeqInv'
<1>1. rows \in Seq(Rows) /\ pausedBuffer \in Seq(Rows) /\ Received \in Seq(Rows)
  BY ReceivedProperties DEF TypeOK, Received
<1>2. Received' = pausedBuffer
  BY <1>1, ConcatEmptySeq DEF Received
<1>3. Thinned(pausedBuffer, Received, 0, Len(rows)) /\ Len(rows) \in Nat /\ Len(pausedBuffer) \in Nat
  BY <1>1, BufferThinned, LenProperties DEF Received
<1>4. Increasing(pausedBuffer) /\ Contiguous(pausedBuffer)
  BY <1>1, <1>3, ThinnedIncreasing DEF SeqInv, Ordered, NoHole
<1>5. Behind(pausedBuffer, Row(stream, next))
  BY <1>1, <1>3, ThinnedBehind, CursorParts DEF SeqInv
<1>6. UpToDate(pausedBuffer, stream, next)
  <2>1. CASE pausedBuffer = <<>>
    BY <2>1 DEF UpToDate
  <2>2. CASE pausedBuffer # <<>>
    <3>1. 0 < Len(pausedBuffer)
      BY <1>1, <2>2, EmptySeq
    <3> QED BY <1>1, <1>3, <3>1, ThinnedUpToDate, CursorParts DEF SeqInv
  <2> QED BY <2>1, <2>2
<1>7. Ordered' /\ NoHole' /\ Joined'
  BY <1>2, <1>4, EmptySeq
     DEF Ordered, NoHole, Joined, Increasing, Contiguous, IsLive, Earlier
<1>8. Cursor'
  <2>1. \A i \in 1..Len(pausedBuffer) : IsLive(pausedBuffer[i])
    BY DEF SeqInv, Cursor
  <2> QED BY <1>2, <1>5, <1>6, <2>1 DEF Cursor, Behind, UpToDate, IsLive, Earlier, Row
<1> QED BY <1>7, <1>8 DEF SeqInv

\* Both are cleared.
LEMMA ClearedAll ==
  ASSUME rows' = <<>>, pausedBuffer' = <<>>
  PROVE  SeqInv'
<1>1. Received' = <<>> /\ Len(<<>>) = 0
  BY EmptySeq, ConcatEmptySeq DEF Received
<1> QED BY <1>1 DEF SeqInv, Ordered, NoHole, Cursor, Joined, Increasing, Contiguous

\* The rows become those of a snapshot: none of them is live.
LEMMA ShownSnapshot ==
  ASSUME TypeOK, SeqInv, NEW id \in Snapshots, rows' = SnapshotRows(id),
         UNCHANGED <<pausedBuffer, stream, next>>
  PROVE  SeqInv'
<1> DEFINE r == SnapshotRows(id)
           b == pausedBuffer
           s == r \o b
<1>1. rows \in Seq(Rows) /\ b \in Seq(Rows) /\ r \in Seq(Rows)
  BY SnapshotRowsProperties DEF TypeOK
<1>2. Received' = s /\ rows' = r
  BY DEF Received
<1>3. \A i \in 1..Len(r) : ~IsLive(r[i])
  BY SnapshotRowsProperties
<1>4. /\ s \in Seq(Rows) /\ Len(r) \in Nat /\ Len(b) \in Nat /\ Len(s) = Len(r) + Len(b)
      /\ \A i \in 1..(Len(r) + Len(b)) : s[i] = IF i <= Len(r) THEN r[i] ELSE b[i - Len(r)]
  BY <1>1, ReceivedProperties
<1> HIDE DEF r, s
<1>5. ASSUME NEW i \in 1..Len(s), IsLive(s[i])
      PROVE  i - Len(r) \in 1..Len(b) /\ s[i] = b[i - Len(r)]
  BY <1>3, <1>4, <1>5
<1>6. Thinned(b, Received, 0, Len(rows)) /\ Len(rows) \in Nat /\ Received \in Seq(Rows)
  BY <1>1, BufferThinned, LenProperties, ReceivedProperties DEF Received
<1>7. Increasing(b) /\ Contiguous(b) /\ Behind(b, Row(stream, next))
  BY <1>1, <1>6, ThinnedIncreasing, ThinnedBehind, CursorParts DEF SeqInv, Ordered, NoHole
<1>8. Increasing(s)
  <2>1. SUFFICES ASSUME NEW i \in 1..Len(s), NEW j \in 1..Len(s), i < j, IsLive(s[i]), IsLive(s[j])
                 PROVE  Earlier(s[i], s[j])
    BY DEF Increasing
  <2>2. /\ i - Len(r) \in 1..Len(b) /\ s[i] = b[i - Len(r)]
        /\ j - Len(r) \in 1..Len(b) /\ s[j] = b[j - Len(r)]
    BY <1>5, <2>1
  <2>3. i - Len(r) < j - Len(r)
    BY <1>4, <2>1
  <2> QED BY <1>7, <2>1, <2>2, <2>3 DEF Increasing
<1>9. Contiguous(r) /\ Contiguous(s)
  <2>1. Contiguous(r)
    BY <1>3, <1>4 DEF Contiguous
  <2>2. ASSUME NEW i \in 1..(Len(s) - 1), IsLive(s[i]), s[i].src = s[i+1].src
        PROVE  s[i+1].n = s[i].n + 1
    <3>1. i \in 1..Len(s) /\ i + 1 \in 1..Len(s)
      BY <1>4
    <3>2. i - Len(r) \in 1..Len(b) /\ s[i] = b[i - Len(r)]
      BY <1>5, <2>2, <3>1
    <3>3. i - Len(r) \in 1..(Len(b) - 1) /\ s[i+1] = b[(i - Len(r)) + 1]
      BY <1>4, <3>1, <3>2
    <3> QED BY <1>7, <2>2, <3>2, <3>3 DEF Contiguous
  <2> QED BY <2>1, <2>2 DEF Contiguous
<1>10. Behind(s, Row(stream, next))
  BY <1>5, <1>7 DEF Behind
<1>11. UpToDate(s, stream, next)
  <2>1. SUFFICES ASSUME s # <<>>, IsLive(s[Len(s)])
                 PROVE  s[Len(s)].src = stream => s[Len(s)].n + 1 = next
    BY DEF UpToDate
  <2>2. Len(s) \in 1..Len(s)
    BY <1>4, <2>1, EmptySeq
  <2>3. Len(b) \in 1..Len(b) /\ s[Len(s)] = b[Len(b)]
    BY <1>4, <1>5, <2>1, <2>2
  <2>4. UpToDate(b, stream, next)
    BY <1>1, <1>6, <2>3, ThinnedUpToDate, CursorParts DEF SeqInv
  <2>5. b # <<>>
    BY <2>3, EmptySeq
  <2> QED BY <2>1, <2>3, <2>4, <2>5 DEF UpToDate
<1>12. Ordered' /\ NoHole' /\ Joined'
  BY <1>2, <1>7, <1>8, <1>9
     DEF Ordered, NoHole, Joined, Increasing, Contiguous, IsLive, Earlier
<1>13. Cursor'
  <2>1. \A i \in 1..Len(b) : IsLive(b[i])
    BY DEF SeqInv, Cursor
  <2> QED BY <1>2, <1>10, <1>11, <2>1 DEF Cursor, Behind, UpToDate, IsLive, Earlier, Row
<1> QED BY <1>12, <1>13 DEF SeqInv

\* A row after which the stream is at nx, appended to what was received.
LEMMA AppendedRow ==
  ASSUME TypeOK, SeqInv
  PROVE  LET x == Row(stream, next)
             a == Append(Received, x) IN
         /\ Increasing(a)
         /\ Behind(a, Row(stream, next + 1))
         /\ UpToDate(a, stream, next + 1)
         /\ Contiguous(Received) => Contiguous(a)
<1> DEFINE x == Row(stream, next)
           a == Append(Received, x)
<1>1. /\ Received \in Seq(Rows) /\ Len(Received) \in Nat /\ stream \in Nat /\ next \in Nat
      /\ x \in Rows
  BY ReceivedProperties, LenProperties, ArrivingRow DEF TypeOK, Received
<1>2. x.src = stream /\ x.n = next
  BY DEF Row
<1>3. Behind(Received, x) /\ UpToDate(Received, stream, next)
  BY CursorParts DEF SeqInv
<1> HIDE DEF x
<1>4. /\ Len(a) = Len(Received) + 1
      /\ \A i \in 1..Len(Received) : a[i] = Received[i]
      /\ a[Len(Received) + 1] = x
  BY <1>1, AppendProperties
<1>5. Increasing(a)
  BY <1>1, <1>3, IncreasingAppend DEF SeqInv, Ordered, Behind
<1>6. Behind(a, Row(stream, next + 1))
  <2>1. SUFFICES ASSUME NEW i \in 1..Len(a), IsLive(a[i])
                 PROVE  Earlier(a[i], Row(stream, next + 1))
    BY DEF Behind
  <2>2. CASE i = Len(Received) + 1
    BY <1>1, <1>2, <1>4, <2>2 DEF Earlier, Row
  <2>3. CASE i # Len(Received) + 1
    <3>1. i \in 1..Len(Received) /\ a[i] = Received[i]
      BY <1>1, <1>4, <2>3
    <3>2. Earlier(Received[i], x) /\ Received[i].n \in Nat
      BY <1>1, <1>3, <2>1, <3>1, RowTypes DEF Behind
    <3> QED BY <1>1, <1>2, <3>1, <3>2 DEF Earlier, Row
  <2> QED BY <2>2, <2>3
<1>7. UpToDate(a, stream, next + 1)
  BY <1>2, <1>4 DEF UpToDate
<1>8. ASSUME Contiguous(Received) PROVE Contiguous(a)
  <2>1. Received # <<>> /\ IsLive(Received[Len(Received)]) /\ Received[Len(Received)].src = x.src
          => x.n = Received[Len(Received)].n + 1
    BY <1>2, <1>3 DEF UpToDate
  <2> QED BY <1>1, <1>8, <2>1, ContiguousAppend
<1> HIDE DEF a
<1> QED BY <1>5, <1>6, <1>7, <1>8 DEF a, x

\* The page is not paused: the buffer is empty and the row joins the rows.
LEMMA MessageShown ==
  ASSUME TypeOK, SeqInv, SkippedHonest, Message, ~paused
  PROVE  SeqInv'
<1> DEFINE x == Row(stream, next)
           a == Append(Received, x)
<1>1. /\ rows \in Seq(Rows) /\ pausedBuffer \in Seq(Rows) /\ x \in Rows
      /\ Len(pausedBuffer) \in Nat
  BY ArrivingRow, LenProperties DEF TypeOK
<1>2. pausedBuffer = <<>>
  BY <1>1, EmptySeq, BufferAssumption DEF SkippedHonest
<1>3. Received = rows /\ Received \in Seq(Rows)
  BY <1>1, <1>2, ConcatEmptySeq DEF Received
<1>4. /\ stream' = stream /\ next' = next + 1 /\ pausedBuffer' = <<>>
      /\ rows' = Trim(rows \o <<x>>)
  BY <1>2 DEF Message, buffer, AddLogEntries
<1>5. rows \o <<x>> = a
  BY <1>1, <1>3, AppendIsConcat
<1>6. a \in Seq(Rows) /\ Trim(a) \in Seq(Rows) /\ Len(a) \in Nat /\ Len(a) > 0
  <2>1. Len(Received) \in Nat
    BY <1>3, LenProperties
  <2>2. a \in Seq(Rows) /\ Len(a) = Len(Received) + 1
    BY <1>1, <1>3, AppendProperties
  <2>3. Trim(a) \in Seq(Rows)
    BY <2>2, TrimBound
  <2> QED BY <2>1, <2>2, <2>3
<1>7. Received' = Trim(a) /\ rows' = Trim(a)
  BY <1>4, <1>5, <1>6, ConcatEmptySeq DEF Received
<1>8. PICK d \in Nat : Thinned(Trim(a), a, 0, d)
  BY <1>6, TrimThinned
<1>9. /\ Increasing(a) /\ Contiguous(a)
      /\ Behind(a, Row(stream, next + 1)) /\ UpToDate(a, stream, next + 1)
  BY <1>3, AppendedRow DEF SeqInv, NoHole
<1> HIDE DEF a, x
<1>10. Increasing(Trim(a)) /\ Contiguous(Trim(a))
  BY <1>6, <1>8, <1>9, ThinnedIncreasing, ThinnedContiguous
<1>11. Behind(Trim(a), Row(stream, next + 1))
  BY <1>6, <1>8, <1>9, ThinnedBehind
<1>12. UpToDate(Trim(a), stream, next + 1)
  <2>1. 0 < Len(Trim(a))
    BY <1>6, TrimProperties, BufferAssumption
  <2> QED BY <1>6, <1>8, <1>9, <2>1, ThinnedUpToDate
<1>13. Ordered' /\ NoHole' /\ Joined'
  BY <1>4, <1>7, <1>10, EmptySeq
     DEF Ordered, NoHole, Joined, Increasing, Contiguous, IsLive, Earlier
<1>14. Cursor'
  BY <1>4, <1>7, <1>11, <1>12, EmptySeq
     DEF Cursor, Behind, UpToDate, IsLive, Earlier, Row
<1> QED BY <1>13, <1>14 DEF SeqInv

\* The page is paused: the row joins the buffer, which may forget its oldest one.
LEMMA MessageBuffered ==
  ASSUME TypeOK, SeqInv, Message, paused
  PROVE  SeqInv'
<1> USE BufferAssumption
<1> DEFINE x == Row(stream, next)
           b == pausedBuffer
           c == Append(b, x)
           a == Append(Received, x)
           new == rows \o Trim(c)
           d == Len(c) - Len(Trim(c))
<1>1. /\ rows \in Seq(Rows) /\ b \in Seq(Rows) /\ x \in Rows /\ IsLive(x)
      /\ Len(rows) \in Nat /\ Len(b) \in Nat /\ Len(b) <= BufferMax
  BY ArrivingRow, LenProperties DEF TypeOK
<1>2. /\ Received \in Seq(Rows) /\ Len(Received) = Len(rows) + Len(b)
      /\ \A i \in 1..(Len(rows) + Len(b)) :
           Received[i] = IF i <= Len(rows) THEN rows[i] ELSE b[i - Len(rows)]
  BY <1>1, ReceivedProperties DEF Received
<1>3. /\ stream' = stream /\ next' = next + 1 /\ rows' = rows
      /\ pausedBuffer' = Trim(c)
  BY DEF Message
<1>4. Received' = new
  BY <1>3 DEF Received
<1>5. /\ Increasing(a) /\ Behind(a, Row(stream, next + 1)) /\ UpToDate(a, stream, next + 1)
      /\ Contiguous(Received) => Contiguous(a)
  BY AppendedRow
<1>6. UpToDate(Received, stream, next) /\ x.src = stream /\ x.n = next
  BY CursorParts DEF SeqInv, Row
<1> HIDE DEF x
<1>7. /\ c \in Seq(Rows) /\ Len(c) = Len(b) + 1
      /\ \A i \in 1..Len(b) : c[i] = b[i]
      /\ c[Len(b) + 1] = x
  BY <1>1, AppendProperties
<1>8. /\ a \in Seq(Rows) /\ Len(a) = Len(Received) + 1
      /\ \A i \in 1..Len(Received) : a[i] = Received[i]
      /\ a[Len(Received) + 1] = x
  BY <1>1, <1>2, AppendProperties
<1> HIDE DEF b, c, a
<1>9. /\ Trim(c) \in Seq(Rows)
      /\ Len(Trim(c)) = IF Len(c) > BufferMax THEN BufferMax ELSE Len(c)
      /\ \A i \in 1..Len(Trim(c)) : Trim(c)[i] = c[i + d]
  BY <1>7, TrimProperties
<1>10. d \in Nat /\ Len(Trim(c)) \in Nat \ {0} /\ Len(Trim(c)) + d = Len(b) + 1
  BY <1>1, <1>7, <1>9
<1> HIDE DEF d
<1>11. /\ new \in Seq(Rows) /\ Len(new) = Len(rows) + Len(Trim(c))
       /\ \A i \in 1..(Len(rows) + Len(Trim(c))) :
            new[i] = IF i <= Len(rows) THEN rows[i] ELSE Trim(c)[i - Len(rows)]
  BY <1>1, <1>9, ReceivedProperties
<1> HIDE DEF new
<1>12. Thinned(new, a, Len(rows), d)
  <2>0. /\ Len(new) = Len(rows) + Len(Trim(c)) /\ Len(a) = Len(Received) + 1
        /\ Len(Received) = Len(rows) + Len(b) /\ Len(Trim(c)) + d = Len(b) + 1
        /\ Len(rows) \in Nat /\ Len(b) \in Nat /\ Len(Trim(c)) \in Nat /\ d \in Nat
    <3>1. Len(new) = Len(rows) + Len(Trim(c))
      BY <1>11
    <3>2. Len(a) = Len(Received) + 1
      BY <1>8
    <3>3. Len(Received) = Len(rows) + Len(b)
      BY <1>2
    <3> QED BY <1>1, <1>10, <3>1, <3>2, <3>3
  <2>1. Len(new) + d = Len(a)
    BY <2>0
  <2>2. ASSUME NEW i \in 1..Len(new) PROVE new[i] = a[IF i <= Len(rows) THEN i ELSE i + d]
    <3>1. CASE i <= Len(rows)
      <4>1. /\ i \in 1..(Len(rows) + Len(Trim(c)))
            /\ i \in 1..(Len(rows) + Len(b)) /\ i \in 1..Len(Received)
        BY <2>0, <2>2, <3>1
      <4>2. new[i] = rows[i]
        BY <1>11, <3>1, <4>1
      <4>3. a[i] = Received[i] /\ Received[i] = rows[i]
        BY <1>2, <1>8, <3>1, <4>1
      <4> QED BY <3>1, <4>2, <4>3
    <3>2. CASE ~(i <= Len(rows))
      <4> DEFINE j == i - Len(rows)
      <4>1. j \in 1..Len(Trim(c)) /\ new[i] = c[j + d]
        BY <1>1, <1>9, <1>10, <1>11, <3>2
      <4>2. CASE j + d <= Len(b)
        <5>1. j + d \in 1..Len(b) /\ i + d \in 1..Len(Received) /\ ~(i + d <= Len(rows))
              /\ (i + d) - Len(rows) = j + d
          BY <1>1, <1>2, <1>10, <4>1, <4>2, <3>2
        <5>2. c[j + d] = b[j + d] /\ a[i + d] = Received[i + d] /\ Received[i + d] = b[j + d]
          BY <1>2, <1>7, <1>8, <5>1
        <5> QED BY <3>2, <4>1, <5>2
      <4>3. CASE ~(j + d <= Len(b))
        <5>1. j \in 1..Len(Trim(c))
          BY <4>1
        <5>2. j + d = Len(b) + 1 /\ i + d = Len(Received) + 1
          BY <2>0, <2>2, <4>3, <5>1
        <5> QED BY <1>7, <1>8, <3>2, <4>1, <5>2
      <4> QED BY <4>2, <4>3
    <3> QED BY <3>1, <3>2
  <2> QED BY <2>1, <2>2 DEF Thinned
<1>13. Increasing(new) /\ Behind(new, Row(stream, next + 1))
  BY <1>1, <1>5, <1>8, <1>10, <1>11, <1>12, ThinnedIncreasing, ThinnedBehind
<1>14. UpToDate(new, stream, next + 1)
  <2>1. Len(rows) < Len(new)
    BY <1>1, <1>10, <1>11
  <2> QED BY <1>1, <1>5, <1>8, <1>10, <1>11, <1>12, <2>1, ThinnedUpToDate
<1>15. Contiguous(c)
  <2>1. ASSUME b # <<>>, IsLive(b[Len(b)]), b[Len(b)].src = x.src
        PROVE  x.n = b[Len(b)].n + 1
    <3>1. Len(b) \in Nat \ {0}
      BY <1>1, <2>1, EmptySeq DEF b
    <3>2. Len(Received) \in 1..(Len(rows) + Len(b)) /\ ~(Len(Received) <= Len(rows))
          /\ Len(Received) - Len(rows) = Len(b)
      BY <1>1, <1>2, <3>1
    <3>3. Received[Len(Received)] = b[Len(b)]
      BY <1>2, <3>2
    <3>4. Received # <<>>
      BY <3>2, EmptySeq
    <3> QED BY <1>6, <2>1, <3>3, <3>4 DEF UpToDate
  <2>2. Contiguous(b) /\ b \in Seq(Rows)
    BY <1>1 DEF SeqInv, NoHole, b
  <2> QED BY <1>1, <2>1, <2>2, ContiguousAppend DEF c
<1>16. Contiguous(Trim(c))
  <2>1. PICK e \in Nat : Thinned(Trim(c), c, 0, e)
    BY <1>7, TrimThinned
  <2> QED BY <1>7, <1>9, <1>15, <2>1, ThinnedContiguous
<1>17. Len(Trim(c)) = BufferMax \/ Contiguous(new)
  <2>1. CASE Len(b) + 1 > BufferMax
    BY <1>7, <1>9, <2>1
  <2>2. CASE ~(Len(b) + 1 > BufferMax)
    <3>1. d = 0 /\ Len(b) # BufferMax
      BY <1>1, <1>7, <1>9, <1>10, <2>2
    <3>2. Contiguous(a)
      BY <1>5, <3>1 DEF SeqInv, Joined, b
    <3>3. Thinned(new, a, 0, 0)
      BY <1>1, <1>11, <1>12, <3>1 DEF Thinned
    <3> QED BY <1>8, <1>11, <3>2, <3>3, ThinnedContiguous
  <2> QED BY <2>1, <2>2
<1>18. \A i \in 1..Len(Trim(c)) : IsLive(Trim(c)[i])
  <2>1. \A i \in 1..Len(b) : IsLive(b[i])
    BY DEF SeqInv, Cursor, b
  <2>2. \A i \in 1..Len(c) : IsLive(c[i])
    BY <1>1, <1>7, <2>1
  <2> QED BY <1>1, <1>7, <1>9, <1>10, <2>2
<1>19. Ordered' /\ NoHole' /\ Joined'
  <2>1. Contiguous(rows)
    BY DEF SeqInv, NoHole
  <2> QED BY <1>3, <1>4, <1>13, <1>16, <1>17, <2>1
          DEF Ordered, NoHole, Joined, Increasing, Contiguous, IsLive, Earlier
<1>20. Cursor'
  BY <1>3, <1>4, <1>13, <1>14, <1>18 DEF Cursor, Behind, UpToDate, IsLive, Earlier, Row
<1> QED BY <1>19, <1>20 DEF SeqInv

\* A resume: what waits in the buffer joins the rows.  A full buffer leaves no
\* room for older rows, so that what it forgot never shows as a hole.
LEMMA Resumed ==
  ASSUME TypeOK, SeqInv, AddLogEntries(pausedBuffer), pausedBuffer' = <<>>,
         UNCHANGED <<stream, next>>
  PROVE  SeqInv'
<1> USE BufferAssumption
<1>1. /\ rows \in Seq(Rows) /\ pausedBuffer \in Seq(Rows) /\ Received \in Seq(Rows)
      /\ Len(rows) \in Nat /\ Len(pausedBuffer) \in Nat /\ Len(pausedBuffer) <= BufferMax
      /\ Len(Received) = Len(rows) + Len(pausedBuffer)
  BY ReceivedProperties DEF TypeOK, Received
<1>2. CASE pausedBuffer = <<>>
  <2>1. UNCHANGED <<rows, pausedBuffer>>
    BY <1>2 DEF AddLogEntries
  <2> QED BY <2>1, SameRows
<1>3. CASE pausedBuffer # <<>>
  <2> DEFINE t == Trim(Received)
  <2>1. rows' = t /\ t \in Seq(Rows) /\ Received' = t
    <3>1. rows' = t /\ t \in Seq(Rows)
      BY <1>1, <1>3, TrimBound DEF AddLogEntries, Received
    <3> QED BY <3>1, ConcatEmptySeq DEF Received
  <2>2. PICK d \in Nat : Thinned(t, Received, 0, d)
    BY <1>1, TrimThinned
  <2>3. Len(pausedBuffer) > 0
    BY <1>1, <1>3, EmptySeq
  <2>4. Len(t) = IF Len(Received) > BufferMax THEN BufferMax ELSE Len(Received)
    BY <1>1, TrimProperties
  <2> HIDE DEF t
  <2>5. Len(t) \in Nat /\ 0 < Len(t)
    BY <1>1, <2>3, <2>4
  <2>6. Increasing(t) /\ Behind(t, Row(stream, next)) /\ UpToDate(t, stream, next)
    BY <1>1, <2>1, <2>2, <2>5, ThinnedIncreasing, ThinnedBehind, ThinnedUpToDate, CursorParts
       DEF SeqInv, Ordered
  <2>7. Contiguous(t)
    <3>1. CASE Len(pausedBuffer) = BufferMax
      <4>1. Len(t) = Len(pausedBuffer)
        BY <1>1, <2>4, <3>1
      <4>2. \A i \in 1..Len(t) : t[i] = Received[i + Len(rows)]
        <5>1. \A i \in 1..Len(t) : t[i] = Received[i + (Len(Received) - Len(t))]
          BY <1>1, TrimProperties DEF t
        <5>2. Len(Received) - Len(t) = Len(rows)
          BY <1>1, <4>1
        <5> QED BY <5>1, <5>2
      <4>3. \A i \in 1..Len(pausedBuffer) : pausedBuffer[i] = Received[i + Len(rows)]
        BY <1>1, BufferThinned DEF Thinned, Received
      <4>4. Thinned(t, pausedBuffer, 0, 0)
        BY <1>1, <4>1, <4>2, <4>3 DEF Thinned
      <4>5. Contiguous(pausedBuffer)
        BY DEF SeqInv, NoHole
      <4> QED BY <1>1, <2>1, <4>4, <4>5, ThinnedContiguous
    <3>2. CASE Len(pausedBuffer) # BufferMax
      <4>1. Contiguous(Received)
        BY <3>2 DEF SeqInv, Joined
      <4> QED BY <1>1, <2>1, <2>2, <4>1, ThinnedContiguous
    <3> QED BY <3>1, <3>2
  <2>8. Ordered' /\ NoHole' /\ Joined'
    BY <2>1, <2>6, <2>7, EmptySeq
       DEF Ordered, NoHole, Joined, Increasing, Contiguous, IsLive, Earlier
  <2>9. Cursor'
    BY <2>1, <2>6, EmptySeq DEF Cursor, Behind, UpToDate, IsLive, Earlier, Row
  <2> QED BY <2>8, <2>9 DEF SeqInv
<1> QED BY <1>2, <1>3

LEMMA SeqStep ==
  ASSUME TypeOK, SkippedHonest, SeqInv, [Next]_vars
  PROVE  SeqInv'
<1> USE DEF conn, buffer
<1>1. paused \in BOOLEAN
  BY DEF TypeOK
<1>2. CASE Message
  BY <1>1, <1>2, MessageShown, MessageBuffered
<1>3. CASE TogglePause
  <2>1. CASE paused
    BY <1>3, <2>1, Resumed DEF TogglePause
  <2>2. CASE ~paused
    BY <1>3, <2>2, SameRows DEF TogglePause
  <2> QED BY <2>1, <2>2
<1>4. CASE Clear
  BY <1>4, ClearedRows DEF Clear
<1>5. CASE ChangeLevels
  BY <1>5, ClearedAll DEF ChangeLevels
<1>6. ASSUME NEW id \in Snapshots, SnapshotArrives(id) PROVE SeqInv'
  BY <1>6, ShownSnapshot DEF SnapshotArrives
<1>7. ASSUME NEW id \in Snapshots, SnapshotMissing(id) PROVE SeqInv'
  BY <1>7, ClearedRows DEF SnapshotMissing
<1>8. ASSUME NEW id \in Snapshots, RequestSnapshot(id) \/ SnapshotFails(id) PROVE SeqInv'
  BY <1>8, SameRows DEF RequestSnapshot, SnapshotFails
<1>9. CASE Open
  BY <1>9, SameRows DEF Open
<1>10. CASE Produce \/ StreamFails \/ TimerFires \/ ChangeContainers \/ UNCHANGED vars
  BY <1>10, SameRows DEF Produce, StreamFails, TimerFires, ChangeContainers, vars
<1> QED BY <1>2, <1>3, <1>4, <1>5, <1>6, <1>7, <1>8, <1>9, <1>10 DEF Next, Stream, User

-----------------------------------------------------------------------------
(* The newest entries.  Live rows come last, so that those of a sequence    *)
(* are what follows its first rows.                                        *)

After(s, k) == SubSeq(s, k + 1, Len(s))

LEMMA AfterProperties ==
  ASSUME NEW S, NEW s \in Seq(S), NEW k \in 0..Len(s)
  PROVE  /\ After(s, k) \in Seq(S) /\ Len(After(s, k)) = Len(s) - k
         /\ \A i \in 1..(Len(s) - k) : After(s, k)[i] = s[i + k]
<1>1. Len(s) \in Nat /\ \A i \in 1..Len(s) : s[i] \in S
  BY LenProperties, ElementOfSeq
<1>2. k + 1 \in Int /\ \A i \in (k + 1)..Len(s) : s[i] \in S
  BY <1>1
<1>3. /\ After(s, k) \in Seq(S)
      /\ Len(After(s, k)) = IF k + 1 <= Len(s) THEN Len(s) - (k + 1) + 1 ELSE 0
      /\ \A i \in 1..(Len(s) - (k + 1) + 1) : After(s, k)[i] = s[(k + 1) + i - 1]
  BY <1>1, <1>2, SubSeqProperties DEF After
<1>4. Len(After(s, k)) = Len(s) - k
  BY <1>1, <1>3
<1>5. ASSUME NEW i \in 1..(Len(s) - k) PROVE After(s, k)[i] = s[i + k]
  <2>1. i \in 1..(Len(s) - (k + 1) + 1) /\ (k + 1) + i - 1 = i + k
    BY <1>1
  <2> QED BY <1>3, <2>1
<1> QED BY <1>3, <1>4, <1>5

LEMMA SelectedAfter ==
  ASSUME NEW S, NEW s \in Seq(S), NEW k \in 0..Len(s)
  PROVE  Selected(s, (k + 1)..Len(s)) = After(s, k)
<1> DEFINE I == (k + 1)..Len(s)
<1>1. Len(s) \in Nat /\ DOMAIN s = 1..Len(s)
  BY LenProperties
<1>2. I \in SUBSET DOMAIN s
  BY <1>1
<1>3. Cardinality(I) = Len(s) - k
  <2>1. k + 1 \in Int /\ Len(s) \in Int
    BY <1>1
  <2>2. Cardinality(I) = IF k + 1 > Len(s) THEN 0 ELSE Len(s) - (k + 1) + 1
    BY <2>1, FS_Interval
  <2>3. k \in Int /\ k <= Len(s)
    BY <2>1
  <2> QED BY <2>1, <2>2, <2>3
<1>4. ASSUME NEW i \in I PROVE Rank(I, i) = i - k
  <2>1. {j \in I : j <= i} = (k + 1)..i
    BY <1>1
  <2>2. Cardinality((k + 1)..i) = i - k
    BY <1>1, FS_Interval
  <2> QED BY <2>1, <2>2 DEF Rank
<1>5. \A j \in 1..(Len(s) - k) : j + k \in I /\ (j + k) - k = j
  BY <1>1
<1> HIDE DEF I
<1>6. Selected(s, I) \in Seq(S) /\ Len(Selected(s, I)) = Len(s) - k
  BY <1>2, <1>3, SelectedElements
<1>7. ASSUME NEW j \in 1..(Len(s) - k) PROVE Selected(s, I)[j] = s[j + k]
  <2>1. j + k \in I /\ Rank(I, j + k) = j
    BY <1>4, <1>5
  <2> QED BY <1>2, <2>1, SelectedElements
<1>8. /\ After(s, k) \in Seq(S) /\ Len(After(s, k)) = Len(s) - k
      /\ \A i \in 1..(Len(s) - k) : After(s, k)[i] = s[i + k]
  BY AfterProperties
<1>9. Selected(s, I) = After(s, k)
  BY <1>6, <1>7, <1>8, SeqEqual
<1> QED BY <1>9 DEF I

\* k rows of a sequence stand before its live ones, which are all the others.
Split(s, k) == \A i \in 1..Len(s) : IsLive(s[i]) <=> i > k

LEMMA LiveSplit ==
  ASSUME NEW s \in Seq(Rows), NEW k \in 0..Len(s), Split(s, k)
  PROVE  Live(s) = After(s, k) /\ LiveLast(s)
<1>1. Len(s) \in Nat /\ DOMAIN s = 1..Len(s)
  BY LenProperties
<1>2. {i \in DOMAIN s : IsLive(s[i])} = (k + 1)..Len(s)
  BY <1>1 DEF Split
<1>3. Live(s) = After(s, k)
  BY <1>2, SelectedAfter DEF Live
<1>4. LiveLast(s)
  BY <1>1 DEF Split, LiveLast
<1> QED BY <1>3, <1>4

LEMMA SplitExists ==
  ASSUME NEW s \in Seq(Rows), LiveLast(s)
  PROVE  \E k \in 0..Len(s) : Split(s, k)
<1> DEFINE L == {i \in 1..Len(s) : IsLive(s[i])}
<1>1. Len(s) \in Nat
  BY LenProperties
<1>2. CASE L = {}
  <2>1. Split(s, Len(s))
    BY <1>1, <1>2 DEF Split
  <2> QED BY <1>1, <2>1
<1>3. CASE L # {}
  <2>1. L \in SUBSET Nat
    OBVIOUS
  <2> HIDE DEF L
  <2>2. PICK x \in L : \A y \in L : x <= y
    BY <1>3, <2>1, Least
  <2>3. x \in 1..Len(s) /\ IsLive(s[x])
    BY <2>2 DEF L
  <2>4. ASSUME NEW i \in 1..Len(s) PROVE IsLive(s[i]) <=> i > x - 1
    <3>1. IsLive(s[i]) => x <= i
      BY <2>2 DEF L
    <3>2. x < i => IsLive(s[i])
      BY <2>3 DEF LiveLast
    <3> QED BY <2>3, <3>1, <3>2
  <2>5. x - 1 \in 0..Len(s)
    BY <1>1, <2>3
  <2> QED BY <2>4, <2>5 DEF Split
<1> QED BY <1>2, <1>3

\* Live entries that are added join the live rows.
LEMMA LiveConcat ==
  ASSUME NEW s \in Seq(Rows), LiveLast(s), NEW t \in Seq(Rows),
         \A i \in 1..Len(t) : IsLive(t[i])
  PROVE  /\ s \o t \in Seq(Rows) /\ LiveLast(s \o t)
         /\ Live(s) \in Seq(Rows) /\ Live(s \o t) = Live(s) \o t
<1> DEFINE u == s \o t
<1>1. Len(s) \in Nat /\ Len(t) \in Nat
  BY LenProperties
<1>2. /\ u \in Seq(Rows) /\ Len(u) = Len(s) + Len(t)
      /\ \A i \in 1..(Len(s) + Len(t)) : u[i] = IF i <= Len(s) THEN s[i] ELSE t[i - Len(s)]
  BY ConcatProperties
<1>3. PICK k \in 0..Len(s) : Split(s, k)
  BY SplitExists
<1> HIDE DEF u
<1>4. k \in 0..Len(u)
  BY <1>1, <1>2
<1>5. Split(u, k)
  <2> SUFFICES ASSUME NEW i \in 1..Len(u) PROVE IsLive(u[i]) <=> i > k
    BY DEF Split
  <2>1. CASE i <= Len(s)
    <3>1. i \in 1..Len(s) /\ u[i] = s[i]
      BY <1>1, <1>2, <2>1
    <3> QED BY <1>3, <3>1 DEF Split
  <2>2. CASE ~(i <= Len(s))
    <3>1. i - Len(s) \in 1..Len(t) /\ u[i] = t[i - Len(s)] /\ i > k
      BY <1>1, <1>2, <2>2
    <3> QED BY <3>1
  <2> QED BY <2>1, <2>2
<1>6. Live(s) = After(s, k) /\ Live(u) = After(u, k) /\ LiveLast(u)
  BY <1>2, <1>3, <1>4, <1>5, LiveSplit
<1>7. /\ After(s, k) \in Seq(Rows) /\ Len(After(s, k)) = Len(s) - k
      /\ \A i \in 1..(Len(s) - k) : After(s, k)[i] = s[i + k]
  BY AfterProperties
<1>8. /\ After(u, k) \in Seq(Rows) /\ Len(After(u, k)) = Len(u) - k
      /\ \A i \in 1..(Len(u) - k) : After(u, k)[i] = u[i + k]
  BY <1>2, <1>4, AfterProperties
<1>9. /\ After(s, k) \o t \in Seq(Rows) /\ Len(After(s, k) \o t) = (Len(s) - k) + Len(t)
      /\ \A i \in 1..((Len(s) - k) + Len(t)) :
           (After(s, k) \o t)[i] = IF i <= Len(s) - k THEN After(s, k)[i] ELSE t[i - (Len(s) - k)]
  <2> DEFINE w == After(s, k)
  <2> HIDE DEF w
  <2>1. w \in Seq(Rows) /\ Len(w) = Len(s) - k
    BY <1>7 DEF w
  <2>2. /\ w \o t \in Seq(Rows) /\ Len(w \o t) = Len(w) + Len(t)
        /\ \A i \in 1..(Len(w) + Len(t)) : (w \o t)[i] = IF i <= Len(w) THEN w[i] ELSE t[i - Len(w)]
    BY <2>1, ConcatProperties
  <2> QED BY <2>1, <2>2 DEF w
<1>10. ASSUME NEW i \in 1..(Len(u) - k) PROVE After(u, k)[i] = (After(s, k) \o t)[i]
  <2>1. /\ i \in 1..((Len(s) - k) + Len(t)) /\ i + k \in 1..(Len(s) + Len(t))
        /\ After(u, k)[i] = u[i + k]
    BY <1>1, <1>2, <1>8
  <2>2. CASE i <= Len(s) - k
    <3>1. i + k <= Len(s) /\ i \in 1..(Len(s) - k)
      BY <1>1, <2>2
    <3> QED BY <1>2, <1>7, <1>9, <2>1, <2>2, <3>1
  <2>3. CASE ~(i <= Len(s) - k)
    <3>1. ~(i + k <= Len(s)) /\ (i + k) - Len(s) = i - (Len(s) - k)
      BY <1>1, <2>3
    <3> QED BY <1>2, <1>9, <2>1, <2>3, <3>1
  <2> QED BY <2>2, <2>3
<1>11. Len(After(u, k)) = Len(After(s, k) \o t)
  BY <1>1, <1>2, <1>8, <1>9
<1>12. After(u, k) = After(s, k) \o t
  BY <1>8, <1>9, <1>10, <1>11, SeqEqual
<1> QED BY <1>2, <1>6, <1>7, <1>12 DEF u

\* The newest are what trimming leaves.
LEMMA NewestTrim ==
  ASSUME NEW S, NEW s \in Seq(S)
  PROVE  Newest(s) = Trim(s)
<1>1. Len(s) \in Nat /\ \A i \in 1..Len(s) : s[i] \in S
  BY LenProperties, ElementOfSeq
<1>2. CASE Len(s) > BufferMax
  BY <1>2 DEF Newest, Trim
<1>3. CASE ~(Len(s) > BufferMax)
  <2>1. /\ SubSeq(s, 1, Len(s)) \in Seq(S)
        /\ Len(SubSeq(s, 1, Len(s))) = IF 1 <= Len(s) THEN Len(s) - 1 + 1 ELSE 0
        /\ \A i \in 1..(Len(s) - 1 + 1) : SubSeq(s, 1, Len(s))[i] = s[1 + i - 1]
    BY <1>1, SubSeqProperties
  <2>2. /\ Len(SubSeq(s, 1, Len(s))) = Len(s)
        /\ \A i \in 1..Len(s) : SubSeq(s, 1, Len(s))[i] = s[i]
    BY <1>1, <2>1
  <2>3. SubSeq(s, 1, Len(s)) = s
    BY <2>1, <2>2, SeqEqual
  <2> QED BY <1>3, <2>3 DEF Newest, Trim
<1> QED BY <1>2, <1>3

\* Two sequences that are both long enough and end alike have the same newest.
LEMMA NewestAlike ==
  ASSUME NEW S, NEW s \in Seq(S), NEW t \in Seq(S), Len(s) >= BufferMax, Len(t) >= BufferMax,
         \A i \in 1..BufferMax : s[i + (Len(s) - BufferMax)] = t[i + (Len(t) - BufferMax)]
  PROVE  Newest(s) = Newest(t)
<1> USE BufferAssumption
<1>1. Len(s) \in Nat /\ Len(t) \in Nat
  BY LenProperties
<1>2. /\ Trim(s) \in Seq(S) /\ Len(Trim(s)) = BufferMax
      /\ \A i \in 1..BufferMax : Trim(s)[i] = s[i + (Len(s) - BufferMax)]
  <2>1. Len(Trim(s)) = BufferMax
    BY <1>1, TrimProperties
  <2> QED BY <2>1, TrimProperties
<1>3. /\ Trim(t) \in Seq(S) /\ Len(Trim(t)) = BufferMax
      /\ \A i \in 1..BufferMax : Trim(t)[i] = t[i + (Len(t) - BufferMax)]
  <2>1. Len(Trim(t)) = BufferMax
    BY <1>1, TrimProperties
  <2> QED BY <2>1, TrimProperties
<1>4. Trim(s) = Trim(t)
  BY <1>2, <1>3, SeqEqual
<1> QED BY <1>4, NewestTrim

\* Trimming the rows forgets snapshot rows, then the oldest live ones.
LEMMA LiveTrimmed ==
  ASSUME NEW s \in Seq(Rows), LiveLast(s)
  PROVE  LiveLast(Trim(s)) /\ Newest(Live(Trim(s))) = Newest(Live(s))
<1> USE BufferAssumption
<1> DEFINE t == Trim(s)  d == Len(s) - Len(t)
<1>1. Len(s) \in Nat /\ t \in Seq(Rows) /\ Len(t) \in Nat
  BY TrimProperties, LenProperties
<1>2. /\ Len(t) = IF Len(s) > BufferMax THEN BufferMax ELSE Len(s)
      /\ \A i \in 1..Len(t) : t[i] = s[i + d]
  BY TrimProperties
<1>3. PICK k \in 0..Len(s) : Split(s, k)
  BY SplitExists
<1>4. CASE ~(Len(s) > BufferMax)
  BY <1>4 DEF Trim
<1>5. CASE Len(s) > BufferMax
  <2>0. Len(t) = BufferMax /\ d = Len(s) - BufferMax /\ d \in Nat /\ d + BufferMax = Len(s)
    BY <1>1, <1>2, <1>5
  <2> HIDE DEF t, d
  <2>1. Live(s) = After(s, k)
    BY <1>3, LiveSplit
  <2>2. /\ After(s, k) \in Seq(Rows) /\ Len(After(s, k)) = Len(s) - k
        /\ \A i \in 1..(Len(s) - k) : After(s, k)[i] = s[i + k]
    BY AfterProperties
  <2>3. \A i \in 1..Len(t) : i + d \in 1..Len(s) /\ (IsLive(t[i]) <=> i + d > k)
    <3>1. \A i \in 1..Len(t) : i + d \in 1..Len(s)
      BY <1>1, <2>0
    <3> QED BY <1>2, <1>3, <3>1 DEF Split, d
  <2>4. CASE k >= d
    <3>1. k - d \in 0..Len(t) /\ Split(t, k - d)
      BY <1>1, <2>0, <2>3, <2>4 DEF Split
    <3>2. Live(t) = After(t, k - d) /\ LiveLast(t)
      BY <1>1, <3>1, LiveSplit
    <3>3. /\ After(t, k - d) \in Seq(Rows) /\ Len(After(t, k - d)) = Len(t) - (k - d)
          /\ \A i \in 1..(Len(t) - (k - d)) : After(t, k - d)[i] = t[i + (k - d)]
      BY <1>1, <3>1, AfterProperties
    <3>4. Len(t) - (k - d) = Len(s) - k
      BY <1>1, <2>0
    <3>5. ASSUME NEW i \in 1..(Len(s) - k) PROVE After(t, k - d)[i] = After(s, k)[i]
      <4>1. i + (k - d) \in 1..Len(t) /\ (i + (k - d)) + d = i + k
        BY <1>1, <2>0, <2>4
      <4>2. t[i + (k - d)] = s[i + k]
        BY <1>2, <4>1 DEF d
      <4> QED BY <2>2, <3>3, <3>4, <4>2
    <3>6. After(t, k - d) = After(s, k)
      BY <2>2, <3>3, <3>4, <3>5, SeqEqual
    <3> QED BY <2>1, <3>2, <3>6 DEF t
  <2>5. CASE ~(k >= d)
    <3>1. 0 \in 0..Len(t) /\ Split(t, 0)
      BY <1>1, <2>0, <2>3, <2>5 DEF Split
    <3>2. Live(t) = After(t, 0) /\ LiveLast(t)
      BY <1>1, <3>1, LiveSplit
    <3>3. /\ After(t, 0) \in Seq(Rows) /\ Len(After(t, 0)) = BufferMax
          /\ \A i \in 1..BufferMax : After(t, 0)[i] = t[i]
      <4>1. Len(t) - 0 = BufferMax /\ \A i \in 1..BufferMax : i + 0 = i
        BY <2>0
      <4>2. /\ After(t, 0) \in Seq(Rows) /\ Len(After(t, 0)) = Len(t) - 0
            /\ \A i \in 1..(Len(t) - 0) : After(t, 0)[i] = t[i + 0]
        BY <1>1, <3>1, AfterProperties
      <4> QED BY <4>1, <4>2
    <3>4. Len(After(s, k)) >= BufferMax /\ Len(After(t, 0)) >= BufferMax
      BY <1>1, <2>0, <2>2, <2>5, <3>3
    <3>5. ASSUME NEW i \in 1..BufferMax
          PROVE  After(t, 0)[i + (Len(After(t, 0)) - BufferMax)]
                   = After(s, k)[i + (Len(After(s, k)) - BufferMax)]
      <4>1. i + (Len(After(t, 0)) - BufferMax) = i /\ i \in 1..Len(t)
        BY <2>0, <3>3
      <4>2. After(t, 0)[i] = s[i + d]
        BY <1>2, <3>3, <4>1 DEF d
      <4> DEFINE j == i + (Len(After(s, k)) - BufferMax)
      <4>3. j \in 1..(Len(s) - k) /\ j + k = i + d
        BY <1>1, <2>0, <2>2, <2>5
      <4>4. After(s, k)[j] = s[i + d]
        BY <2>2, <4>3
      <4> QED BY <4>1, <4>2, <4>4
    <3>6. Newest(After(t, 0)) = Newest(After(s, k))
      BY <2>2, <3>3, <3>4, <3>5, NewestAlike
    <3> QED BY <2>1, <3>2, <3>6 DEF t
  <2> QED BY <1>1, <2>0, <2>4, <2>5
<1> QED BY <1>4, <1>5

\* A buffer that forgets its oldest entry had as many as count.
LEMMA BufferTrimmed ==
  ASSUME NEW a \in Seq(Rows), NEW b \in Seq(Rows)
  PROVE  Newest(a \o Trim(b)) = Newest(a \o b)
<1> USE BufferAssumption
<1> DEFINE t == Trim(b)  u == a \o t  v == a \o b
<1>1. CASE ~(Len(b) > BufferMax)
  BY <1>1 DEF Trim
<1>2. CASE Len(b) > BufferMax
  <2>1. Len(a) \in Nat /\ Len(b) \in Nat
    BY LenProperties
  <2>2. t \in Seq(Rows) /\ Len(t) = BufferMax
    BY <1>2, TrimProperties
  <2>3. \A i \in 1..BufferMax : t[i] = b[i + (Len(b) - BufferMax)]
    BY <2>2, TrimProperties
  <2> HIDE DEF t
  <2>4. /\ u \in Seq(Rows) /\ Len(u) = Len(a) + Len(t)
        /\ \A i \in 1..(Len(a) + Len(t)) : u[i] = IF i <= Len(a) THEN a[i] ELSE t[i - Len(a)]
    BY <2>2, ConcatProperties
  <2>5. /\ v \in Seq(Rows) /\ Len(v) = Len(a) + Len(b)
        /\ \A i \in 1..(Len(a) + Len(b)) : v[i] = IF i <= Len(a) THEN a[i] ELSE b[i - Len(a)]
    BY ConcatProperties
  <2> HIDE DEF u, v
  <2>6. ASSUME NEW i \in 1..BufferMax
        PROVE  u[i + (Len(u) - BufferMax)] = v[i + (Len(v) - BufferMax)]
    <3>1. /\ i + (Len(u) - BufferMax) = i + Len(a) /\ i + Len(a) \in 1..(Len(a) + Len(t))
          /\ ~(i + Len(a) <= Len(a)) /\ (i + Len(a)) - Len(a) = i
      BY <2>1, <2>2, <2>4
    <3>2. u[i + (Len(u) - BufferMax)] = t[i]
      BY <2>4, <3>1
    <3> DEFINE j == i + (Len(v) - BufferMax)
    <3>3. /\ j \in 1..(Len(a) + Len(b)) /\ ~(j <= Len(a))
          /\ j - Len(a) = i + (Len(b) - BufferMax)
      BY <1>2, <2>1, <2>5
    <3>4. v[j] = b[i + (Len(b) - BufferMax)]
      BY <2>5, <3>3
    <3> QED BY <2>3, <3>2, <3>4
  <2>7. Len(u) >= BufferMax /\ Len(v) >= BufferMax
    BY <1>2, <2>1, <2>2, <2>4, <2>5
  <2>8. Newest(u) = Newest(v)
    BY <2>4, <2>5, <2>6, <2>7, NewestAlike
  <2> QED BY <2>8 DEF t, u, v
<1> QED BY <1>1, <1>2

-----------------------------------------------------------------------------
(* No step but a wipe forgets any but the oldest of the live entries.       *)

\* Entries that are added to the rows.
LEMMA Added ==
  ASSUME rows \in Seq(Rows), SnapshotsFirst, NEW es \in Seq(Rows), AddLogEntries(es),
         \A i \in 1..Len(es) : IsLive(es[i])
  PROVE  LiveLast(rows') /\ Newest(Live(rows')) = Newest(Live(rows) \o es)
<1>1. /\ rows \o es \in Seq(Rows) /\ LiveLast(rows \o es)
      /\ Live(rows) \in Seq(Rows) /\ Live(rows \o es) = Live(rows) \o es
  BY LiveConcat DEF SnapshotsFirst
<1>2. CASE es = <<>>
  <2>1. rows' = rows /\ Live(rows) \o es = Live(rows)
    BY <1>1, <1>2, ConcatEmptySeq DEF AddLogEntries
  <2> QED BY <2>1 DEF SnapshotsFirst
<1>3. CASE es # <<>>
  <2>1. rows' = Trim(rows \o es)
    BY <1>3 DEF AddLogEntries
  <2> QED BY <1>1, <2>1, LiveTrimmed
<1> QED BY <1>2, <1>3

\* The same for every step that adds what arrives, or what was buffered, to the rows.
LEMMA Kept ==
  ASSUME TypeOK, SkippedHonest, SnapshotsFirst, Cursor, Message \/ TogglePause
  PROVE  SnapshotsFirst' /\ Newest(LiveRows') = Newest(LiveRows \o Arriving)
<1> DEFINE x == Row(stream, next)  a == Live(rows)  b == pausedBuffer
<1>1. /\ rows \in Seq(Rows) /\ b \in Seq(Rows) /\ Len(b) \in Nat
      /\ stream \in Nat /\ next \in Nat
  BY LenProperties DEF TypeOK
<1>2. x \in Rows /\ IsLive(x) /\ <<x>> \in Seq(Rows)
      /\ Len(<<x>>) = 1 /\ \A i \in 1..Len(<<x>>) : IsLive(<<x>>[i])
  BY ArrivingRow
<1> HIDE DEF x
<1>3. \A i \in 1..Len(b) : IsLive(b[i])
  BY DEF Cursor
<1>4. a \in Seq(Rows) /\ a \o b \in Seq(Rows)
  <2>1. a \in Seq(Rows)
    BY <1>1, <1>3, LiveConcat DEF SnapshotsFirst
  <2> QED BY <1>1, <2>1, ConcatProperties
<1>5. LiveRows = a \o b
  BY DEF LiveRows
<1> HIDE DEF a
<1>6. CASE Message /\ paused
  <2>1. Arriving = <<x>> /\ rows' = rows /\ pausedBuffer' = Trim(Append(b, x))
    BY <1>6 DEF Message, Arriving, x
  <2>2. LiveRows' = a \o Trim(Append(b, x))
    BY <2>1 DEF LiveRows, a, Live
  <2>3. Append(b, x) \in Seq(Rows) /\ Append(b, x) = b \o <<x>>
    BY <1>1, <1>2, AppendProperties, AppendIsConcat
  <2>4. (a \o b) \o <<x>> = a \o (b \o <<x>>)
    BY <1>1, <1>2, <1>4, ConcatAssociative
  <2>5. Newest(a \o Trim(Append(b, x))) = Newest(a \o Append(b, x))
    BY <1>4, <2>3, BufferTrimmed
  <2>6. SnapshotsFirst'
    BY <2>1 DEF SnapshotsFirst, LiveLast, IsLive
  <2> QED BY <1>5, <2>1, <2>2, <2>3, <2>4, <2>5, <2>6
<1>7. CASE Message /\ ~paused
  <2>1. Arriving = <<x>> /\ pausedBuffer' = b /\ AddLogEntries(<<x>>)
    BY <1>7 DEF Message, Arriving, x, buffer
  <2>2. b = <<>>
    <3>1. Len(b) = 0
      BY <1>7, BufferAssumption DEF SkippedHonest
    <3> QED BY <1>1, <3>1, EmptySeq
  <2>3. LiveLast(rows') /\ Newest(Live(rows')) = Newest(a \o <<x>>)
    BY <1>1, <1>2, <2>1, Added DEF a
  <2>4. rows' \in Seq(Rows)
    BY <1>1, <1>2, <2>1, AddTypes
  <2>5. Live(rows') \in Seq(Rows)
    BY <1>1, <1>3, <2>3, <2>4, LiveConcat
  <2>6. LiveRows' = Live(rows') /\ LiveRows = a
    <3>1. Live(rows') \o <<>> = Live(rows') /\ a \o <<>> = a
      BY <1>4, <2>5, ConcatEmptySeq
    <3> QED BY <1>5, <2>1, <2>2, <3>1 DEF LiveRows, Live, IsLive
  <2>7. SnapshotsFirst'
    BY <2>3 DEF SnapshotsFirst, LiveLast, IsLive
  <2> QED BY <2>1, <2>3, <2>6, <2>7
<1>8. CASE TogglePause
  <2>1. Arriving = <<>>
    BY <1>1, <1>8 DEF TogglePause, conn, Arriving
  <2>2. LiveRows \o Arriving = a \o b
    BY <1>4, <1>5, <2>1, ConcatEmptySeq
  <2>3. CASE paused
    <3>1. AddLogEntries(b) /\ pausedBuffer' = <<>>
      BY <1>8, <2>3 DEF TogglePause
    <3>2. LiveLast(rows') /\ Newest(Live(rows')) = Newest(a \o b)
      BY <1>1, <1>3, <3>1, Added DEF a
    <3>3. rows' \in Seq(Rows)
      BY <1>1, <3>1, AddTypes
    <3>4. Live(rows') \in Seq(Rows)
      BY <1>1, <1>3, <3>2, <3>3, LiveConcat
    <3>5. LiveRows' = Live(rows')
      <4>1. Live(rows') \o <<>> = Live(rows')
        BY <3>4, ConcatEmptySeq
      <4> QED BY <3>1, <4>1 DEF LiveRows, Live, IsLive
    <3>6. SnapshotsFirst'
      BY <3>2 DEF SnapshotsFirst, LiveLast, IsLive
    <3> QED BY <2>2, <3>2, <3>5, <3>6
  <2>4. CASE ~paused
    <3>1. UNCHANGED <<rows, pausedBuffer>>
      BY <1>8, <2>4 DEF TogglePause
    <3>2. LiveRows' = LiveRows /\ SnapshotsFirst'
      BY <3>1 DEF LiveRows, Live, IsLive, SnapshotsFirst, LiveLast
    <3> QED BY <1>5, <2>2, <3>2
  <2> QED BY <2>3, <2>4
<1> QED BY <1>6, <1>7, <1>8

\* Steps that leave rows and buffer alone, and with which nothing arrives.
LEMMA Still ==
  ASSUME TypeOK, SnapshotsFirst, Cursor, UNCHANGED <<rows, pausedBuffer>>,
         next' = next \/ stream' = stream + 1
  PROVE  SnapshotsFirst' /\ Newest(LiveRows') = Newest(LiveRows \o Arriving)
<1>1. Arriving = <<>>
  BY DEF Arriving, TypeOK
<1>2. /\ rows \in Seq(Rows) /\ pausedBuffer \in Seq(Rows)
      /\ \A i \in 1..Len(pausedBuffer) : IsLive(pausedBuffer[i])
  BY DEF TypeOK, Cursor
<1>3. LiveRows \in Seq(Rows)
  <2>1. Live(rows) \in Seq(Rows)
    BY <1>2, LiveConcat DEF SnapshotsFirst
  <2> QED BY <1>2, <2>1, ConcatProperties DEF LiveRows
<1>4. LiveRows \o Arriving = LiveRows
  BY <1>1, <1>3, ConcatEmptySeq
<1>5. LiveRows' = LiveRows /\ SnapshotsFirst'
  BY DEF LiveRows, Live, IsLive, SnapshotsFirst, LiveLast
<1> QED BY <1>4, <1>5

\* A wipe leaves the rows of a snapshot, or none.
LEMMA Wiped ==
  ASSUME Wipe
  PROVE  SnapshotsFirst'
<1>1. ASSUME NEW id \in Snapshots, SnapshotArrives(id) PROVE SnapshotsFirst'
  <2>1. rows' = SnapshotRows(id)
    BY <1>1 DEF SnapshotArrives
  <2> QED BY <2>1, SnapshotRowsProperties DEF SnapshotsFirst, LiveLast, IsLive
<1>2. CASE rows' = <<>>
  BY <1>2, EmptySeq DEF SnapshotsFirst, LiveLast
<1> QED BY <1>1, <1>2 DEF Wipe, Clear, ChangeLevels, SnapshotMissing

LEMMA NewestStep ==
  ASSUME TypeOK, SkippedHonest, SnapshotsFirst, Cursor, Next
  PROVE  SnapshotsFirst' /\ (Wipe \/ Newest(LiveRows') = Newest(LiveRows \o Arriving))
<1> USE DEF conn, buffer
<1>1. CASE Message \/ TogglePause
  BY <1>1, Kept
<1>2. CASE Wipe
  BY <1>2, Wiped
<1>3. ASSUME NEW id \in Snapshots, RequestSnapshot(id) \/ SnapshotFails(id)
      PROVE  SnapshotsFirst' /\ Newest(LiveRows') = Newest(LiveRows \o Arriving)
  BY <1>3, Still DEF RequestSnapshot, SnapshotFails
<1>4. CASE Open
  BY <1>4, Still DEF Open
<1>5. CASE Produce \/ StreamFails \/ TimerFires \/ ChangeContainers
  BY <1>5, Still DEF Produce, StreamFails, TimerFires, ChangeContainers
<1> QED BY <1>1, <1>2, <1>3, <1>4, <1>5 DEF Next, Stream, User, Wipe

-----------------------------------------------------------------------------
(* The theorems. *)

\* The invariant of the page holds whatever the server, the network and the user
\* do, for every LOG_BUFFER_MAX, every tail and snapshots of any length.
THEOREM Invariance == Spec => []IInv
<1>1. Init => IInv
  BY InitIInv
<1>2. IInv /\ [Next]_vars => IInv'
  <2>1. ASSUME IInv, UNCHANGED vars PROVE SnapshotsFirst'
    BY <2>1 DEF IInv, vars, SnapshotsFirst, LiveLast, IsLive
  <2> QED BY <2>1, TypeStep, StatusStep, CountStep, ViewStep, SeqStep, NewestStep DEF IInv, SeqInv
<1> QED BY <1>1, <1>2, PTL DEF Spec

\* The buffer of a paused page never outgrows LOG_BUFFER_MAX, and the state of the
\* page has its types: onmessage shifts the oldest entry out.
THEOREM TypeCorrect == Spec => []TypeOK
<1>1. IInv => TypeOK
  BY DEF IInv
<1> QED BY <1>1, Invariance, PTL

\* What was received later stands later, across reconnections, pauses and views.
THEOREM InOrder == Spec => []Ordered
<1>1. IInv => Ordered
  BY DEF IInv
<1> QED BY <1>1, Invariance, PTL

\* Pausing, forgetting and resuming never leave a gap between two rows of a stream.
THEOREM Gapless == Spec => []NoHole
<1>1. IInv => NoHole
  BY DEF IInv
<1> QED BY <1>1, Invariance, PTL

\* The rows of a viewed snapshot are exactly its logs, until the user moves on.
THEOREM ViewExact == Spec => []SnapshotIntact
<1>1. IInv => SnapshotIntact
  BY DEF IInv
<1> QED BY <1>1, Invariance, PTL

\* The pause button counts what arrived since the pause.
THEOREM CountRight == Spec => []SkippedHonest
<1>1. IInv => SkippedHonest
  BY DEF IInv
<1> QED BY <1>1, Invariance, PTL

\* The status is that of the stream, and a given-up stream has a timer pending.
THEOREM StatusRight == Spec => []StatusHonest
<1>1. IInv => StatusHonest
  BY DEF IInv
<1> QED BY <1>1, Invariance, PTL

\* Until the rows are wiped a step forgets only the oldest of the live entries: the newest
\* LOG_BUFFER_MAX stay, whether they are shown, wait in the buffer or just arrive.
THEOREM Forgets == Spec => NewestKept
<1>1. IInv /\ [Next]_vars => [Wipe \/ Newest(LiveRows') = Newest(LiveRows \o Arriving)]_vars
  BY NewestStep DEF IInv
<1> QED BY <1>1, Invariance, PTL DEF Spec, NewestKept
=============================================================================
