---------------------------- MODULE FiltersProofs ----------------------------
(***************************************************************************)
(* The proofs about Filters: for every set of containers, levels, texts    *)
(* and snapshots, every maximum of rows and whatever a search finds, the   *)
(* page is bounded and its filters agree.  What a search finds depends on  *)
(* lastIndex, a recursive function over the rows; nothing here does.       *)
(***************************************************************************)
EXTENDS Filters, TLAPS, SequenceTheorems

-----------------------------------------------------------------------------
(* Trimming. *)

\* What is left is no longer than the maximum, and was there.
LEMMA Trimmed ==
  ASSUME NEW S, NEW s \in Seq(S)
  PROVE  /\ Trim(s) \in Seq(S) /\ Len(Trim(s)) <= BufferMax
         /\ \A i \in DOMAIN Trim(s) : \E j \in DOMAIN s : Trim(s)[i] = s[j]
<1>1. BufferMax \in Nat \ {0} /\ Len(s) \in Nat /\ DOMAIN s = 1..Len(s)
  BY BufferAssumption
<1>2. CASE ~ (Len(s) > BufferMax)
  BY <1>1, <1>2 DEF Trim
<1>3. CASE Len(s) > BufferMax
  <2> DEFINE a == Len(s) - BufferMax + 1  t == SubSeq(s, a, Len(s))
  <2>1. a \in 1..Len(s) /\ Len(s) - a + 1 = BufferMax /\ \A i \in a..Len(s) : s[i] \in S
    BY <1>1, <1>3
  <2>2. Trim(s) = t
    BY <1>3 DEF Trim
  <2> HIDE DEF a
  <2>3. t \in Seq(S) /\ Len(t) = BufferMax /\ \A i \in 1..BufferMax : t[i] = s[a + i - 1]
    BY <1>1, <2>1, SubSeqProperties
  <2>4. \A i \in 1..BufferMax : a + i - 1 \in DOMAIN s
    BY <1>1, <2>1
  <2>5. DOMAIN t = 1..BufferMax
    BY <1>1, <2>3
  <2> HIDE DEF t
  <2> QED
    BY <1>1, <2>2, <2>3, <2>4, <2>5
<1> QED
  BY <1>2, <1>3

-----------------------------------------------------------------------------
(* What holds of every row, if the filters are T and L. *)

RowHonest(row, T, L) ==
  /\ row.entry.container # NoContainer => row.entry.isEvent \/ L = {} \/ row.entry.level \in L
  /\ ~row.entry.isEvent /\ row.displayed /\ row.by \in {"stream", "toggle", "view"} /\ T # {}
       => row.entry.source \in T
  /\ ~row.entry.isEvent /\ row.displayed /\ L # {}
       => row.entry.level \in L \/ (row.entry.container = NoContainer /\ row.by = "search")
  /\ ~row.displayed /\ row.by # "search"
       => row.entry.container \notin T \/ row.entry.level \notin L

\* The invariant says that of each row, and of the entries of the buffer what concerns them.
LEMMA RowByRow ==
  LevelsKept /\ FilterHonest <=>
    /\ \A i \in DOMAIN buffer : OfLevels(buffer[i])
    /\ \A i \in DOMAIN rows : RowHonest(rows[i], ticked, levels)
BY DEF LevelsKept, FilterHonest, Lines, OfLevels, RowHonest

LEMMA RowByRowPrime ==
  (LevelsKept /\ FilterHonest)' <=>
    /\ \A i \in DOMAIN buffer' : OfLevels(buffer[i])'
    /\ \A i \in DOMAIN rows' : RowHonest(rows'[i], ticked', levels')
BY DEF LevelsKept, FilterHonest, Lines, OfLevels, RowHonest

\* The entries the server has are types of entries that name their container.
LEMMA EntryOK ==
  ASSUME NEW e \in Entries
  PROVE  /\ e \in EntryTypes /\ e.container = e.source /\ e.source \in Containers
         /\ e.container # NoContainer
<1>1. e \in EntryTypes /\ e.container = e.source
  BY EntriesAssumption
<1> QED
  BY <1>1, NamesAssumption DEF EntryTypes

\* Every row has the fields of a row.
LEMMA RowType ==
  ASSUME NEW e \in EntryTypes, NEW shown \in BOOLEAN, NEW by \in Ways
  PROVE  /\ Row(e, shown, by) \in RowTypes
         /\ Row(e, shown, by).entry = e /\ Row(e, shown, by).displayed = shown
         /\ Row(e, shown, by).by = by
BY DEF Row, RowTypes

-----------------------------------------------------------------------------
(* The steps. *)

\* A row that is added is honest, whether the search has tested it or not.
LEMMA AddedHonest ==
  ASSUME NEW e \in Entries, NEW by \in {"stream", "resume"}, NEW shown \in BOOLEAN, OfLevels(e),
         by = "stream" => e.isEvent \/ ticked = {} \/ e.source \in ticked
  PROVE  /\ Row(e, TRUE, by) \in RowTypes /\ RowHonest(Row(e, TRUE, by), ticked, levels)
         /\ Row(e, shown, "search") \in RowTypes /\ RowHonest(Row(e, shown, "search"), ticked, levels)
<1>1. e \in EntryTypes /\ e.container = e.source
  BY EntryOK
<1>2. by \in Ways /\ "search" \in Ways /\ TRUE \in BOOLEAN
  BY DEF Ways
<1> DEFINE added == Row(e, TRUE, by)  tested == Row(e, shown, "search")
<1>3. added \in RowTypes /\ added.entry = e /\ added.displayed /\ added.by = by
  BY <1>1, <1>2 DEF Row, RowTypes
<1>4. tested \in RowTypes /\ tested.entry = e /\ tested.by = "search"
  BY <1>1, <1>2, RowType
<1> HIDE DEF added, tested
<1>5. RowHonest(added, ticked, levels)
  BY <1>1, <1>3 DEF RowHonest, OfLevels
<1>6. RowHonest(tested, ticked, levels)
  BY <1>1, <1>4 DEF RowHonest, OfLevels
<1> QED
  BY <1>3, <1>4, <1>5, <1>6 DEF added, tested

\* Entries of the chosen levels are added, those of the stream of a chosen container too.
LEMMA AddStep ==
  ASSUME IInv, NEW es \in Seq(Entries), NEW by \in {"stream", "resume"}, AddLogEntries(es, by),
         UNCHANGED <<ticked, levels>>,
         \A k \in DOMAIN es : OfLevels(es[k]),
         by = "stream" => \A k \in DOMAIN es : es[k].isEvent \/ ticked = {} \/ es[k].source \in ticked
  PROVE  RowsOK' /\ \A i \in DOMAIN rows' : RowHonest(rows'[i], ticked', levels')
<1> DEFINE at == Starts(search, es, lastIndex)
           new(k) == IF search = NoSearch \/ es[k].isEvent THEN Row(es[k], TRUE, by)
                     ELSE Row(es[k], Found(search, es[k].text, at[k]), "search")
           added == [k \in DOMAIN es |-> new(k)]
<1>1. /\ rows \in Seq(RowTypes) /\ \A i \in DOMAIN rows : RowHonest(rows[i], ticked, levels)
      /\ Len(rows) <= BufferMax \/ \E s \in Snapshots : Len(rows) = Len(s)
  BY RowByRow DEF IInv, RowsOK
<1>2. rows' = rows \/ rows' = Trim(rows \o added)
  BY DEF AddLogEntries, Rendered
<1>3. ASSUME NEW k \in DOMAIN es
      PROVE  new(k) \in RowTypes /\ RowHonest(new(k), ticked, levels)
  <2> DEFINE shown == Found(search, es[k].text, at[k])
  <2>1. es[k] \in Entries /\ OfLevels(es[k])
    OBVIOUS
  <2>2. shown \in BOOLEAN
    BY DEF Found
  <2>3. new(k) = Row(es[k], TRUE, by) \/ new(k) = Row(es[k], shown, "search")
    OBVIOUS
  <2> HIDE DEF new, shown
  <2> QED
    BY <2>1, <2>2, <2>3, AddedHonest
<1> HIDE DEF new
<1>4. /\ added \in Seq(RowTypes) /\ \A i \in DOMAIN added : RowHonest(added[i], ticked, levels)
  BY <1>3
<1> HIDE DEF added
<1>5. /\ rows \o added \in Seq(RowTypes)
      /\ \A i \in DOMAIN (rows \o added) : RowHonest((rows \o added)[i], ticked, levels)
  <2>1. /\ rows \o added \in Seq(RowTypes) /\ Len(rows \o added) = Len(rows) + Len(added)
        /\ \A i \in 1..(Len(rows) + Len(added)) :
             (rows \o added)[i] = IF i <= Len(rows) THEN rows[i] ELSE added[i - Len(rows)]
    BY <1>1, <1>4, ConcatProperties
  <2>2. /\ DOMAIN (rows \o added) = 1..(Len(rows) + Len(added)) /\ Len(rows) \in Nat /\ Len(added) \in Nat
        /\ DOMAIN rows = 1..Len(rows) /\ DOMAIN added = 1..Len(added)
    BY <1>1, <1>4, <2>1
  <2>3. \A i \in 1..(Len(rows) + Len(added)) : i <= Len(rows) \/ i - Len(rows) \in 1..Len(added)
    BY <2>2
  <2>4. \A i \in 1..(Len(rows) + Len(added)) : i <= Len(rows) => i \in 1..Len(rows)
    BY <2>2
  <2> QED
    BY <1>1, <1>4, <2>1, <2>2, <2>3, <2>4
<1>6. CASE rows' = rows
  BY <1>1, <1>6 DEF RowsOK
<1>7. CASE rows' = Trim(rows \o added)
  <2> DEFINE all == rows \o added
  <2> HIDE DEF all
  <2>1. all \in Seq(RowTypes) /\ \A i \in DOMAIN all : RowHonest(all[i], ticked, levels)
    BY <1>5 DEF all
  <2>2. /\ Trim(all) \in Seq(RowTypes) /\ Len(Trim(all)) <= BufferMax
        /\ \A i \in DOMAIN Trim(all) : \E j \in DOMAIN all : Trim(all)[i] = all[j]
    BY <2>1, Trimmed
  <2>3. rows' = Trim(all)
    BY <1>7 DEF all
  <2>4. \A i \in DOMAIN rows' : RowHonest(rows'[i], ticked, levels)
    BY <2>1, <2>2, <2>3
  <2> QED
    BY <2>2, <2>3, <2>4 DEF RowsOK
<1> QED
  BY <1>2, <1>6, <1>7

\* An entry of the stream is added, or buffered.
LEMMA MessageStep ==
  ASSUME IInv, NEW e \in Entries, OnMessage(e)
  PROVE  IInv'
<1>1. OfLevels(e) /\ (e.isEvent \/ ticked = {} \/ e.source \in ticked)
  BY DEF OnMessage, Streamed, OfLevels
<1>2. UNCHANGED <<paused, ticked, levels, search>>
  BY DEF OnMessage
<1>3. FiltersOK'
  BY <1>2 DEF IInv, FiltersOK
<1>4. CASE paused
  <2> DEFINE s == Append(buffer, e)
  <2>1. buffer' = Trim(s) /\ rows' = rows
    BY <1>4 DEF OnMessage
  <2>2. /\ buffer \in Seq(Entries) /\ \A i \in DOMAIN buffer : OfLevels(buffer[i])
    BY RowByRow DEF IInv, BufferOK
  <2>3. s \in Seq(Entries) /\ \A i \in DOMAIN s : OfLevels(s[i])
    BY <1>1, <2>2
  <2> HIDE DEF s
  <2>4. /\ buffer' \in Seq(Entries) /\ Len(buffer') <= BufferMax
        /\ \A i \in DOMAIN buffer' : OfLevels(buffer'[i])
    BY <2>1, <2>3, Trimmed
  <2>5. BufferOK' /\ RowsOK'
    BY <1>2, <1>4, <2>1, <2>4 DEF IInv, BufferOK, RowsOK
  <2>6. \A i \in DOMAIN buffer' : OfLevels(buffer[i])'
    BY <1>2, <2>4 DEF OfLevels
  <2>7. \A i \in DOMAIN rows' : RowHonest(rows'[i], ticked', levels')
    BY <1>2, <2>1, RowByRow DEF IInv
  <2>8. (LevelsKept /\ FilterHonest)'
    BY <2>6, <2>7, RowByRowPrime
  <2> QED
    BY <1>3, <2>5, <2>8 DEF IInv
<1>5. CASE ~paused
  <2> DEFINE es == <<e>>
  <2>1. AddLogEntries(es, "stream") /\ buffer' = buffer
    BY <1>5 DEF OnMessage
  <2>2. /\ es \in Seq(Entries) /\ \A k \in DOMAIN es : OfLevels(es[k])
        /\ \A k \in DOMAIN es : es[k].isEvent \/ ticked = {} \/ es[k].source \in ticked
    BY <1>1
  <2> HIDE DEF es
  <2>3. RowsOK' /\ \A i \in DOMAIN rows' : RowHonest(rows'[i], ticked', levels')
    BY <1>2, <2>1, <2>2, AddStep
  <2>4. \A i \in DOMAIN buffer' : OfLevels(buffer[i])'
    BY <1>2, <2>1, RowByRow DEF IInv, OfLevels
  <2>5. (LevelsKept /\ FilterHonest)'
    BY <2>3, <2>4, RowByRowPrime
  <2>6. BufferOK'
    BY <1>2, <2>1 DEF IInv, BufferOK
  <2> QED
    BY <1>3, <2>3, <2>5, <2>6 DEF IInv
<1> QED
  BY <1>4, <1>5

\* A resume adds what was buffered.
LEMMA PauseStep ==
  ASSUME IInv, TogglePause
  PROVE  IInv'
<1>1. UNCHANGED <<ticked, levels, search>> /\ paused' \in BOOLEAN
  BY DEF TogglePause
<1>2. FiltersOK'
  BY <1>1 DEF IInv, FiltersOK
<1>3. CASE paused
  <2>1. AddLogEntries(buffer, "resume") /\ buffer' = <<>>
    BY <1>3 DEF TogglePause
  <2>2. buffer \in Seq(Entries) /\ \A k \in DOMAIN buffer : OfLevels(buffer[k])
    BY RowByRow DEF IInv, BufferOK
  <2>3. RowsOK' /\ \A i \in DOMAIN rows' : RowHonest(rows'[i], ticked', levels')
    BY <1>1, <2>1, <2>2, AddStep
  <2>4. DOMAIN buffer' = {} /\ buffer' \in Seq(Entries) /\ Len(buffer') = 0
    BY <2>1
  <2>5. BufferOK'
    BY <2>1, <2>4, BufferAssumption DEF BufferOK
  <2>6. (LevelsKept /\ FilterHonest)'
    BY <2>3, <2>4, RowByRowPrime
  <2> QED
    BY <1>2, <2>3, <2>5, <2>6 DEF IInv
<1>4. CASE ~paused
  <2>1. UNCHANGED <<rows, buffer>> /\ buffer = <<>>
    BY <1>4 DEF TogglePause, IInv, BufferOK
  <2>2. RowsOK' /\ BufferOK'
    BY <2>1 DEF IInv, RowsOK, BufferOK
  <2>3. (LevelsKept /\ FilterHonest)'
    BY <1>1, <2>1 DEF IInv, LevelsKept, FilterHonest, Lines, OfLevels
  <2> QED
    BY <1>2, <2>2, <2>3 DEF IInv
<1> QED
  BY <1>3, <1>4

\* Rows that are made anew of rows that were there, or of logs, one by one.
LEMMA RedrawnRows ==
  ASSUME NEW s, DOMAIN s = 1..Len(s), Len(s) \in Nat,
         rows' = [i \in DOMAIN s |-> rows'[i]], \A i \in DOMAIN s : rows'[i] \in RowTypes,
         Len(s) <= BufferMax \/ \E t \in Snapshots : Len(s) = Len(t)
  PROVE  RowsOK'
<1>1. rows' = [i \in 1..Len(s) |-> rows'[i]] /\ \A i \in 1..Len(s) : rows'[i] \in RowTypes
  OBVIOUS
<1>2. rows' \in Seq(RowTypes)
  BY <1>1, IsASeq
<1>3. DOMAIN rows' = 1..Len(s)
  BY <1>1
<1>4. Len(rows') = Len(s)
  BY <1>2, <1>3, LenProperties
<1> QED
  BY <1>2, <1>4 DEF RowsOK

\* A choice of containers displays every row by its container.
LEMMA ContainerStep ==
  ASSUME IInv, NEW c \in Containers, ToggleContainer(c)
  PROVE  IInv'
<1> DEFINE new(i) == Row(rows[i].entry, rows[i].entry.container \in ticked', "toggle")
<1>1. /\ ticked' \subseteq Containers /\ rows' = [i \in DOMAIN rows |-> new(i)]
      /\ UNCHANGED <<buffer, paused, levels, search>>
  BY DEF ToggleContainer, Toggled, IInv, FiltersOK
<1>2. FiltersOK' /\ BufferOK'
  BY <1>1 DEF IInv, FiltersOK, BufferOK
<1>3. /\ DOMAIN rows = 1..Len(rows) /\ Len(rows) \in Nat
      /\ \A i \in DOMAIN rows : rows[i] \in RowTypes /\ rows[i].entry \in EntryTypes
      /\ Len(rows) <= BufferMax \/ \E s \in Snapshots : Len(rows) = Len(s)
  <2>1. \A row \in RowTypes : row.entry \in EntryTypes
    BY DEF RowTypes
  <2> QED
    BY <2>1 DEF IInv, RowsOK
<1>4. ASSUME NEW i \in DOMAIN rows
      PROVE  /\ new(i) \in RowTypes /\ new(i).entry = rows[i].entry /\ new(i).by = "toggle"
             /\ new(i).displayed = (rows[i].entry.container \in ticked')
  <2> DEFINE shown == rows[i].entry.container \in ticked'
  <2>1. shown \in BOOLEAN /\ "toggle" \in Ways
    BY DEF Ways
  <2> HIDE DEF shown
  <2>2. /\ Row(rows[i].entry, shown, "toggle") \in RowTypes
        /\ Row(rows[i].entry, shown, "toggle").entry = rows[i].entry
        /\ Row(rows[i].entry, shown, "toggle").displayed = shown
        /\ Row(rows[i].entry, shown, "toggle").by = "toggle"
    BY <1>3, <2>1, RowType
  <2> QED
    BY <2>2 DEF shown
<1> HIDE DEF new
<1>5. RowsOK' /\ DOMAIN rows' = DOMAIN rows /\ \A i \in DOMAIN rows : rows'[i] = new(i)
  <2>1. /\ DOMAIN rows' = DOMAIN rows /\ \A i \in DOMAIN rows : rows'[i] = new(i)
        /\ rows' = [i \in DOMAIN rows |-> rows'[i]]
    BY <1>1
  <2> QED
    BY <1>3, <1>4, <2>1, RedrawnRows
<1>6. ASSUME NEW i \in DOMAIN rows
      PROVE  RowHonest(new(i), ticked', levels')
  <2>1. rows[i].entry.container \in {rows[i].entry.source, NoContainer}
    BY <1>3 DEF EntryTypes
  <2>2. NoContainer \notin ticked'
    BY <1>1, NamesAssumption
  <2>3. rows[i].entry.container # NoContainer => OfLevels(rows[i].entry)
    BY DEF IInv, LevelsKept
  <2> QED
    BY <1>1, <1>4, <2>1, <2>2, <2>3 DEF RowHonest, OfLevels
<1>7. \A i \in DOMAIN buffer' : OfLevels(buffer[i])'
  BY <1>1, RowByRow DEF IInv, OfLevels
<1>8. (LevelsKept /\ FilterHonest)'
  BY <1>5, <1>6, <1>7, RowByRowPrime
<1> QED
  BY <1>2, <1>5, <1>8 DEF IInv

\* A choice of levels, and key c, leave no row.
LEMMA ClearStep ==
  ASSUME IInv, ClearRows \/ \E l \in Levels : ToggleLevel(l)
  PROVE  IInv'
<1>1. /\ rows' = <<>> /\ UNCHANGED <<paused, ticked, search>> /\ levels' \subseteq Levels
      /\ UNCHANGED <<buffer, levels>> \/ buffer' = <<>>
  BY DEF ClearRows, ToggleLevel, Toggled, IInv, FiltersOK
<1>2. FiltersOK'
  BY <1>1 DEF IInv, FiltersOK
<1>3. rows' \in Seq(RowTypes) /\ Len(rows') = 0 /\ DOMAIN rows' = {} /\ BufferMax \in Nat
  BY <1>1, BufferAssumption
<1>4. RowsOK'
  BY <1>3 DEF RowsOK
<1>5. BufferOK' /\ \A i \in DOMAIN buffer' : OfLevels(buffer[i])'
  <2>1. CASE UNCHANGED <<buffer, levels>>
    BY <1>1, <2>1, RowByRow DEF IInv, BufferOK, OfLevels
  <2>2. CASE buffer' = <<>>
    <3>1. buffer' \in Seq(Entries) /\ Len(buffer') = 0 /\ DOMAIN buffer' = {}
      BY <2>2
    <3> QED
      BY <1>3, <2>2, <3>1 DEF BufferOK
  <2> QED
    BY <1>1, <2>1, <2>2
<1>6. (LevelsKept /\ FilterHonest)'
  BY <1>3, <1>5, RowByRowPrime
<1> QED
  BY <1>2, <1>4, <1>5, <1>6 DEF IInv

\* A search has the last word of every row, and changes no entry.
LEMMA SearchStep ==
  ASSUME IInv, NEW p \in Patterns \cup {NoSearch}, ApplySearchFilter(p)
  PROVE  IInv'
<1> DEFINE es == [i \in DOMAIN rows |-> rows[i].entry]
           at == Starts(p, es, 0)
           shown(i) == p = NoSearch \/ (~es[i].isEvent /\ Found(p, es[i].text, at[i]))
           new(i) == Row(es[i], shown(i), "search")
<1>1. /\ rows' = rows \/ rows' = [i \in DOMAIN rows |-> new(i)]
      /\ search' = p /\ UNCHANGED <<buffer, paused, ticked, levels>>
  BY DEF ApplySearchFilter, Rendered
<1>2. FiltersOK' /\ BufferOK'
  BY <1>1 DEF IInv, FiltersOK, BufferOK
<1>3. /\ DOMAIN rows = 1..Len(rows) /\ Len(rows) \in Nat
      /\ \A i \in DOMAIN rows : rows[i].entry \in EntryTypes /\ es[i] = rows[i].entry
      /\ Len(rows) <= BufferMax \/ \E s \in Snapshots : Len(rows) = Len(s)
  <2>1. \A row \in RowTypes : row.entry \in EntryTypes
    BY DEF RowTypes
  <2> QED
    BY <2>1 DEF IInv, RowsOK
<1>4. \A i \in DOMAIN rows : shown(i) \in BOOLEAN
  BY DEF Found
<1> HIDE DEF shown, es
<1>5. \A i \in DOMAIN rows : new(i) \in RowTypes /\ new(i).entry = rows[i].entry /\ new(i).by = "search"
  <2>1. "search" \in Ways
    BY DEF Ways
  <2> QED
    BY <1>3, <1>4, <2>1, RowType
<1> HIDE DEF new
<1>6. RowsOK' /\ \A i \in DOMAIN rows' : RowHonest(rows'[i], ticked', levels')
  <2>1. CASE rows' = rows
    BY <1>1, <2>1, RowByRow DEF IInv, RowsOK
  <2>2. CASE rows' = [i \in DOMAIN rows |-> new(i)]
    <3>1. RowsOK' /\ DOMAIN rows' = DOMAIN rows /\ \A i \in DOMAIN rows : rows'[i] = new(i)
      <4>1. /\ DOMAIN rows' = DOMAIN rows /\ \A i \in DOMAIN rows : rows'[i] = new(i)
            /\ rows' = [i \in DOMAIN rows |-> rows'[i]]
        BY <2>2
      <4> QED
        BY <1>3, <1>5, <4>1, RedrawnRows
    <3>2. ASSUME NEW i \in DOMAIN rows
          PROVE  RowHonest(new(i), ticked', levels')
      <4>1. rows[i].entry.container # NoContainer => OfLevels(rows[i].entry)
        BY DEF IInv, LevelsKept
      <4> QED
        BY <1>1, <1>5, <4>1 DEF RowHonest, OfLevels
    <3> QED
      BY <3>1, <3>2
  <2> QED
    BY <1>1, <2>1, <2>2
<1>7. \A i \in DOMAIN buffer' : OfLevels(buffer[i])'
  BY <1>1, RowByRow DEF IInv, OfLevels
<1>8. (LevelsKept /\ FilterHonest)'
  BY <1>6, <1>7, RowByRowPrime
<1> QED
  BY <1>2, <1>6, <1>8 DEF IInv

\* The rows of a snapshot are displayed by container and level.
LEMMA ViewStep ==
  ASSUME IInv, NEW logs \in Snapshots, ViewSnapshot(logs)
  PROVE  IInv'
<1> DEFINE shown(i) == logs[i].container \in ticked /\ logs[i].level \in levels
           new(i) == Row(logs[i], shown(i), "view")
<1>1. /\ rows' = rows \/ rows' = [i \in DOMAIN logs |-> new(i)]
      /\ paused' = TRUE /\ UNCHANGED <<buffer, ticked, levels, search>>
  BY DEF ViewSnapshot, Rendered
<1>2. FiltersOK' /\ BufferOK'
  BY <1>1 DEF IInv, FiltersOK, BufferOK
<1>3. /\ DOMAIN logs = 1..Len(logs) /\ Len(logs) \in Nat
      /\ \A i \in DOMAIN logs : logs[i] \in EntryTypes /\ logs[i].container = NoContainer
  <2>1. logs \in Seq(EntryTypes)
    BY EntriesAssumption
  <2> QED
    BY <2>1, EntriesAssumption
<1>4. \A i \in DOMAIN logs : shown(i) \in BOOLEAN /\ ~shown(i)
  BY <1>3, NamesAssumption DEF IInv, FiltersOK
<1> HIDE DEF shown
<1>5. \A i \in DOMAIN logs : /\ new(i) \in RowTypes /\ new(i).entry = logs[i]
                             /\ ~new(i).displayed
  <2>1. "view" \in Ways
    BY DEF Ways
  <2> QED
    BY <1>3, <1>4, <2>1, RowType
<1> HIDE DEF new
<1>6. RowsOK' /\ \A i \in DOMAIN rows' : RowHonest(rows'[i], ticked', levels')
  <2>1. CASE rows' = rows
    BY <1>1, <2>1, RowByRow DEF IInv, RowsOK
  <2>2. CASE rows' = [i \in DOMAIN logs |-> new(i)]
    <3>1. RowsOK' /\ DOMAIN rows' = DOMAIN logs /\ \A i \in DOMAIN logs : rows'[i] = new(i)
      <4>1. /\ DOMAIN rows' = DOMAIN logs /\ \A i \in DOMAIN logs : rows'[i] = new(i)
            /\ rows' = [i \in DOMAIN logs |-> rows'[i]]
        BY <2>2
      <4> QED
        BY <1>3, <1>5, <4>1, RedrawnRows
    <3>2. NoContainer \notin ticked'
      BY <1>1, NamesAssumption DEF IInv, FiltersOK
    <3>3. \A i \in DOMAIN logs : RowHonest(new(i), ticked', levels')
      BY <1>3, <1>5, <3>2 DEF RowHonest
    <3> QED
      BY <3>1, <3>3
  <2> QED
    BY <1>1, <2>1, <2>2
<1>7. \A i \in DOMAIN buffer' : OfLevels(buffer[i])'
  BY <1>1, RowByRow DEF IInv, OfLevels
<1>8. (LevelsKept /\ FilterHonest)'
  BY <1>6, <1>7, RowByRowPrime
<1> QED
  BY <1>2, <1>6, <1>8 DEF IInv

-----------------------------------------------------------------------------
(* The theorems. *)

LEMMA InitHolds == Init => IInv
<1> SUFFICES ASSUME Init PROVE IInv
  OBVIOUS
<1>1. /\ rows = <<>> /\ buffer = <<>> /\ paused = FALSE /\ ticked = Containers /\ levels = Levels
      /\ search = NoSearch
  BY DEF Init
<1>2. /\ rows \in Seq(RowTypes) /\ buffer \in Seq(Entries) /\ Len(rows) = 0 /\ Len(buffer) = 0
      /\ DOMAIN rows = {} /\ DOMAIN buffer = {} /\ BufferMax \in Nat
  BY <1>1, BufferAssumption
<1>3. RowsOK /\ BufferOK
  <2>1. 0 <= BufferMax
    BY <1>2
  <2> QED
    BY <1>1, <1>2, <2>1 DEF RowsOK, BufferOK
<1>4. FiltersOK
  <2>1. paused \in BOOLEAN
    BY <1>1
  <2> QED
    BY <1>1, <2>1 DEF FiltersOK
<1> QED
  BY <1>2, <1>3, <1>4 DEF IInv, LevelsKept, FilterHonest, Lines

LEMMA NextHolds == IInv /\ [Next]_vars => IInv'
<1> SUFFICES ASSUME IInv, [Next]_vars PROVE IInv'
  OBVIOUS
<1>1. ASSUME NEW e \in Entries, OnMessage(e)
      PROVE  IInv'
  BY <1>1, MessageStep
<1>2. CASE TogglePause
  BY <1>2, PauseStep
<1>3. ASSUME NEW c \in Containers, ToggleContainer(c)
      PROVE  IInv'
  BY <1>3, ContainerStep
<1>4. CASE ClearRows \/ \E l \in Levels : ToggleLevel(l)
  BY <1>4, ClearStep
<1>5. ASSUME NEW p \in Patterns \cup {NoSearch}, ApplySearchFilter(p)
      PROVE  IInv'
  BY <1>5, SearchStep
<1>6. ASSUME NEW logs \in Snapshots, ViewSnapshot(logs)
      PROVE  IInv'
  BY <1>6, ViewStep
<1>7. CASE UNCHANGED vars
  BY <1>7 DEF vars, IInv, RowsOK, BufferOK, FiltersOK, LevelsKept, OfLevels, FilterHonest, Lines
<1> QED
  BY <1>1, <1>2, <1>3, <1>4, <1>5, <1>6, <1>7 DEF Next

THEOREM Invariance == Spec => []IInv
  BY InitHolds, NextHolds, PTL DEF Spec

\* The page is bounded, whatever is streamed, paused, searched for and viewed.
THEOREM Bounded == Spec => [](RowsOK /\ BufferOK /\ FiltersOK)
<1>1. IInv => RowsOK /\ BufferOK /\ FiltersOK
  BY DEF IInv
<1> QED
  BY <1>1, Invariance, PTL

\* The request for the stream, the choice of a container, the view of a snapshot and the change
\* of the levels filter alike, however they are mixed with pauses and searches.
THEOREM Honest == Spec => []FilterHonest
<1>1. IInv => FilterHonest
  BY DEF IInv
<1> QED
  BY <1>1, Invariance, PTL
=============================================================================
