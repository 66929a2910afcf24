------------------------------- MODULE LogRow -------------------------------
(***************************************************************************)
(* What becomes of one log entry on its way: a frame of a container or a   *)
(* container event, the LogEntry the server makes of it, the HTML of the   *)
(* stream, a row of the page, an entry of a posted snapshot, the JSON in   *)
(* the table, and again a row when the snapshot is viewed, any number of   *)
(* times.  LogStream, Viewer and SnapshotStore model how entries, rows and *)
(* snapshots move, Filters which rows are displayed; this module models    *)
(* what each step does to one.                                             *)
(*                                                                         *)
(* A text is a sequence of characters, of which only the kind is kept:     *)
(* letters of one to four bytes, an ampersand for what is special in HTML, *)
(* a space, a carriage return, and an ANSI escape sequence, taken as one.  *)
(***************************************************************************)
EXTENDS Integers, Sequences, FiniteSets, FiniteSetsExt, Functions, Subsequences

CONSTANTS Containers,
          NoContainer,   \* the empty string where a container is expected
          Payloads,      \* texts of the frames, and the patterns of levels they match
          Actions,       \* actions of container events
          MaxMessage,    \* maxLogMessageSize
          MaxRows,       \* bound: rows of the page that entries are added to
          MaxSaves       \* bound: snapshots saved

Levels == <<"alert", "error", "warning", "info", "debug">>
Chars == {"x", "wide", "emoji", "bad", "dot", "amp", "space", "cr", "ansi"}

ASSUME ContainersAssumption == NoContainer \notin Containers
ASSUME PayloadsAssumption ==
  \A p \in Payloads : /\ p.text \in Seq(Chars)
                      /\ p.structured \subseteq Range(Levels) /\ p.keyword \subseteq Range(Levels)
ASSUME BoundsAssumption == MaxMessage \in Nat \ {0} /\ MaxRows \in Nat /\ MaxSaves \in Nat

VARIABLES rows,       \* the rows of the page
          snapshots,  \* the logs of the snapshots saved, as they are in the table
          lost        \* history: texts of entries that were sent and became no row

vars == <<rows, snapshots, lost>>

-----------------------------------------------------------------------------
(* The server: from a frame or an event to an entry. *)

White == {"space", "cr"}

TrimSpace(t) ==
  LET ink == {i \in DOMAIN t : t[i] \notin White}
  IN IF ink = {} THEN <<>> ELSE SubSeq(t, Min(ink), Max(ink))

stripANSI(t) == Selected(t, {i \in DOMAIN t : t[i] # "ansi"})

\* Structured patterns first, then keywords; in each pass the most severe level wins.
detectLogLevel(p) ==
  LET First(L) == Levels[Min({i \in DOMAIN Levels : Levels[i] \in L})]
  IN IF p.structured # {} THEN First(p.structured)
     ELSE IF p.keyword # {} THEN First(p.keyword)
     ELSE "info"

\* Mutant: an empty payload is skipped before it is trimmed.
SkippedEmpty(p) == p.text = <<>>

Skipped(p) == TrimSpace(p.text) = <<>>

\* Mutant: the message is tested for being blank and not trimmed.
LogEntryUntrimmed(c, stream, p) ==
  [container |-> c, containerID |-> c, stream |-> stream, time |-> "written",
   message |-> stripANSI(p.text), level |-> detectLogLevel(p), isEvent |-> FALSE]

LogEntry(c, stream, p) ==
  [container |-> c, containerID |-> c, stream |-> stream, time |-> "written",
   message |-> stripANSI(TrimSpace(p.text)), level |-> detectLogLevel(p), isEvent |-> FALSE]

\* Mutant: any other action is its own level.
eventActionToLevelRaw(action) ==
  CASE action \in {"die", "kill", "oom"} -> "error"
    [] action \in {"stop", "pause"} -> "warning"
    [] action \in {"start", "unpause", "create"} -> "info"
    [] OTHER -> action

eventActionToLevel(action) ==
  CASE action \in {"die", "kill", "oom"} -> "error"
    [] action \in {"stop", "pause"} -> "warning"
    [] action \in {"start", "unpause", "create"} -> "info"
    [] OTHER -> "debug"

EventEntry(c, action) ==
  [container |-> c, containerID |-> c, stream |-> "event", time |-> "written",
   message |-> <<"x">>, level |-> eventActionToLevel(action), isEvent |-> TRUE]

-----------------------------------------------------------------------------
(* The page: from an entry to a row, and from a row to an entry to save. *)

\* The template of a line shows name and message in elements the page reads again; that of
\* an event has elements of other classes.
LineRow(e) ==
  [dataContainer |-> e.containerID, dataLevel |-> e.level, dataStream |-> e.stream,
   dataTime |-> e.time, dataMessage |-> e.message, primary |-> e.container, content |-> e.message]

EventRow(e) == [LineRow(e) EXCEPT !.primary = NoContainer, !.content = <<>>]

Render(e) == IF e.isEvent THEN EventRow(e) ELSE LineRow(e)

\* "data: %s\n\n": a carriage return ends the field in the browser, and what is left of the
\* HTML is a tag without an end, which makes no element.
Arrives(e) == "cr" \notin Range(e.message)

\* Mutant: the level is read from an attribute that is not there.
CollectNoLevel(row) ==
  [container |-> row.primary, container_id |-> row.dataContainer, stream |-> "stdout",
   time |-> "saved", message |-> row.content, level |-> "info"]

\* What the page posts of a row.
Collect(row) ==
  [container |-> row.primary, container_id |-> row.dataContainer, stream |-> "stdout",
   time |-> "saved", message |-> row.content, level |-> row.dataLevel]

\* JSON into models.LogEntry, whose ContainerID is called containerId.
Bind(log) ==
  [container |-> log.container, containerID |-> NoContainer, stream |-> log.stream,
   time |-> log.time, message |-> log.message, level |-> log.level, isEvent |-> FALSE]

Width == [x |-> 1, wide |-> 2, emoji |-> 4, bad |-> 3, dot |-> 1, amp |-> 1, space |-> 1, cr |-> 1,
          ansi |-> 1]

\* The number of bytes: <<i, j>> is the j-th of the i-th character.
Bytes(t) == Cardinality({b \in (DOMAIN t) \X (1..4) : b[2] <= Width[t[b[1]]]})

\* The first n bytes; of a character that is cut each byte left becomes U+FFFD in JSON.
Prefix(t, k) == SubSeq(t, 1, k)
EndsAt(t, n, k) == Bytes(Prefix(t, k)) <= n /\ (k < Len(t) => Bytes(Prefix(t, k + 1)) > n)
FirstBytes(t, n) ==
  LET whole == CHOOSE k \in 0..Len(t) : EndsAt(t, n, k)
  IN Prefix(t, whole) \o [i \in 1..(n - Bytes(Prefix(t, whole))) |-> "bad"]

\* Mutant: characters are counted, not bytes.
TruncateChars(t) == IF Len(t) > MaxMessage THEN SubSeq(t, 1, MaxMessage) \o <<"dot", "dot", "dot">> ELSE t

\* Mutant: the dots come first.
TruncateDotsFirst(t) == IF Bytes(t) > MaxMessage THEN <<"dot", "dot", "dot">> \o FirstBytes(t, MaxMessage)
                        ELSE t

\* SaveSnapshot of the handlers, then json.Marshal.
Truncate(t) == IF Bytes(t) > MaxMessage THEN FirstBytes(t, MaxMessage) \o <<"dot", "dot", "dot">>
               ELSE t

Store(e) == [e EXCEPT !.message = Truncate(@)]

\* escapeHtml: an ampersand becomes five characters, "&amp;", which begin with one.
Escaped(t) ==
  LET cells == [k \in 1..(5 * Len(t)) |-> IF k % 5 = 1 THEN t[(k + 4) \div 5] ELSE "x"]
  IN Selected(cells, {k \in DOMAIN cells : k % 5 = 1 \/ t[(k + 4) \div 5] = "amp"})

\* What viewSnapshot makes of an entry of the answer; it reads container_id, which is not there.
\* A message that the search finds is escaped to be inserted and again to be highlighted.
ShowLog(e, found) ==
  [dataContainer |-> NoContainer, dataLevel |-> IF e.level \in Range(Levels) THEN e.level ELSE "info",
   dataStream |-> e.stream, dataTime |-> e.time, dataMessage |-> e.message,
   primary |-> e.container, content |-> IF found THEN Escaped(e.message) ELSE e.message]

-----------------------------------------------------------------------------
(* A row is what the page has and, as history, the entry and the text it was made of, how
   often it was saved and viewed since, and whether a view has changed its text. *)

Row(dom, origin, trips, garbled) ==
  [dom |-> dom, origin |-> origin, trips |-> trips, garbled |-> garbled]

Origin(e, text) == [entry |-> e, text |-> text]

Init == /\ rows = <<>>
        /\ snapshots = <<>>
        /\ lost = {}

AddLogEntry(e, text) ==
  /\ Len(rows) < MaxRows
  /\ rows' = IF Arrives(e) THEN Append(rows, Row(Render(e), Origin(e, text), 0, FALSE)) ELSE rows
  /\ lost' = IF Arrives(e) THEN lost ELSE lost \cup {text}
  /\ UNCHANGED snapshots

Line(c, stream, p) == /\ ~Skipped(p)
                      /\ AddLogEntry(LogEntry(c, stream, p), p.text)

Event(c, action) == AddLogEntry(EventEntry(c, action), <<"x">>)

\* All rows are saved, displayed or not.
SaveSnapshot ==
  /\ Len(snapshots) < MaxSaves
  /\ snapshots' = Append(snapshots,
       [i \in DOMAIN rows |-> [log |-> Store(Bind(Collect(rows[i].dom))), origin |-> rows[i].origin,
                               trips |-> rows[i].trips + 1, garbled |-> rows[i].garbled]])
  /\ UNCHANGED <<rows, lost>>

\* The page shows the snapshot alone, with a search that finds some of its messages, or none.
\* (The page may be resumed, and then goes on after it.)
ViewSnapshot(n, found) ==
  /\ rows' = [i \in DOMAIN snapshots[n] |->
                LET saved == snapshots[n][i]
                    dom == ShowLog(saved.log, i \in found)
                IN Row(dom, saved.origin, saved.trips, saved.garbled \/ dom.content # saved.log.message)]
  /\ UNCHANGED <<snapshots, lost>>

Next == \/ \E c \in Containers : \/ \E stream \in {"stdout", "stderr"}, p \in Payloads : Line(c, stream, p)
                                 \/ \E action \in Actions : Event(c, action)
        \/ SaveSnapshot
        \/ \E n \in DOMAIN snapshots : \E found \in SUBSET DOMAIN snapshots[n] : ViewSnapshot(n, found)

Spec == Init /\ [][Next]_vars

-----------------------------------------------------------------------------
(* Properties. *)

Entries == [container : Containers \cup {NoContainer}, containerID : Containers \cup {NoContainer},
            stream : {"stdout", "stderr", "event"}, time : {"written", "saved"},
            message : Seq(Chars), level : Range(Levels), isEvent : BOOLEAN]
Doms == [dataContainer : Containers \cup {NoContainer}, dataLevel : Range(Levels),
         dataStream : {"stdout", "stderr", "event"}, dataTime : {"written", "saved"},
         dataMessage : Seq(Chars), primary : Containers \cup {NoContainer}, content : Seq(Chars)]
Origins == [entry : Entries, text : Seq(Chars)]
Shown == [dom : Doms, origin : Origins, trips : 0..MaxSaves, garbled : BOOLEAN]
Saved == [log : Entries, origin : Origins, trips : 1..MaxSaves, garbled : BOOLEAN]

\* Type invariant, in which every level is one the page has a button for.
TypeOK ==
  /\ rows \in Seq(Shown)
  /\ snapshots \in Seq(Seq(Saved)) /\ Len(snapshots) <= MaxSaves
  /\ lost \subseteq Seq(Chars)

LineRows == {i \in DOMAIN rows : ~rows[i].origin.entry.isEvent}

\* A text is another one, as far as that is within the limit.
Carries(t, m) ==
  /\ Bytes(m) <= MaxMessage => t = m
  /\ \A k \in 0..Len(m) :
       Bytes(Prefix(m, k)) <= MaxMessage => k <= Len(t) /\ Prefix(t, k) = Prefix(m, k)

\* However often a line is saved and viewed, its row shows the container and the level it was
\* streamed with and, unless a search garbled it, up to the limit of a message its text.
LinesKept ==
  \A i \in LineRows :
    LET e == rows[i].origin.entry  dom == rows[i].dom
    IN /\ dom.primary = e.container /\ dom.dataLevel = e.level
       /\ ~rows[i].garbled => Carries(dom.content, e.message)

\* What is stored of a message, garbled ones included, is at most nine bytes longer than the
\* limit, three bytes of a cut character and the dots included, ...
StoredBounded ==
  \A n \in DOMAIN snapshots : \A i \in DOMAIN snapshots[n] :
    Bytes(snapshots[n][i].log.message) <= MaxMessage + 9

\* ... and is not cut again when the snapshot of a snapshot is saved once more.
SavingSettles ==
  \A i \in DOMAIN rows : rows[i].trips >= 2 /\ ~rows[i].garbled
                           => Truncate(rows[i].dom.content) = rows[i].dom.content

\* A line that shows nothing was made of escape sequences: blank lines are skipped.
Blank(t) == \A k \in DOMAIN t : t[k] \in White
BlankOnlyFromEscapes ==
  \A i \in LineRows : Blank(rows[i].dom.content) => "ansi" \in Range(rows[i].origin.text)

\* An entry becomes a row unless a carriage return stands inside its line; those around it,
\* as in a line that ends with CR LF, do no harm.
ReturnInside(t) ==
  \E i \in DOMAIN t : /\ t[i] = "cr"
                      /\ \E j \in 1..i, k \in i..Len(t) : t[j] \notin White /\ t[k] \notin White
LostOnlyByReturn == \A t \in lost : ReturnInside(t)

\* What they rest on.  A saved entry keeps what a row shows; a text that was cut once settles
\* with the next cut, and one that was saved twice has; every saving and viewing adds a trip.
Keeps(container, level, message, origin, trips, garbled) ==
  LET e == origin.entry
  IN /\ ~e.isEvent => /\ container = e.container /\ level = e.level
                      /\ Blank(message) => "ansi" \in Range(origin.text)
     /\ ~garbled => /\ ~e.isEvent => Carries(message, e.message)
                    /\ trips > 0 => Truncate(Truncate(message)) = Truncate(message)
                    /\ trips > 1 => Truncate(message) = message

RowsKeep ==
  \A i \in DOMAIN rows :
    /\ Keeps(rows[i].dom.primary, rows[i].dom.dataLevel, rows[i].dom.content,
             rows[i].origin, rows[i].trips, rows[i].garbled)
    /\ rows[i].trips <= Len(snapshots)

SnapshotsKeep ==
  \A n \in DOMAIN snapshots : \A i \in DOMAIN snapshots[n] :
    LET saved == snapshots[n][i]
    IN /\ Keeps(saved.log.container, saved.log.level, saved.log.message, saved.origin, saved.trips,
                saved.garbled)
       /\ saved.trips <= n

\* Together they are inductive.
IInv == TypeOK /\ RowsKeep /\ SnapshotsKeep /\ StoredBounded /\ LostOnlyByReturn
=============================================================================
