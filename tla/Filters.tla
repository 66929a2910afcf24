------------------------------ MODULE Filters ------------------------------
(***************************************************************************)
(* Which rows of the page are displayed (static/app.js).  Containers and   *)
(* levels are filtered in four places: by the request for the stream, by   *)
(* the choice of a container, by the view of a snapshot, and not at all by *)
(* a resume.  The search decides anew what they have decided, and the      *)
(* expression it tests remembers where it stopped in the row before.       *)
(*                                                                         *)
(* Viewer models which rows there are, LogRow what is in them.             *)
(***************************************************************************)
EXTENDS Integers, Sequences

CONSTANTS Containers,
          NoContainer,  \* data-container of a row without one
          Levels,
          Texts,        \* the texts of lines, events included; none is empty
          Patterns,     \* the expressions a user searches for
          NoSearch,     \* nothing is searched for, or what is no expression
          Hits(_, _),   \* Hits(p, t): start and end of every match of p in t
          Entries,      \* what the server has to stream
          Snapshots,    \* the logs of the snapshots that may be viewed
          BufferMax     \* LOG_BUFFER_MAX

\* An entry or a log: its container, what the row will name as its container, and the rest.
EntryTypes == {e \in [source : Containers, container : Containers \cup {NoContainer},
                      isEvent : BOOLEAN, level : Levels, text : Texts] :
                 e.container \in {e.source, NoContainer}}

ASSUME NamesAssumption == NoContainer \notin Containers /\ NoSearch \notin Patterns
ASSUME HitsAssumption ==
  /\ \A p \in Patterns, t \in Texts : \A h \in Hits(p, t) : h \in Nat \X Nat /\ h[1] <= h[2]
  /\ \A t \in Texts : Hits(NoSearch, t) = {}
ASSUME EntriesAssumption ==
  /\ \A e \in Entries : e \in EntryTypes /\ e.container = e.source
  /\ Snapshots \subseteq Seq(EntryTypes)
  /\ \A s \in Snapshots : \A i \in DOMAIN s : ~s[i].isEvent /\ s[i].container = NoContainer
ASSUME BufferAssumption == BufferMax \in Nat \ {0}

VARIABLES rows,      \* the rows of the page
          buffer,    \* pausedBuffer
          paused,
          ticked,    \* filters.containers
          levels,    \* filters.levels
          search,    \* searchRegex
          lastIndex, \* its lastIndex: where its next test begins
          hung       \* the page is in a loop that does not end

vars == <<rows, buffer, paused, ticked, levels, search, lastIndex, hung>>

\* A row, whether it is displayed, and, as history, what decided that last.
Row(e, displayed, by) == [entry |-> e, displayed |-> displayed, by |-> by]

-----------------------------------------------------------------------------
(* The search: test of a global expression. *)


Ahead(p, t, from) == {h \in Hits(p, t) : h[1] >= from}

Found(p, t, from) == Ahead(p, t, from) # {}

\* A test that succeeds leaves lastIndex behind its match, one that fails resets it.
After(p, t, from) ==
  IF Found(p, t, from) THEN (CHOOSE h \in Ahead(p, t, from) : \A g \in Ahead(p, t, from) : h[1] <= g[1])[2]
  ELSE 0

\* Where the test of each entry begins, and, at the end, lastIndex after the last one.  An
\* event has no element of a message to test.
Starts(p, es, from) ==
  LET at[k \in 1..(Len(es) + 1)] ==
        IF k = 1 THEN from
        ELSE IF es[k - 1].isEvent THEN at[k - 1]
        ELSE After(p, es[k - 1].text, at[k - 1])
  IN at

\* highlightMatches calls exec on a row that is found until there is no match left, and
\* after an empty match exec goes on from the same place.
Highlighted(p, es, at) ==
  \A k \in DOMAIN es : ~es[k].isEvent /\ Found(p, es[k].text, at[k])
                         => \A h \in Hits(p, es[k].text) : h[1] # h[2]

\* A handler that highlights either ends with these rows or never ends; how far it gets then
\* is seen by nobody.
Rendered(p, es, at, new) ==
  IF Highlighted(p, es, at)
  THEN /\ rows' = new
       /\ lastIndex' = at[Len(es) + 1]
       /\ UNCHANGED hung
  ELSE /\ hung' = TRUE
       /\ UNCHANGED <<rows, lastIndex>>

Trim(s) == IF Len(s) > BufferMax THEN SubSeq(s, Len(s) - BufferMax + 1, Len(s)) ELSE s

-----------------------------------------------------------------------------

\* Every running container is listed and ticked, every level is on.
Init == /\ rows = <<>>
        /\ buffer = <<>>
        /\ paused = FALSE
        /\ ticked = Containers
        /\ levels = Levels
        /\ search = NoSearch
        /\ lastIndex = 0
        /\ hung = FALSE

\* What buildSSEUrl asks for, and the server sends: events whatever is chosen.
Streamed(e) == \/ e.isEvent
               \/ /\ ticked = {} \/ e.source \in ticked
                  /\ levels = {} \/ e.level \in levels

\* addLogEntry, for one entry after the other; a row is trimmed after it was tested.
AddLogEntries(es, by) ==
  LET at == Starts(search, es, lastIndex)
      added == [k \in DOMAIN es |->
                  IF search = NoSearch \/ es[k].isEvent THEN Row(es[k], TRUE, by)
                  ELSE Row(es[k], Found(search, es[k].text, at[k]), "search")]
  IN Rendered(search, es, at, IF es = <<>> THEN rows ELSE Trim(rows \o added))

\* Mutant: a page that stays paused forgets nothing.
OnMessageUnbounded(e) ==
  /\ Streamed(e)
  /\ IF paused THEN /\ Len(buffer) <= BufferMax
                    /\ buffer' = Append(buffer, e)
                    /\ UNCHANGED <<rows, lastIndex, hung>>
     ELSE AddLogEntries(<<e>>, "stream") /\ UNCHANGED buffer
  /\ UNCHANGED <<paused, ticked, levels, search>>

OnMessage(e) ==
  /\ Streamed(e)
  /\ IF paused THEN /\ buffer' = Trim(Append(buffer, e))
                    /\ UNCHANGED <<rows, lastIndex, hung>>
     ELSE AddLogEntries(<<e>>, "stream") /\ UNCHANGED buffer
  /\ UNCHANGED <<paused, ticked, levels, search>>

TogglePause ==
  /\ paused' = ~paused
  /\ IF paused THEN AddLogEntries(buffer, "resume") /\ buffer' = <<>>
     ELSE UNCHANGED <<rows, buffer, lastIndex, hung>>
  /\ UNCHANGED <<ticked, levels, search>>

Toggled(x, S) == IF x \in S THEN S \ {x} ELSE S \cup {x}

\* reconnectSSE: the rows, events among them, are displayed by their container alone.
ToggleContainer(c) ==
  /\ ticked' = Toggled(c, ticked)
  /\ rows' = [i \in DOMAIN rows |-> Row(rows[i].entry, rows[i].entry.container \in ticked', "toggle")]
  /\ UNCHANGED <<buffer, paused, levels, search, lastIndex, hung>>

\* Mutant: the rows are cleared, and what was streamed while the page was paused is not.
ToggleLevelRows(l) ==
  /\ levels' = Toggled(l, levels)
  /\ rows' = <<>>
  /\ UNCHANGED <<buffer, paused, ticked, search, lastIndex, hung>>

\* reconnectSSE(true)
ToggleLevel(l) ==
  /\ levels' = Toggled(l, levels)
  /\ rows' = <<>> /\ buffer' = <<>>
  /\ UNCHANGED <<paused, ticked, search, lastIndex, hung>>

\* Key c.
ClearRows ==
  /\ rows' = <<>>
  /\ UNCHANGED <<buffer, paused, ticked, levels, search, lastIndex, hung>>

\* applySearchFilter, when the timer of the input fires or Escape is pressed: without a
\* search every row is displayed, with one those that it finds.
ApplySearchFilter(p) ==
  LET es == [i \in DOMAIN rows |-> rows[i].entry]
      at == Starts(p, es, 0)
  IN /\ search' = p
     /\ Rendered(p, es, at,
          [i \in DOMAIN rows |->
             Row(es[i], p = NoSearch \/ (~es[i].isEvent /\ Found(p, es[i].text, at[i])), "search")])
     /\ UNCHANGED <<buffer, paused, ticked, levels>>

\* viewSnapshot: the search is tested to highlight and hides nothing; then each row is
\* displayed by its container and its level.
ViewSnapshot(logs) ==
  LET at == Starts(search, logs, lastIndex)
  IN /\ paused' = TRUE
     /\ Rendered(search, logs, at,
          [i \in DOMAIN logs |->
             Row(logs[i], logs[i].container \in ticked /\ logs[i].level \in levels, "view")])
     /\ UNCHANGED <<buffer, ticked, levels, search>>

Next == /\ ~hung
        /\ \/ \E e \in Entries : OnMessage(e)
           \/ TogglePause
           \/ \E c \in Containers : ToggleContainer(c)
           \/ \E l \in Levels : ToggleLevel(l)
           \/ ClearRows
           \/ \E p \in Patterns \cup {NoSearch} : ApplySearchFilter(p)
           \/ \E logs \in Snapshots : ViewSnapshot(logs)

Spec == Init /\ [][Next]_vars

-----------------------------------------------------------------------------
(* Properties. *)

Ways == {"stream", "resume", "toggle", "search", "view"}

RowTypes == [entry : EntryTypes, displayed : BOOLEAN, by : Ways]

\* The page holds its maximum of rows, but for those of one snapshot, ...
RowsOK == /\ rows \in Seq(RowTypes)
          /\ Len(rows) <= BufferMax \/ \E s \in Snapshots : Len(rows) = Len(s)

\* ... and of entries it buffers while it is paused.
BufferOK == /\ buffer \in Seq(Entries) /\ Len(buffer) <= BufferMax
            /\ buffer # <<>> => paused

FiltersOK == /\ paused \in BOOLEAN
             /\ ticked \subseteq Containers /\ levels \subseteq Levels
             /\ search \in Patterns \cup {NoSearch}

\* Type invariant.
TypeOK == RowsOK /\ BufferOK /\ FiltersOK /\ lastIndex \in Nat /\ hung \in BOOLEAN

Lines == {i \in DOMAIN rows : ~rows[i].entry.isEvent}

\* The filters agree with each other, although three places apply them: where neither a
\* resume nor the search had the last word, a line is displayed only if its container is
\* chosen; whatever had it, only if its level is, but for the rows of a snapshot that a search
\* displays; and no row is hidden, but by the search, whose container and level are chosen.
FilterHonest ==
  /\ \A i \in Lines : rows[i].displayed /\ rows[i].by \in {"stream", "toggle", "view"} /\ ticked # {}
                        => rows[i].entry.source \in ticked
  /\ \A i \in Lines : rows[i].displayed /\ levels # {}
                        => \/ rows[i].entry.level \in levels
                           \/ rows[i].entry.container = NoContainer /\ rows[i].by = "search"
  /\ \A i \in DOMAIN rows : ~rows[i].displayed /\ rows[i].by # "search"
                        => rows[i].entry.container \notin ticked \/ rows[i].entry.level \notin levels

\* What it rests on: a change of the levels leaves no entry of the former ones behind.
OfLevels(e) == e.isEvent \/ levels = {} \/ e.level \in levels
LevelsKept == /\ \A i \in DOMAIN buffer : OfLevels(buffer[i])
              /\ \A i \in DOMAIN rows : rows[i].entry.container # NoContainer => OfLevels(rows[i].entry)

\* Together with what bounds the page they are inductive.
IInv == RowsOK /\ BufferOK /\ FiltersOK /\ LevelsKept /\ FilterHonest

\* A line that matches the search and is hidden by it.
Missed(i) ==
  rows[i].by = "search" /\ ~rows[i].displayed /\ Hits(search, rows[i].entry.text) # {}


-----------------------------------------------------------------------------
(* What the repository says and the code does not do. *)

\* app.js:628: "Render snapshot logs with full data attributes for filtering/searching".
RestoredDisplayed ==
  \A i \in DOMAIN rows :
    rows[i].by = "view" /\ rows[i].entry.source \in ticked /\ rows[i].entry.level \in levels
      => rows[i].displayed
=============================================================================
