------------------------------- MODULE Viewer -------------------------------
(***************************************************************************)
(* The page of the browser (static/app.js): its EventSource and the timers *)
(* that replace it, the pause buffer, the rows of the log container and    *)
(* the view of a saved snapshot, which is fetched asynchronously.  Every   *)
(* callback of the page runs to its end before the next one starts.        *)
(*                                                                         *)
(* A row is where it came from, a stream of the server or a snapshot, and  *)
(* its number there.  Search, highlighting and the hiding of rows change   *)
(* no row and are left out.                                                *)
(***************************************************************************)
EXTENDS Integers, Sequences, Subsequences

CONSTANTS Snapshots,      \* ids of the snapshots the page may ask for
          NoSnapshot,     \* none is viewed
          LogsOf(_),      \* LogsOf(id): number of rows of snapshot id
          BufferMax,      \* LOG_BUFFER_MAX
          TailLines,      \* entries of the past a stream of the server begins with
          MaxEntries,     \* bound: entries there are to stream
          MaxErrors,      \* bound: streams that fail
          MaxCommands     \* bound: filter changes and snapshots asked for

ASSUME SnapshotsAssumption == /\ NoSnapshot \notin Snapshots
                              /\ Snapshots \cap Nat = {}
                              /\ \A id \in Snapshots : LogsOf(id) \in Nat
ASSUME BufferAssumption == BufferMax \in Nat \ {0}
ASSUME BoundAssumption == /\ TailLines \in Nat /\ MaxEntries \in Nat
                          /\ MaxErrors \in Nat /\ MaxCommands \in Nat

VARIABLES produced,     \* entries the server had to stream so far
          eventSource,  \* state of the EventSource object the page holds
          stream,       \* the streams opened so far: the last one is read
          next,         \* the entry the stream delivers next
          timers,       \* setTimeout(connectSSE, 3000) that have not fired
          badge,        \* what the connection status says
          paused,
          pausedBuffer,
          skippedCount,
          rows,         \* the rows of the log container
          loading,      \* the snapshots whose fetch has not been answered
          viewed,       \* the snapshot the rows are those of, until the user moves on
          errors,       \* streams that failed
          commands      \* filter changes and snapshots asked for

conn == <<eventSource, stream, next, timers>>
buffer == <<pausedBuffer, skippedCount>>
snaps == <<loading, viewed>>
counts == <<errors, commands>>
vars == <<produced, eventSource, stream, next, timers, badge, paused, pausedBuffer,
          skippedCount, rows, loading, viewed, errors, commands>>

Row(src, n) == [src |-> src, n |-> n]

IsLive(r) == r.src \in Nat

\* Rows of a snapshot, in the order of its logs.
SnapshotRows(id) == [n \in 1..LogsOf(id) |-> Row(id, n)]

\* The loop that removes the first child while there are too many.
Trim(s) == IF Len(s) > BufferMax THEN SubSeq(s, Len(s) - BufferMax + 1, Len(s)) ELSE s

\* Mutant: insertAdjacentHTML("afterbegin"), the newest row first.
AddLogEntriesOnTop(es) == rows' = IF es = <<>> THEN rows ELSE Trim(es \o rows)

\* addLogEntry for each of some entries: trimming after each is trimming at the end.
AddLogEntries(es) == rows' = IF es = <<>> THEN rows ELSE Trim(rows \o es)

\* connectSSE: the old EventSource is closed, and with it what it had yet to deliver.
ConnectSSE == eventSource' = "connecting"

Init == /\ produced \in 0..MaxEntries
        /\ eventSource = "connecting"
        /\ stream = 0
        /\ next = 1
        /\ timers = 0
        /\ badge = "Connected"
        /\ paused = FALSE
        /\ pausedBuffer = <<>>
        /\ skippedCount = 0
        /\ rows = <<>>
        /\ loading = {}
        /\ viewed = NoSnapshot
        /\ errors = 0
        /\ commands = 0

-----------------------------------------------------------------------------
(* The server and the network. *)

Produce == /\ produced < MaxEntries
           /\ produced' = produced + 1
           /\ UNCHANGED <<conn, badge, paused, buffer, rows, snaps, counts>>

\* The server answers: a new stream, which begins with the tail.  onopen.
Open == /\ eventSource = "connecting"
        /\ eventSource' = "open"
        /\ stream' = stream + 1
        /\ next' = IF produced > TailLines THEN produced - TailLines + 1 ELSE 1
        /\ badge' = "Connected"
        /\ UNCHANGED <<produced, timers, paused, buffer, rows, snaps, counts>>

\* Mutant: a timer only for a stream that was open; the browser retries anyway.
StreamFailsNoTimer ==
  /\ eventSource \in {"connecting", "open"}
  /\ errors < MaxErrors
  /\ errors' = errors + 1
  /\ eventSource' \in IF eventSource = "open" THEN {"connecting"} ELSE {"connecting", "closed"}
  /\ badge' = "Disconnected"
  /\ timers' = IF eventSource = "open" THEN timers + 1 ELSE timers
  /\ UNCHANGED <<produced, stream, next, paused, buffer, rows, snaps, commands>>

\* onerror.  The browser retries by itself when a stream or an attempt breaks,
\* and gives up when the answer is not an event stream.  The page has a timer
\* replace the EventSource in either case.
StreamFails ==
  /\ eventSource \in {"connecting", "open"}
  /\ errors < MaxErrors
  /\ errors' = errors + 1
  /\ eventSource' \in IF eventSource = "open" THEN {"connecting"} ELSE {"connecting", "closed"}
  /\ badge' = "Disconnected"
  /\ timers' = timers + 1
  /\ UNCHANGED <<produced, stream, next, paused, buffer, rows, snaps, commands>>

TimerFires == /\ timers > 0
              /\ timers' = timers - 1
              /\ ConnectSSE
              /\ UNCHANGED <<produced, stream, next, badge, paused, buffer, rows, snaps, counts>>

\* Mutant: the buffer never forgets.
MessageUnbounded ==
  /\ eventSource = "open" /\ next <= produced
  /\ next' = next + 1
  /\ IF paused
     THEN /\ pausedBuffer' = Append(pausedBuffer, Row(stream, next))
          /\ skippedCount' = skippedCount + 1
          /\ UNCHANGED rows
     ELSE AddLogEntries(<<Row(stream, next)>>) /\ UNCHANGED buffer
  /\ UNCHANGED <<produced, eventSource, stream, timers, badge, paused, snaps, counts>>

\* Mutant: a full buffer takes no more entries.
MessageUntilFull ==
  /\ eventSource = "open" /\ next <= produced
  /\ next' = next + 1
  /\ IF paused
     THEN /\ pausedBuffer' = IF Len(pausedBuffer) = BufferMax THEN pausedBuffer
                             ELSE Append(pausedBuffer, Row(stream, next))
          /\ skippedCount' = skippedCount + 1
          /\ UNCHANGED rows
     ELSE AddLogEntries(<<Row(stream, next)>>) /\ UNCHANGED buffer
  /\ UNCHANGED <<produced, eventSource, stream, timers, badge, paused, snaps, counts>>

\* onmessage: the entry goes to the buffer, which forgets its oldest one when it
\* is full, or to the rows.
Message ==
  /\ eventSource = "open" /\ next <= produced
  /\ next' = next + 1
  /\ IF paused
     THEN /\ pausedBuffer' = Trim(Append(pausedBuffer, Row(stream, next)))
          /\ skippedCount' = skippedCount + 1
          /\ UNCHANGED rows
     ELSE AddLogEntries(<<Row(stream, next)>>) /\ UNCHANGED buffer
  /\ UNCHANGED <<produced, eventSource, stream, timers, badge, paused, snaps, counts>>

-----------------------------------------------------------------------------
(* The user. *)

Pause == paused' = TRUE /\ skippedCount' = 0

\* Mutant: a resume only shows what arrives from then on.
TogglePauseDropsBuffer ==
  /\ IF paused
     THEN /\ paused' = FALSE
          /\ pausedBuffer' = <<>> /\ skippedCount' = 0
          /\ viewed' = NoSnapshot
          /\ UNCHANGED rows
     ELSE Pause /\ UNCHANGED <<rows, pausedBuffer, viewed>>
  /\ UNCHANGED <<produced, conn, badge, loading, counts>>

\* togglePause: a resume shows what was buffered meanwhile.
TogglePause ==
  /\ IF paused
     THEN /\ paused' = FALSE
          /\ AddLogEntries(pausedBuffer)
          /\ pausedBuffer' = <<>> /\ skippedCount' = 0
          /\ viewed' = NoSnapshot
     ELSE Pause /\ UNCHANGED <<rows, pausedBuffer, viewed>>
  /\ UNCHANGED <<produced, conn, badge, loading, counts>>

\* Key c empties the log container, not the buffer.
Clear == /\ rows' = <<>>
         /\ viewed' = NoSnapshot
         /\ UNCHANGED <<produced, conn, badge, paused, buffer, loading, counts>>

Command == commands < MaxCommands /\ commands' = commands + 1

\* Mutant: the count of skipped entries outlives the buffer.
ChangeLevelsKeepsCount ==
  /\ Command
  /\ rows' = <<>> /\ pausedBuffer' = <<>>
  /\ viewed' = NoSnapshot
  /\ ConnectSSE
  /\ UNCHANGED <<produced, stream, next, timers, badge, paused, skippedCount, loading, errors>>

\* reconnectSSE(true): what was received under the old levels goes.
ChangeLevels ==
  /\ Command
  /\ rows' = <<>> /\ pausedBuffer' = <<>> /\ skippedCount' = 0
  /\ viewed' = NoSnapshot
  /\ ConnectSSE
  /\ UNCHANGED <<produced, stream, next, timers, badge, paused, loading, errors>>

\* reconnectSSE(): the rows stay.
ChangeContainers ==
  /\ Command
  /\ ConnectSSE
  /\ UNCHANGED <<produced, stream, next, timers, badge, paused, buffer, rows, snaps, errors>>

\* viewSnapshot up to its await.
RequestSnapshot(id) ==
  /\ Command
  /\ loading' = loading \cup {id}
  /\ UNCHANGED <<produced, conn, badge, paused, buffer, rows, viewed, errors>>

\* Mutant: the stream goes on under the snapshot.
EnsureNothing == UNCHANGED <<paused, skippedCount>>

\* if (!paused) togglePause()
EnsurePaused == IF paused THEN UNCHANGED <<paused, skippedCount>> ELSE Pause

Answered(id) == id \in loading /\ loading' = loading \ {id}

\* The rest of viewSnapshot: the page pauses and shows the snapshot.
SnapshotArrives(id) ==
  /\ LogsOf(id) > 0
  /\ Answered(id)
  /\ EnsurePaused
  /\ rows' = SnapshotRows(id)
  /\ badge' = "Viewing"
  /\ viewed' = id
  /\ UNCHANGED <<produced, conn, pausedBuffer, counts>>

\* An answer without logs, which is that of a deleted snapshot and, because of
\* omitempty, that of one saved with none: the status of the answer is not looked
\* at, and forEach of undefined throws once the rows are gone.
SnapshotMissing(id) ==
  /\ Answered(id)
  /\ EnsurePaused
  /\ rows' = <<>>
  /\ viewed' = NoSnapshot
  /\ UNCHANGED <<produced, conn, badge, pausedBuffer, counts>>

\* The fetch, or the parsing of its answer, is rejected: a toast.
SnapshotFails(id) ==
  /\ Answered(id)
  /\ UNCHANGED <<produced, conn, badge, paused, buffer, rows, viewed, counts>>

-----------------------------------------------------------------------------

Stream == Open \/ StreamFails \/ TimerFires \/ Message

User == \/ TogglePause \/ Clear \/ ChangeLevels \/ ChangeContainers
        \/ \E id \in Snapshots : \/ RequestSnapshot(id) \/ SnapshotArrives(id)
                                 \/ SnapshotMissing(id) \/ SnapshotFails(id)

Next == Produce \/ Stream \/ User

Spec == Init /\ [][Next]_vars

\* Timers fire, and a server that is asked again and again answers.
FairSpec == Spec /\ WF_vars(TimerFires) /\ SF_vars(Open)

-----------------------------------------------------------------------------
Rows == [src : Nat \cup Snapshots, n : Nat \ {0}]

TypeOK ==
  /\ produced \in Nat
  /\ eventSource \in {"connecting", "open", "closed"}
  /\ stream \in Nat /\ next \in Nat \ {0}
  /\ timers \in Nat
  /\ badge \in {"Connected", "Disconnected", "Viewing"}
  /\ paused \in BOOLEAN
  /\ pausedBuffer \in Seq(Rows) /\ Len(pausedBuffer) <= BufferMax
  /\ skippedCount \in Nat
  /\ rows \in Seq(Rows)
  /\ loading \in SUBSET Snapshots
  /\ viewed \in Snapshots \cup {NoSnapshot}
  /\ errors \in Nat /\ commands \in Nat

\* Across a reconnection, a pause and the view of a snapshot, what was received
\* later stands later: rows first, then the entries that wait for a resume.
Received == rows \o pausedBuffer
Earlier(a, b) == a.src < b.src \/ (a.src = b.src /\ a.n < b.n)
Increasing(s) == \A i, j \in 1..Len(s) :
                   i < j /\ IsLive(s[i]) /\ IsLive(s[j]) => Earlier(s[i], s[j])
Ordered == Increasing(Received)

\* However often the user pauses and resumes, and although a full buffer forgets,
\* no entry of a stream is missing between two that stand next to each other.
Contiguous(s) == \A i \in 1..(Len(s) - 1) :
                   IsLive(s[i]) /\ s[i].src = s[i+1].src => s[i+1].n = s[i].n + 1
NoHole == Contiguous(rows) /\ Contiguous(pausedBuffer)

\* Until the user clears the rows or has a snapshot shown, a step only ever forgets
\* the oldest: the newest BufferMax of the live entries, buffered ones included, stay.
Live(s) == Selected(s, {i \in DOMAIN s : IsLive(s[i])})
LiveRows == Live(rows) \o pausedBuffer
Arriving == IF next' = next + 1 /\ stream' = stream THEN <<Row(stream, next)>> ELSE <<>>
Wipe == \/ Clear \/ ChangeLevels
        \/ \E id \in Snapshots : SnapshotArrives(id) \/ SnapshotMissing(id)
Newest(s) == SubSeq(s, IF Len(s) > BufferMax THEN Len(s) - BufferMax + 1 ELSE 1, Len(s))
NewestKept == [][Wipe \/ Newest(LiveRows') = Newest(LiveRows \o Arriving)]_vars

\* While a snapshot is viewed the rows are exactly its logs: no entry that
\* arrives, and no other snapshot that is still loading, mixes with them.
SnapshotIntact == viewed # NoSnapshot => paused /\ rows = SnapshotRows(viewed)

\* "Resume (k skipped)" counts what arrived since the pause, of which the buffer
\* holds all that fits; nothing waits in it once the page is not paused.
SkippedHonest == /\ Len(pausedBuffer) = IF skippedCount < BufferMax THEN skippedCount ELSE BufferMax
                 /\ ~paused => skippedCount = 0

\* The status never says "Disconnected" of an open stream nor "Connected" of one
\* that was given up, and a timer is pending whenever the browser has given up.
StatusHonest == /\ eventSource = "open" => badge # "Disconnected"
                /\ eventSource = "closed" => badge # "Connected" /\ timers > 0

\* What the order rests on: entries were received from streams opened so far, the
\* last one just before what its stream delivers next, and only a buffer that is
\* full may have forgotten entries between the rows and its own.
Cursor ==
  /\ \A i \in 1..Len(Received) :
       IsLive(Received[i]) => Earlier(Received[i], Row(stream, next))
  /\ \A i \in 1..Len(pausedBuffer) : IsLive(pausedBuffer[i])
  /\ Received # <<>> =>
       LET last == Received[Len(Received)] IN
         IsLive(last) /\ last.src = stream => last.n + 1 = next
Joined == Len(pausedBuffer) = BufferMax \/ Contiguous(Received)

\* Rows of a snapshot stand before those of streams, so that trimming takes them first.
LiveLast(s) == \A i, j \in 1..Len(s) : i < j /\ IsLive(s[i]) => IsLive(s[j])
SnapshotsFirst == LiveLast(rows)

\* Together they are inductive.
IInv == /\ TypeOK /\ StatusHonest /\ SkippedHonest /\ SnapshotIntact
        /\ Ordered /\ NoHole /\ Cursor /\ Joined /\ SnapshotsFirst

\* Once streams no longer fail the page comes to rest on an open one: the timers
\* that errors left behind, which replace even a healthy stream, run out.
Settles == <>[](eventSource = "open" /\ timers = 0)
=============================================================================
