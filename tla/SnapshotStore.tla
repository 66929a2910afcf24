--------------------------- MODULE SnapshotStore ---------------------------
(***************************************************************************)
(* The snapshots of the server: the handlers of internal/handlers/         *)
(* snapshots.go, one goroutine per request, and the SQLite table of        *)
(* internal/storage/storage.go they share.  A statement is atomic and may  *)
(* fail without effect (SQLITE_BUSY, a full disk).  The handlers do not    *)
(* look at the context of their request: one whose client is gone runs to  *)
(* its end.  The process may crash between any two steps; what a statement *)
(* has committed survives.                                                 *)
(*                                                                         *)
(* Left out: description, containers, levels and created_at, which travel  *)
(* with the name, and the order of a list.                                 *)
(***************************************************************************)
EXTENDS Integers, Sequences, FiniteSets

CONSTANTS Requests,        \* requests that may be under way at a time
          Names, NoName,   \* names of snapshots; the empty string
          Messages,        \* messages of log entries
          Stored(_),       \* Stored(m): what is left of message m in the table
          Inputs,          \* the bodies clients post
          Malformed,       \* a body, or an id, that does not parse
          MaxLogs,         \* maxLogsPerSnapshot
          MaxIds,          \* bound: INSERT fails when this id is taken
          MaxCrashes       \* bound: crashes

Bodies == [name : Names \cup {NoName}, logs : Seq(Messages)]

ASSUME NamesAssumption == NoName \notin Names /\ Malformed \notin Bodies \cup Nat
ASSUME InputsAssumption == Inputs \subseteq Bodies \cup {Malformed}
ASSUME StoredAssumption == \A m \in Messages : Stored(m) \in Messages
ASSUME RequestsAssumption == IsFiniteSet(Requests)
ASSUME BoundsAssumption == MaxLogs \in Nat /\ MaxIds \in Nat /\ MaxCrashes \in Nat

VARIABLES up,         \* the process runs
          table,      \* id -> row of the table snapshots
          sequence,   \* the largest id AUTOINCREMENT has used
          request,    \* request[r]: Idle, or the request and how far it is
          counted,    \* the metric SnapshotsSaved
          firstId,    \* history: sequence when the process started
          acked,      \* history: id -> what a client was told is saved
          doomed,     \* history: ids a DELETE was executed for
          crashes

database == <<table, sequence>>
history == <<firstId, acked, doomed, crashes>>
vars == <<up, table, sequence, request, counted, firstId, acked, doomed, crashes>>

NoRows == [i \in {} |-> 0]
Put(rows, id, row) == [i \in DOMAIN rows \cup {id} |-> IF i = id THEN row ELSE rows[i]]

Row(name, logs) == [name |-> name, count |-> Len(logs), logs |-> logs]
Summary(row) == [name |-> row.name, count |-> row.count]

\* What is to be kept of a body.
Kept(body) == Row(body.name, [k \in DOMAIN body.logs |-> Stored(body.logs[k])])

\* How a request is answered: a status and the rows in the body.
Reply(code, rows) == [code |-> code, rows |-> rows]
NoReply == Reply(0, NoRows)

Idle == [op |-> "none", arg |-> Malformed, at |-> "idle", reply |-> NoReply]

Init == /\ up = TRUE
        /\ table = NoRows
        /\ sequence = 0
        /\ request = [r \in Requests |-> Idle]
        /\ counted = 0
        /\ firstId = 0
        /\ acked = NoRows
        /\ doomed = {}
        /\ crashes = 0

-----------------------------------------------------------------------------
(* Clients and the process. *)

Asked == [op : {"save"}, arg : Inputs]
         \cup [op : {"get", "delete"}, arg : 1..MaxIds \cup {Malformed}]
         \cup [op : {"list"}, arg : {Malformed}]

Receive(r, a) ==
  /\ up /\ request[r] = Idle
  /\ request' = [request EXCEPT ![r] = [op |-> a.op, arg |-> a.arg, at |-> "received",
                                        reply |-> NoReply]]
  /\ UNCHANGED <<up, database, counted, history>>

\* The answer reaches the client.
Respond(r) ==
  /\ request[r].at = "answered"
  /\ acked' = IF request[r].reply.code = 201
              THEN [i \in DOMAIN acked \cup DOMAIN request[r].reply.rows |->
                      IF i \in DOMAIN acked THEN acked[i] ELSE Kept(request[r].arg)]
              ELSE acked
  /\ request' = [request EXCEPT ![r] = Idle]
  /\ UNCHANGED <<up, database, counted, firstId, doomed, crashes>>

\* The client has left, sooner or later, and the answer is lost.
AnswerLost(r) ==
  /\ request[r].at = "answered"
  /\ request' = [request EXCEPT ![r] = Idle]
  /\ UNCHANGED <<up, database, counted, history>>

Crash ==
  /\ up /\ crashes < MaxCrashes
  /\ up' = FALSE
  /\ crashes' = crashes + 1
  /\ request' = [r \in Requests |-> Idle]
  /\ UNCHANGED <<database, counted, firstId, acked, doomed>>

Restart ==
  /\ ~up
  /\ up' = TRUE
  /\ counted' = 0
  /\ firstId' = sequence
  /\ UNCHANGED <<database, request, acked, doomed, crashes>>

-----------------------------------------------------------------------------
(* Handlers. *)

Running(r, op) == request[r].op = op /\ request[r].at = "received"

Advance(r, at, reply) ==
  request' = [request EXCEPT ![r] = [op |-> @.op, arg |-> @.arg, at |-> at, reply |-> reply]]

Answer(r, code, rows) == Advance(r, "answered", Reply(code, rows))

\* The middleware refuses a request: BodyLimit or RateLimiter.
Refuse(r) ==
  /\ \E op \in {"save", "get", "list", "delete"} : Running(r, op)
  /\ \/ request[r].op = "save" /\ Answer(r, 413, NoRows)
     \/ Answer(r, 429, NoRows)
  /\ UNCHANGED <<up, database, counted, history>>

\* Mutant: any number of logs is accepted.
ValidAnyLength(body) == body # Malformed /\ body.name # NoName

Valid(body) == /\ body # Malformed
               /\ body.name # NoName
               /\ Len(body.logs) <= MaxLogs

\* Mutant: the save is counted before its error is looked at.
FailsCounted(r) ==
  /\ \E op \in {"save", "get", "list", "delete"} : Running(r, op)
  /\ request[r].op = "save" => Valid(request[r].arg)
  /\ request[r].op \in {"get", "delete"} => request[r].arg # Malformed
  /\ Answer(r, 500, NoRows)
  /\ counted' = IF request[r].op = "save" THEN counted + 1 ELSE counted
  /\ UNCHANGED <<up, database, history>>

\* The statement fails.
Fails(r) ==
  /\ \E op \in {"save", "get", "list", "delete"} : Running(r, op)
  /\ request[r].op = "save" => Valid(request[r].arg)
  /\ request[r].op \in {"get", "delete"} => request[r].arg # Malformed
  /\ Answer(r, 500, NoRows)
  /\ UNCHANGED <<up, database, counted, history>>

Truncate(logs) == [k \in DOMAIN logs |-> Stored(logs[k])]

\* Mutant: INSERT OR REPLACE with a unique name.
SaveSnapshotReplaces(r, body) ==
  /\ sequence < MaxIds
  /\ sequence' = sequence + 1
  /\ table' = Put([i \in {j \in DOMAIN table : table[j].name # body.name} |-> table[i]],
                  sequence + 1, Row(body.name, body.logs))
  /\ Advance(r, "inserted", Reply(201, Put(NoRows, sequence + 1, Summary(Row(body.name, body.logs)))))

\* Mutant: INTEGER PRIMARY KEY without AUTOINCREMENT, the id after the largest in the table.
SaveSnapshotReusesId(r, body) ==
  LET id == CHOOSE i \in 1..MaxIds : i \notin DOMAIN table /\ \A j \in DOMAIN table : j < i
  IN /\ MaxIds \notin DOMAIN table
     /\ sequence' = IF id > sequence THEN id ELSE sequence
     /\ table' = Put(table, id, Row(body.name, body.logs))
     /\ Advance(r, "inserted", Reply(201, Put(NoRows, id, Summary(Row(body.name, body.logs)))))

\* storage.SaveSnapshot: one INSERT, whose result carries the id it took.
SaveSnapshot(r, body) ==
  /\ sequence < MaxIds
  /\ sequence' = sequence + 1
  /\ table' = Put(table, sequence + 1, Row(body.name, body.logs))
  /\ Advance(r, "inserted", Reply(201, Put(NoRows, sequence + 1, Summary(Row(body.name, body.logs)))))

\* storage.GetSnapshot: the row, as a map that is empty when there is none.
GetSnapshot(id) == [i \in {id} \cap DOMAIN table |-> table[i]]

\* storage.ListSnapshots: one SELECT reads one state of the table.
ListSnapshots == [i \in DOMAIN table |-> Summary(table[i])]

\* storage.DeleteSnapshot: the DELETE that affects a row.
DeleteSnapshot(id) == table' = [i \in DOMAIN table \ {id} |-> table[i]]

RejectSave(r) ==
  /\ Running(r, "save") /\ ~Valid(request[r].arg)
  /\ Answer(r, 400, NoRows)
  /\ UNCHANGED <<up, database, counted, history>>

HandleSave(r) ==
  /\ Running(r, "save") /\ Valid(request[r].arg)
  /\ SaveSnapshot(r, [name |-> request[r].arg.name, logs |-> Truncate(request[r].arg.logs)])
  /\ UNCHANGED <<up, counted, history>>

\* Mutant: the id is asked for after the INSERT, when another one may have run.
AnswerSaveReadsId(r) ==
  /\ request[r].at = "inserted"
  /\ counted' = counted + 1
  /\ Answer(r, 201, Put(NoRows, sequence, Summary(Kept(request[r].arg))))
  /\ UNCHANGED <<up, database, history>>

\* SnapshotsSaved.Inc() and the answer.
AnswerSave(r) ==
  /\ request[r].at = "inserted"
  /\ counted' = counted + 1
  /\ Advance(r, "answered", request[r].reply)
  /\ UNCHANGED <<up, database, history>>

HandleGet(r) ==
  /\ Running(r, "get")
  /\ LET id == request[r].arg IN
     IF id = Malformed THEN Answer(r, 400, NoRows)
     ELSE Answer(r, IF id \in DOMAIN table THEN 200 ELSE 404, GetSnapshot(id))
  /\ UNCHANGED <<up, database, counted, history>>

HandleList(r) ==
  /\ Running(r, "list")
  /\ Answer(r, 200, ListSnapshots)
  /\ UNCHANGED <<up, database, counted, history>>

\* A row that is not there is an error like any other.
HandleDelete(r) ==
  /\ Running(r, "delete")
  /\ LET id == request[r].arg IN
     \/ /\ id = Malformed
        /\ Answer(r, 400, NoRows) /\ UNCHANGED table
     \/ /\ id # Malformed /\ id \notin DOMAIN table
        /\ Answer(r, 500, NoRows) /\ UNCHANGED table
     \/ /\ id # Malformed /\ id \in DOMAIN table
        /\ Answer(r, 204, NoRows) /\ DeleteSnapshot(id)
  /\ doomed' = doomed \cup ({request[r].arg} \cap DOMAIN table)
  /\ UNCHANGED <<up, sequence, counted, firstId, acked, crashes>>

Handler(r) == \/ Refuse(r) \/ Fails(r) \/ RejectSave(r) \/ HandleSave(r) \/ AnswerSave(r)
              \/ HandleGet(r) \/ HandleList(r) \/ HandleDelete(r)
              \/ Respond(r) \/ AnswerLost(r)

Next == \/ \E r \in Requests : \/ \E a \in Asked : Receive(r, a)
                               \/ Handler(r)
        \/ Crash \/ Restart

Spec == Init /\ [][Next]_vars

-----------------------------------------------------------------------------
(* Properties. *)

Rows == [name : Names, count : 0..MaxLogs, logs : Seq(Messages)]
Codes == {0, 200, 201, 204, 400, 404, 413, 429, 500}
Inserted == {r \in Requests : request[r].at = "inserted"}

\* Type invariant, for the module's variables as the code keeps them.
TypeOK ==
  /\ up \in BOOLEAN
  /\ sequence \in 0..MaxIds /\ firstId \in 0..sequence
  /\ DOMAIN table \subseteq 1..sequence /\ \A i \in DOMAIN table : table[i] \in Rows
  /\ DOMAIN acked \subseteq 1..sequence /\ \A i \in DOMAIN acked : acked[i] \in Rows
  /\ doomed \subseteq 1..sequence
  /\ counted \in 0..MaxIds /\ crashes \in 0..MaxCrashes
  /\ \A r \in Requests : request[r] # Idle =>
        /\ [op |-> request[r].op, arg |-> request[r].arg] \in Asked
        /\ request[r].at \in {"received", "inserted", "answered"}
        /\ request[r].reply.code \in Codes
        /\ DOMAIN request[r].reply.rows \subseteq 1..sequence

\* A snapshot the client was told is saved (201) is in the table as it was sent, messages
\* truncated, from then on: no crash, no failure and no other request removes or changes it,
\* unless its own deletion was executed.
AcknowledgedStays ==
  \A i \in DOMAIN acked : i \in doomed \/ (i \in DOMAIN table /\ table[i] = acked[i])

\* What the metric counts: the rows inserted since the process started, less those whose
\* handlers have yet to count them.
CountedOnce == up => counted + Cardinality(Inserted) = sequence - firstId

\* Two answers to saves never carry the same id, nor one a client knows already.
AnswersDistinct ==
  \A r, q \in Requests :
    /\ r # q /\ request[r].op = "save" /\ request[q].op = "save"
         => DOMAIN request[r].reply.rows \cap DOMAIN request[q].reply.rows = {}
    /\ request[r].op = "save" => DOMAIN request[r].reply.rows \cap DOMAIN acked = {}

\* What they rest on.  The reply to a save carries nothing, or the id of a row that is there
\* as it was sent, unless a deletion was executed for it.
Holds(id, row) == id \in doomed \/ (id \in DOMAIN table /\ table[id] = row)

RequestOK(q) ==
  /\ q = [op |-> q.op, arg |-> q.arg, at |-> q.at, reply |-> Reply(q.reply.code, q.reply.rows)]
  /\ q.at = "received" => q.reply = NoReply
  /\ q.at = "inserted" => q.reply.code = 201
  /\ q.reply.code = 201 =>
       /\ q.op = "save" /\ Valid(q.arg)
       /\ \E i \in 1..sequence : DOMAIN q.reply.rows = {i} /\ Holds(i, Kept(q.arg))
  /\ q.op = "save" /\ q.reply.code # 201 => DOMAIN q.reply.rows = {}

RequestsOK ==
  /\ request = [r \in Requests |-> request[r]]
  /\ \A r \in Requests : request[r] # Idle => up /\ RequestOK(request[r])

\* Together they are inductive.
IInv == TypeOK /\ RequestsOK /\ AcknowledgedStays /\ CountedOnce /\ AnswersDistinct

\* A request as SnapshotMap sees it: an INSERT that is not answered yet has had its effect.
Result(q) == IF q.at = "received" THEN [status |-> "open", rows |-> NoRows]
             ELSE IF q.reply.code \in {200, 201, 204, 404}
             THEN [status |-> "done", rows |-> q.reply.rows]
             ELSE [status |-> "error", rows |-> NoRows]
Call(q) == IF q = Idle THEN [op |-> "none", arg |-> 0, result |-> [status |-> "open", rows |-> NoRows]]
           ELSE [op |-> q.op, arg |-> q.arg, result |-> Result(q)]
Calls == [r \in Requests |-> Call(request[r])]

Map == INSTANCE SnapshotMap WITH
  saved <- table,
  used <- 1..sequence,
  Bodies <- {b \in Inputs : Valid(b)},
  calls <- Calls

\* Handlers, statements, failures and crashes together look to clients like the map of
\* SnapshotMap: every call takes effect at one moment or not at all.
ImplementsMap == Map!Spec
=============================================================================
