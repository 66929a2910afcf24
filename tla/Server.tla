------------------------------- MODULE Server -------------------------------
(***************************************************************************)
(* The life of the server process: cmd/loggarr/main.go from the            *)
(* configuration to the shutdown, the migration of the database in         *)
(* internal/storage/storage.go, and requests under way while it stops.     *)
(* The process may be killed between any two steps; Docker (the daemon)    *)
(* restarts it, and may itself be away or not answer.  log.Fatalf ends the *)
(* process without its deferred calls, as a kill does.                     *)
(*                                                                         *)
(* Of a snapshot only the number of its logs and the column log_count are  *)
(* kept; SnapshotStore models how snapshots are saved and read.            *)
(***************************************************************************)
EXTENDS Integers, FiniteSets

CONSTANTS Requests,      \* requests that may be under way at a time
          Free,          \* none is
          Ids,           \* bound: ids of snapshots
          OldIds,        \* those of the database of an older version
          LogsOf(_),     \* LogsOf(id): number of its logs
          Buffers,       \* values of LOG_BUFFER_MAX to start with
          MaxCrashes,    \* bound: kills
          MaxStops,      \* bound: stops by the operator
          MaxOutages,    \* bound: times Docker goes away
          MaxFaults      \* bound: failures of a statement or of a listen

ASSUME IdsAssumption == OldIds \subseteq Ids /\ \A id \in Ids : LogsOf(id) \in Nat
ASSUME BuffersAssumption == Buffers \subseteq Int
ASSUME BoundsAssumption == /\ MaxCrashes \in Nat /\ MaxStops \in Nat
                           /\ MaxOutages \in Nat /\ MaxFaults \in Nat

VARIABLES main,       \* what the main goroutine does next
          listener,   \* of the goroutine that runs e.Start
          timedOut,   \* shutdownCtx has expired, and connections are left
          schema,     \* what the database has: the table, its index, columns
          rows,       \* id -> the count in the row, once the table has log_count
          request,    \* request[r]: Free, or the request and how far it is
          docker,     \* the daemon: up, down, or hung
          buffer,     \* LOG_BUFFER_MAX of this deployment
          wanted,     \* the operator wants the server to run
          acked,      \* history: ids whose save was answered, now or by an older version
          deleted,    \* history: ids a DELETE was executed for
          missed,     \* history: log_count was added and the backfill did not happen
          crashes, stops, outages, faults

process == <<main, listener, timedOut>>
database == <<schema, rows>>
history == <<acked, deleted, missed>>
counts == <<crashes, stops, outages, faults>>
vars == <<main, listener, timedOut, schema, rows, request, docker, buffer, wanted,
          acked, deleted, missed, crashes, stops, outages, faults>>

\* Columns migrate() looks for, in its order; a new table has them all.
Columns == {"description", "log_count", "containers", "levels"}
Whole == {"table", "index"} \cup Columns

Starting == {"load", "ping", "list", "open", "table", "index", "description", "log_count",
             "backfill", "containers", "levels", "listen", "notify"}
Places == Starting \cup {"down", "serving", "draining", "close"}

Row(id, count) == [logs |-> LogsOf(id), count |-> count]
NoRows == [i \in {} |-> Free]

\* A new data directory, or the database of an older version, with or without each column.
Init == /\ main = "down" /\ listener = "none" /\ timedOut = FALSE
        /\ \/ schema = {} /\ rows = NoRows /\ acked = {}
           \/ /\ \E C \in SUBSET Columns :
                   /\ schema = {"table", "index"} \cup C
                   /\ rows = [i \in OldIds |-> Row(i, IF "log_count" \in C THEN LogsOf(i) ELSE 0)]
              /\ acked = OldIds
        /\ request = [r \in Requests |-> Free]
        /\ docker = "up"
        /\ buffer \in Buffers
        /\ wanted = TRUE
        /\ deleted = {} /\ missed = FALSE
        /\ crashes = 0 /\ stops = 0 /\ outages = 0 /\ faults = 0

-----------------------------------------------------------------------------
(* The process ends: a kill, log.Fatalf, or the end of main. *)

Exit == /\ main' = "down" /\ listener' = "none" /\ timedOut' = FALSE
        /\ request' = [r \in Requests |-> Free]
        /\ missed' = (missed \/ main = "backfill")

Crash == /\ main # "down" /\ crashes < MaxCrashes
         /\ crashes' = crashes + 1
         /\ Exit
         /\ UNCHANGED <<database, docker, buffer, wanted, acked, deleted, stops, outages, faults>>

\* docker stop: the signal ends a process that has not called Notify yet, starts the
\* shutdown of one that serves, and is lost on one that is shutting down.
Stop == /\ wanted /\ stops < MaxStops
        /\ wanted' = FALSE
        /\ stops' = stops + 1
        /\ \/ main \in Starting /\ Exit
           \/ /\ main = "serving"
              /\ main' = "draining"
              /\ listener' = "closed"
              /\ UNCHANGED <<timedOut, request, missed>>
           \/ main \in {"down", "draining", "close"} /\ UNCHANGED <<process, request, missed>>
        /\ UNCHANGED <<database, docker, buffer, acked, deleted, crashes, outages, faults>>

WantAgain == /\ ~wanted
             /\ wanted' = TRUE
             /\ UNCHANGED <<process, database, request, docker, buffer, history, counts>>

\* The restart policy of compose.yaml, or docker start.
Start == /\ main = "down" /\ wanted
         /\ main' = "load"
         /\ UNCHANGED <<listener, timedOut, database, request, docker, buffer, wanted, history, counts>>

DockerGoes == /\ docker = "up" /\ outages < MaxOutages
              /\ outages' = outages + 1
              /\ docker' \in {"down", "hung"}
              /\ UNCHANGED <<process, database, request, buffer, wanted, history, crashes, stops, faults>>

DockerReturns == /\ docker # "up"
                 /\ docker' = "up"
                 /\ UNCHANGED <<process, database, request, buffer, wanted, history, counts>>

-----------------------------------------------------------------------------
(* The start. *)

At(place, next) == main = place /\ main' = next /\ UNCHANGED <<listener, timedOut>>
Same == UNCHANGED <<request, docker, buffer, wanted, acked, deleted, crashes, stops, outages>>

Fatal == /\ Exit
         /\ UNCHANGED <<database, docker, buffer, wanted, acked, deleted, counts>>

validate == buffer >= 10 /\ buffer <= 10000

Load == /\ main = "load"
        /\ \/ /\ validate
              /\ At("load", "ping") /\ UNCHANGED <<database, missed, faults>> /\ Same
           \/ ~validate /\ Fatal

\* Neither call has a deadline: with a daemon that does not answer the start waits.
Ping == /\ main = "ping" /\ docker # "hung"
        /\ \/ /\ docker = "up"
              /\ At("ping", "list") /\ UNCHANGED <<database, missed, faults>> /\ Same
           \/ docker = "down" /\ Fatal

ListContainers == /\ main = "list" /\ docker # "hung"
                  /\ \/ /\ docker = "up"
                        /\ At("list", "open") /\ UNCHANGED <<database, missed, faults>> /\ Same
                     \/ docker = "down" /\ Fatal

Open == At("open", "table") /\ UNCHANGED <<database, missed, faults>> /\ Same

\* CREATE TABLE IF NOT EXISTS with every column, then CREATE INDEX IF NOT EXISTS.
CreateTable ==
  /\ At("table", "index")
  /\ schema' = IF "table" \in schema THEN schema ELSE schema \cup {"table"} \cup Columns
  /\ UNCHANGED <<rows, missed, faults>> /\ Same

CreateIndex ==
  /\ At("index", "description")
  /\ schema' = schema \cup {"index"}
  /\ UNCHANGED <<rows, missed, faults>> /\ Same

After == [description |-> "log_count", log_count |-> "containers",
          containers |-> "levels", levels |-> "listen"]

\* Mutant: a table of an older version is not given the column levels.
AddColumnNotLevels(c) ==
  /\ IF c \in schema THEN At(c, After[c])
     ELSE At(c, IF c = "log_count" THEN "backfill" ELSE After[c])
  /\ schema' = IF c = "levels" THEN schema ELSE schema \cup {c}
  /\ UNCHANGED <<rows, missed, faults>> /\ Same

\* Mutant: ALTER TABLE without a look at the columns, which fails on one that is there.
AddColumnUnchecked(c) ==
  IF c \in schema
  THEN main = c /\ Fatal
  ELSE /\ At(c, IF c = "log_count" THEN "backfill" ELSE After[c])
       /\ schema' = schema \cup {c}
       /\ UNCHANGED <<rows, missed, faults>> /\ Same

\* A column that is missing is added; log_count is then filled in by a statement of its own.
AddColumn(c) ==
  /\ IF c \in schema THEN At(c, After[c])
     ELSE At(c, IF c = "log_count" THEN "backfill" ELSE After[c])
  /\ schema' = schema \cup {c}
  /\ UNCHANGED <<rows, missed, faults>> /\ Same

\* Mutant: length(logs), the length of the JSON text.
BackfillLength ==
  /\ At("backfill", "containers")
  /\ rows' = [i \in DOMAIN rows |-> IF rows[i].count = 0 THEN Row(i, rows[i].logs + 2) ELSE rows[i]]
  /\ UNCHANGED <<schema, missed, faults>> /\ Same

Backfill ==
  /\ At("backfill", "containers")
  /\ rows' = [i \in DOMAIN rows |-> IF rows[i].count = 0 THEN Row(i, rows[i].logs) ELSE rows[i]]
  /\ UNCHANGED <<schema, missed, faults>> /\ Same

\* Its error is only printed.
BackfillFails ==
  /\ faults < MaxFaults
  /\ At("backfill", "containers")
  /\ missed' = TRUE
  /\ faults' = faults + 1
  /\ UNCHANGED database /\ Same

\* Mutant: the file of a database that fails is removed, to start afresh.
StorageFailsRemoves ==
  /\ main \in {"open", "table", "index"} \cup Columns
  /\ faults < MaxFaults
  /\ faults' = faults + 1
  /\ schema' = {} /\ rows' = NoRows
  /\ Exit
  /\ UNCHANGED <<docker, buffer, wanted, acked, deleted, crashes, stops, outages>>

\* Any other error of storage.New is fatal.
StorageFails ==
  /\ main \in {"open", "table", "index"} \cup Columns
  /\ faults < MaxFaults
  /\ faults' = faults + 1
  /\ Exit
  /\ UNCHANGED <<database, docker, buffer, wanted, acked, deleted, crashes, stops, outages>>

Migrate == \/ CreateTable \/ CreateIndex \/ Backfill \/ BackfillFails \/ StorageFails
           \/ \E c \in Columns : AddColumn(c)

\* go e.Start(addr), while main goes on to signal.Notify.
GoStart == /\ main = "listen"
           /\ main' = "notify" /\ listener' = "starting"
           /\ UNCHANGED <<timedOut, database, missed, faults>> /\ Same

Notify == At("notify", "serving") /\ UNCHANGED <<database, missed, faults>> /\ Same

Listen == /\ listener = "starting"
          /\ listener' = "open"
          /\ UNCHANGED <<main, timedOut, database, missed, faults>> /\ Same

\* The port is taken: log.Fatalf in the goroutine, wherever main is.
ListenFails == /\ listener = "starting" /\ faults < MaxFaults
               /\ faults' = faults + 1
               /\ Exit
               /\ UNCHANGED <<database, docker, buffer, wanted, acked, deleted, crashes, stops, outages>>

-----------------------------------------------------------------------------
(* Requests. *)

Is(r, op, at) == request[r] # Free /\ request[r].op = op /\ request[r].at = at
Others == UNCHANGED <<process, schema, docker, buffer, wanted, missed, counts>>
Done(r) == request' = [request EXCEPT ![r] = Free]

DockerOps == {"health", "containers", "index"}
Asked == [op : {"save", "delete"}, id : Ids] \cup [op : {"stream"} \cup DockerOps, id : {Free}]

\* A connection that was accepted may bring a request while Shutdown waits for it, and after
\* Shutdown has given up.  A snapshot is saved under an id no other one has or had.
Receive(r, a) ==
  /\ listener = "open" \/ main = "draining" \/ timedOut
  /\ request[r] = Free
  /\ a.op = "save" => /\ a.id \notin DOMAIN rows \cup deleted
                      /\ \A q \in Requests : request[q] # Free => request[q].id # a.id
  /\ request' = [request EXCEPT ![r] = [op |-> a.op, id |-> a.id, at |-> "received"]]
  /\ UNCHANGED <<rows, acked, deleted>> /\ Others

\* Mutant: the INSERT leaves log_count to its default.
InsertNoCount(r) ==
  /\ Is(r, "save", "received") /\ main # "close"
  /\ rows' = [i \in DOMAIN rows \cup {request[r].id} |->
                IF i = request[r].id THEN Row(i, 0) ELSE rows[i]]
  /\ request' = [request EXCEPT ![r].at = "inserted"]
  /\ UNCHANGED <<acked, deleted>> /\ Others

\* The database is there until store.Close, which main calls when it has given up waiting.
Insert(r) ==
  /\ Is(r, "save", "received") /\ main # "close"
  /\ rows' = [i \in DOMAIN rows \cup {request[r].id} |->
                IF i = request[r].id THEN Row(i, LogsOf(i)) ELSE rows[i]]
  /\ request' = [request EXCEPT ![r].at = "inserted"]
  /\ UNCHANGED <<acked, deleted>> /\ Others

AnswerSave(r) ==
  /\ Is(r, "save", "inserted")
  /\ acked' = acked \cup {request[r].id}
  /\ Done(r)
  /\ UNCHANGED <<rows, deleted>> /\ Others

HandleDelete(r) ==
  /\ Is(r, "delete", "received") /\ main # "close"
  /\ rows' = [i \in DOMAIN rows \ {request[r].id} |-> rows[i]]
  /\ deleted' = deleted \cup ({request[r].id} \cap DOMAIN rows)
  /\ Done(r)
  /\ UNCHANGED acked /\ Others

\* sql: database is closed
StoreClosed(r) ==
  /\ Is(r, "save", "received") \/ Is(r, "delete", "received")
  /\ main = "close"
  /\ Done(r)
  /\ UNCHANGED <<rows, acked, deleted>> /\ Others

\* These wait for Docker; what they answer is left out.
AsksDocker(r) ==
  /\ \E op \in DockerOps : Is(r, op, "received")
  /\ docker # "hung"
  /\ Done(r)
  /\ UNCHANGED <<rows, acked, deleted>> /\ Others

\* The context of a request ends what waits for Docker, and a stream, which nothing else ends.
ClientLeaves(r) ==
  /\ \E op \in DockerOps \cup {"stream"} : Is(r, op, "received")
  /\ Done(r)
  /\ UNCHANGED <<rows, acked, deleted>> /\ Others

Handle(r) == Insert(r) \/ AnswerSave(r) \/ HandleDelete(r) \/ StoreClosed(r) \/ AsksDocker(r)

-----------------------------------------------------------------------------
(* The shutdown. *)

\* Mutant: e.Shutdown(context.Background()).
TimedOutNever == /\ main = "draining" /\ \A r \in Requests : request[r] = Free
                 /\ main' = "close" /\ timedOut' = TRUE
                 /\ UNCHANGED <<listener, database, missed, faults>> /\ Same

\* e.Shutdown returns when no request is under way, by the contract of net/http, and has closed
\* every connection then ...
Drained == /\ \A r \in Requests : request[r] = Free
           /\ At("draining", "close")
           /\ UNCHANGED <<database, missed, faults>> /\ Same

\* ... or after ten seconds.
TimedOut == /\ main = "draining"
            /\ main' = "close" /\ timedOut' = TRUE
            /\ UNCHANGED <<listener, database, missed, faults>> /\ Same

\* store.Close and dockerClient.Close have run, and main returns.
Return == main = "close" /\ Fatal

Main == \/ Start \/ Load \/ Ping \/ ListContainers \/ Open \/ Migrate \/ GoStart \/ Notify
        \/ Drained \/ TimedOut \/ Return

Next == \/ Crash \/ Stop \/ WantAgain \/ DockerGoes \/ DockerReturns
        \/ Main \/ Listen \/ ListenFails
        \/ \E r \in Requests : \/ \E a \in Asked : Receive(r, a)
                               \/ Handle(r) \/ ClientLeaves(r)

Spec == Init /\ [][Next]_vars

\* The Go scheduler runs every goroutine that can run, timers fire, and Docker comes back and
\* restarts the process.  Nothing is assumed of clients.
Fairness == /\ WF_vars(Main) /\ WF_vars(Listen) /\ WF_vars(DockerReturns)
            /\ \A r \in Requests : WF_vars(Handle(r))

FairSpec == Spec /\ Fairness

-----------------------------------------------------------------------------
(* Properties. *)

\* Type invariant; a row's count is 0 or the number of its logs, whatever happened to it.
TypeOK ==
  /\ main \in Places /\ listener \in {"none", "starting", "open", "closed"}
  /\ timedOut \in BOOLEAN /\ wanted \in BOOLEAN /\ missed \in BOOLEAN
  /\ schema \subseteq Whole
  /\ DOMAIN rows \subseteq Ids
  /\ \A id \in DOMAIN rows : rows[id].logs = LogsOf(id) /\ rows[id].count \in {0, LogsOf(id)}
  /\ \A r \in Requests : request[r] # Free =>
        /\ request[r] = [op |-> request[r].op, id |-> request[r].id, at |-> request[r].at]
        /\ [op |-> request[r].op, id |-> request[r].id] \in Asked
        /\ request[r].at \in {"received", "inserted"}
  /\ docker \in {"up", "down", "hung"} /\ buffer \in Buffers
  /\ acked \subseteq Ids /\ deleted \subseteq Ids
  /\ crashes \in 0..MaxCrashes /\ stops \in 0..MaxStops
  /\ outages \in 0..MaxOutages /\ faults \in 0..MaxFaults

\* However the earlier starts ended, and whatever version made the database, requests are
\* only served on a table that has its index and every column the queries name.
ServesWholeTable == listener # "none" => schema = Whole

\* No kill, failed start, migration or shutdown takes a snapshot away whose save was answered.
RowsSurvive == \A id \in acked : id \in DOMAIN rows \cup deleted

\* log_count is the number of logs; it may stay 0 for a snapshot of an older version, when the
\* column was added and its backfill failed or was cut short.
CountsRight ==
  "log_count" \in schema =>
    \A id \in DOMAIN rows : \/ rows[id].count = LogsOf(id)
                            \/ id \in OldIds /\ rows[id].count = 0 /\ (missed \/ main = "backfill")

\* What they rest on.  How far a start is says what the database has; without a table there
\* are no rows, and the migration stops at no place before the next one can go on.
Before == [index |-> {"table"},
           description |-> {"table", "index"},
           log_count |-> {"table", "index", "description"},
           backfill |-> {"table", "index", "description", "log_count"},
           containers |-> {"table", "index", "description", "log_count"},
           levels |-> {"table", "index", "description", "log_count", "containers"}]
Listening == {"notify", "serving", "draining", "close"}

SchemaOK == /\ "table" \notin schema => schema = {} /\ DOMAIN rows = {}
            /\ main \in DOMAIN Before => Before[main] \subseteq schema
            /\ main \in Listening \cup {"listen"} => schema = Whole

\* The listener runs while main is past the start, and requests only once it has opened.
GoroutinesOK == /\ listener # "none" <=> main \in Listening
                /\ main \in {"draining", "close"} => listener = "closed"
                /\ timedOut => main = "close"
                /\ request = [r \in Requests |-> request[r]]
                /\ \A r \in Requests : request[r] # Free => listener \in {"open", "closed"}

\* A row about to be acknowledged is there; before log_count is, all rows are of an older version.
RowsOK == /\ \A r \in Requests : Is(r, "save", "inserted") => request[r].id \in DOMAIN rows \cup deleted
          /\ "log_count" \notin schema =>
               \A id \in DOMAIN rows : id \in OldIds /\ rows[id].count = 0

\* Together they are inductive.
IInv == /\ TypeOK /\ SchemaOK /\ GoroutinesOK /\ RowsOK
        /\ RowsSurvive /\ CountsRight

\* A shutdown ends, although streams do not and Docker may not answer.
ShutdownEnds == main = "draining" ~> main = "down"

\* A deployment that is configured rightly comes to serve after every kill, fault and outage:
\* no start leaves a database behind that the next one cannot migrate.
StartsAgain == wanted /\ validate ~> (main = "serving" /\ listener = "open") \/ ~wanted

-----------------------------------------------------------------------------
(* What the repository says and the code does not do. *)

\* storage.go:96: "Backfill log_count from existing logs data".  A start that is killed between
\* the ALTER TABLE and the UPDATE leaves counts of 0 that no later start fills in.
Backfilled == listener = "open" => \A id \in DOMAIN rows : rows[id].count = LogsOf(id)
=============================================================================
