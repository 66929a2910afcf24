---------------------------- MODULE ServerProofs ----------------------------
(***************************************************************************)
(* Proofs about Server, for any number of requests and snapshots, any      *)
(* database of an older version, and any number of kills, stops, outages   *)
(* and faults.                                                             *)
(***************************************************************************)
EXTENDS Server, TLAPS

\* What the operator, Docker and the bounds are: no action of the server depends on more.
OutsideOK == /\ docker \in {"up", "down", "hung"} /\ buffer \in Buffers /\ wanted \in BOOLEAN
             /\ crashes \in 0..MaxCrashes /\ stops \in 0..MaxStops
             /\ outages \in 0..MaxOutages /\ faults \in 0..MaxFaults

\* Every step keeps these.
LEMMA OutsideStep ==
  ASSUME IInv, Next
  PROVE  OutsideOK'
<1> USE BoundsAssumption DEF process, database, history, counts, Same, Others, Fatal
<1>1. OutsideOK
  BY DEF IInv, TypeOK, OutsideOK
<1>2. CASE Crash
  BY <1>1, <1>2 DEF Crash, OutsideOK
<1>3. CASE Stop
  <2>1. wanted' = FALSE /\ stops < MaxStops /\ stops' = stops + 1
        /\ UNCHANGED <<docker, buffer, crashes, outages, faults>>
    BY <1>3 DEF Stop
  <2>2. wanted' \in BOOLEAN
    BY <2>1, Zenon
  <2>3. stops' \in 0..MaxStops
    BY <1>1, <2>1 DEF OutsideOK
  <2> QED
    BY <1>1, <2>1, <2>2, <2>3 DEF OutsideOK
<1>4. CASE WantAgain \/ DockerGoes \/ DockerReturns
  <2>1. CASE WantAgain
    <3>1. wanted' \in BOOLEAN
      BY <2>1, Zenon DEF WantAgain
    <3> QED
      BY <1>1, <2>1, <3>1 DEF WantAgain, OutsideOK
  <2>2. CASE DockerGoes \/ DockerReturns
    BY <1>1, <2>2 DEF DockerGoes, DockerReturns, OutsideOK
  <2> QED
    BY <1>4, <2>1, <2>2
<1>5. CASE Start \/ Load \/ Ping \/ ListContainers \/ Open
  BY <1>1, <1>5 DEF Start, Load, Ping, ListContainers, Open, OutsideOK
<1>6. CASE Migrate
  BY <1>1, <1>6 DEF Migrate, CreateTable, CreateIndex, Backfill, BackfillFails, StorageFails, AddColumn, OutsideOK
<1>7. CASE GoStart \/ Notify \/ Drained \/ TimedOut \/ Return \/ Listen \/ ListenFails
  BY <1>1, <1>7 DEF GoStart, Notify, Drained, TimedOut, Return, Listen, ListenFails, OutsideOK
<1>8. CASE \E r \in Requests : (\E a \in Asked : Receive(r, a)) \/ Handle(r) \/ ClientLeaves(r)
  BY <1>1, <1>8 DEF Receive, Handle, Insert, AnswerSave, HandleDelete, StoreClosed, AsksDocker,
                    ClientLeaves, OutsideOK
<1> QED
  BY <1>2, <1>3, <1>4, <1>5, <1>6, <1>7, <1>8 DEF Next, Main

\* However the process ends, the database stays as it is.
LEMMA ExitStep ==
  ASSUME IInv, OutsideOK', Exit, UNCHANGED <<schema, rows, acked, deleted>>
  PROVE  IInv'
<1>1. TypeOK'
  BY DEF Exit, IInv, TypeOK, OutsideOK, Places
<1>2. SchemaOK'
  BY DEF Exit, IInv, SchemaOK, Before, Listening
<1>3. GoroutinesOK'
  BY DEF Exit, IInv, GoroutinesOK, Listening
<1>4. RowsOK'
  BY DEF Exit, IInv, RowsOK, Is
<1>5. RowsSurvive' /\ CountsRight'
  BY DEF Exit, IInv, RowsSurvive, CountsRight
<1> QED
  BY <1>1, <1>2, <1>3, <1>4, <1>5 DEF IInv

\* Whoever looks on changes nothing.
LEMMA OutsideOnly ==
  ASSUME IInv, OutsideOK', UNCHANGED <<process, database, request, acked, deleted, missed>>
  PROVE  IInv'
<1> USE DEF process, database
<1>1. TypeOK'
  BY DEF IInv, TypeOK, OutsideOK
<1>2. SchemaOK' /\ GoroutinesOK'
  BY DEF IInv, SchemaOK, GoroutinesOK
<1>3. RowsOK' /\ RowsSurvive' /\ CountsRight'
  BY DEF IInv, RowsOK, Is, RowsSurvive, CountsRight
<1> QED
  BY <1>1, <1>2, <1>3 DEF IInv

\* Before it listens the main goroutine is alone: no request is under way.
LEMMA Alone ==
  ASSUME IInv, main \notin Listening
  PROVE  listener = "none" /\ \A r \in Requests : request[r] = Free
BY DEF IInv, GoroutinesOK

\* The main goroutine goes on, and the database has what the next place needs.
LEMMA MainStep ==
  ASSUME IInv, OutsideOK', NEW place, NEW next, place \notin Listening \cup {"backfill"}, next \in Starting,
         next \notin Listening,
         At(place, next), schema' \subseteq Whole, schema \subseteq schema',
         "table" \in schema' \/ UNCHANGED schema,
         next \in DOMAIN Before => Before[next] \subseteq schema',
         next = "listen" => schema' = Whole,
         "log_count" \in schema' => "log_count" \in schema \/ next = "backfill" \/ DOMAIN rows = {},
         UNCHANGED <<rows, request, acked, deleted, missed>>
  PROVE  IInv'
<1>1. TypeOK'
  BY DEF At, IInv, TypeOK, OutsideOK, Places
<1>2. SchemaOK'
  BY DEF At, IInv, SchemaOK
<1>3. GoroutinesOK'
  BY Alone DEF At, IInv, GoroutinesOK, Listening
<1>4. RowsOK'
  BY DEF At, IInv, RowsOK, Is
<1>5. RowsSurvive'
  BY DEF At, IInv, RowsSurvive, Listening
<1>6. CountsRight'
  BY DEF At, IInv, RowsOK, CountsRight
<1> QED
  BY <1>1, <1>2, <1>3, <1>4, <1>5, <1>6 DEF IInv

\* The steps of a start up to the listener, one place after the other.
LEMMA StartStep ==
  ASSUME IInv, OutsideOK',
         \/ Start \/ Load \/ Ping \/ ListContainers \/ Open
         \/ CreateTable \/ CreateIndex \/ \E c \in Columns : AddColumn(c)
  PROVE  IInv'
<1> USE DEF process, database, history, counts, Same
<1>1. schema \subseteq Whole /\ ("table" \notin schema => DOMAIN rows = {})
  BY DEF IInv, TypeOK, SchemaOK
<1>2. ASSUME NEW place, NEW next, At(place, next), UNCHANGED <<schema, rows, missed, faults>>, Same,
             <<place, next>> \in {<<"down", "load">>, <<"load", "ping">>, <<"ping", "list">>,
                                  <<"list", "open">>, <<"open", "table">>}
      PROVE  IInv'
  <2>1. /\ place \notin Listening \cup {"backfill"} /\ next \in Starting /\ next \notin Listening
        /\ next \notin DOMAIN Before /\ next # "listen"
    BY <1>2 DEF Listening, Starting, Before
  <2>2. UNCHANGED <<rows, request, acked, deleted, missed>>
    BY <1>2
  <2> QED
    BY <1>1, <1>2, <2>1, <2>2, MainStep
<1>3. CASE Fatal
  BY <1>3, ExitStep DEF Fatal
<1>4. CASE Start
  <2>1. At("down", "load") /\ UNCHANGED <<schema, rows, missed, faults>> /\ Same
    BY <1>4 DEF Start, At
  <2> QED
    BY <1>2, <2>1
<1>5. CASE Load \/ Ping \/ ListContainers \/ Open
  BY <1>2, <1>3, <1>5 DEF Load, Ping, ListContainers, Open
<1>6. CASE CreateTable
  <2>1. At("table", "index") /\ UNCHANGED <<rows, request, acked, deleted, missed>>
    BY <1>6 DEF CreateTable
  <2>2. schema' = IF "table" \in schema THEN schema ELSE schema \cup {"table"} \cup Columns
    BY <1>6 DEF CreateTable
  <2>3. /\ schema' \subseteq Whole /\ schema \subseteq schema' /\ "table" \in schema'
        /\ "log_count" \in schema' => "log_count" \in schema \/ DOMAIN rows = {}
    BY <1>1, <2>2 DEF Whole
  <2>4. /\ "table" \notin Listening \cup {"backfill"} /\ "index" \in Starting
        /\ "index" \notin Listening /\ Before["index"] = {"table"} /\ "index" # "listen"
    BY DEF Listening, Starting, Before
  <2> QED
    BY <2>1, <2>3, <2>4, MainStep
<1>7. CASE CreateIndex
  <2>1. /\ At("index", "description") /\ UNCHANGED <<rows, request, acked, deleted, missed>>
        /\ schema' = schema \cup {"index"}
    BY <1>7 DEF CreateIndex
  <2>2. "table" \in schema
    BY <2>1 DEF At, IInv, SchemaOK, Before
  <2>3. /\ "index" \notin Listening \cup {"backfill"} /\ "description" \in Starting
        /\ "description" \notin Listening /\ Before["description"] = {"table", "index"}
        /\ "description" # "listen"
    BY DEF Listening, Starting, Before
  <2>4. schema' \subseteq Whole
    BY <1>1, <2>1 DEF Whole
  <2> QED
    BY <2>1, <2>2, <2>3, <2>4, MainStep
<1>8. ASSUME NEW c \in Columns, AddColumn(c)
      PROVE  IInv'
  <2> DEFINE next == IF c = "log_count" /\ c \notin schema THEN "backfill" ELSE After[c]
  <2>1. /\ At(c, next) /\ UNCHANGED <<rows, request, acked, deleted, missed>>
        /\ schema' = schema \cup {c}
    BY <1>8 DEF AddColumn
  <2>2. c \in DOMAIN Before /\ Before[c] \subseteq schema
    BY <2>1 DEF At, IInv, SchemaOK, Before, Columns
  <2>3. c \notin Listening \cup {"backfill"} /\ next \in Starting /\ next \notin Listening
    BY DEF Columns, Listening, Starting, After
  <2>4. schema' \subseteq Whole /\ schema \subseteq schema' /\ "table" \in schema'
    BY <1>1, <2>1, <2>2 DEF Whole, Columns, Before
  <2>5. next \in DOMAIN Before => Before[next] \subseteq schema'
    BY <2>1, <2>2 DEF Before, Columns, After
  <2>6. next = "listen" => schema' = Whole
    <3> SUFFICES ASSUME next = "listen"
                 PROVE  schema' = Whole
      OBVIOUS
    <3>1. c = "levels"
      BY DEF Columns, After
    <3>2. {"table", "index", "description", "log_count", "containers"} \subseteq schema
      BY <2>2, <3>1 DEF Before
    <3> QED
      BY <2>1, <2>4, <3>1, <3>2 DEF Whole, Columns
  <2>7. "log_count" \in schema' => "log_count" \in schema \/ next = "backfill"
    BY <2>1
  <2> HIDE DEF next
  <2> QED
    BY <2>1, <2>3, <2>4, <2>5, <2>6, <2>7, MainStep
<1> QED
  BY <1>4, <1>5, <1>6, <1>7, <1>8

\* A backfill makes the counts right; one that fails is remembered.
LEMMA BackfillStep ==
  ASSUME IInv, OutsideOK', Backfill \/ BackfillFails
  PROVE  IInv'
<1> USE DEF database, Same
<1>1. /\ main = "backfill" /\ main' = "containers" /\ UNCHANGED <<listener, timedOut>>
      /\ UNCHANGED <<schema, request, acked, deleted>>
  BY DEF Backfill, BackfillFails, At
<1>2. /\ DOMAIN rows' = DOMAIN rows
      /\ \A id \in DOMAIN rows : rows'[id].logs = LogsOf(id) /\ rows'[id].count \in {0, LogsOf(id)}
  BY DEF Backfill, BackfillFails, Row, IInv, TypeOK
<1>3. missed' \in BOOLEAN
  BY DEF Backfill, BackfillFails, IInv, TypeOK
<1>4. listener = "none" /\ \A r \in Requests : request[r] = Free
  BY <1>1, Alone DEF Listening
<1>5. TypeOK'
  BY <1>1, <1>2, <1>3 DEF IInv, TypeOK, OutsideOK, Places, Starting
<1>6. SchemaOK'
  BY <1>1, <1>2 DEF IInv, SchemaOK, Before, Listening
<1>7. GoroutinesOK'
  BY <1>1, <1>4 DEF IInv, GoroutinesOK, Listening
<1>8. RowsOK'
  BY <1>1, <1>4 DEF IInv, RowsOK, SchemaOK, Before, Is
<1>9. RowsSurvive'
  BY <1>1, <1>2 DEF IInv, RowsSurvive
<1>10. CountsRight'
  <2>1. CASE Backfill
    <3>1. \A id \in DOMAIN rows : rows'[id].count = LogsOf(id)
      BY <2>1 DEF Backfill, Row, IInv, TypeOK
    <3> QED
      BY <1>2, <3>1 DEF CountsRight
  <2>2. CASE BackfillFails
    BY <1>1, <2>2 DEF BackfillFails, IInv, CountsRight
  <2> QED
    BY <2>1, <2>2
<1> QED
  BY <1>5, <1>6, <1>7, <1>8, <1>9, <1>10 DEF IInv

\* The listener starts, opens and closes; main goes on until the database is closed.
LEMMA ListenStep ==
  ASSUME IInv, OutsideOK',
         \/ GoStart \/ Notify \/ Listen \/ Drained \/ TimedOut
         \/ /\ main = "serving" /\ main' = "draining" /\ listener' = "closed"
            /\ UNCHANGED <<timedOut, database, request, acked, deleted, missed>>
  PROVE  IInv'
<1> USE DEF database, Same
<1>1. UNCHANGED <<schema, rows, request, acked, deleted, missed>> /\ timedOut' \in BOOLEAN
  BY DEF GoStart, Notify, Listen, Drained, TimedOut, At, IInv, TypeOK
<1>2. /\ main \in Listening \cup {"listen"} /\ main' \in Listening
      /\ listener' \in {"starting", "open", "closed"}
      /\ main' \in {"draining", "close"} => listener' = "closed"
      /\ listener \in {"open", "closed"} => listener' \in {"open", "closed"}
      /\ timedOut' => main' = "close"
  <2> USE DEF Listening
  <2>1. /\ listener # "none" <=> main \in Listening
        /\ main \in {"draining", "close"} => listener = "closed"
        /\ listener \in {"none", "starting", "open", "closed"}
        /\ timedOut => main = "close"
    BY DEF IInv, TypeOK, GoroutinesOK
  <2>2. CASE GoStart
    BY <2>1, <2>2 DEF GoStart
  <2>3. CASE Notify
    <3>1. listener # "none"
      BY <2>3 DEF Notify, At, IInv, GoroutinesOK
    <3> QED
      BY <2>1, <2>3, <3>1 DEF Notify, At
  <2>4. CASE Listen
    BY <2>1, <2>4 DEF Listen
  <2>5. CASE Drained \/ TimedOut
    BY <2>1, <2>5 DEF Drained, TimedOut, At
  <2>6. CASE main = "serving" /\ main' = "draining" /\ listener' = "closed" /\ UNCHANGED timedOut
    BY <2>1, <2>6
  <2> QED
    BY <2>2, <2>3, <2>4, <2>5, <2>6
<1>3. TypeOK'
  BY <1>1, <1>2 DEF IInv, TypeOK, OutsideOK, Places, Starting, Listening
<1>4. SchemaOK'
  BY <1>1, <1>2 DEF IInv, SchemaOK, Before, Listening, Whole
<1>5. GoroutinesOK'
  BY <1>1, <1>2 DEF IInv, GoroutinesOK
<1>6. RowsOK' /\ RowsSurvive'
  BY <1>1 DEF IInv, RowsOK, RowsSurvive, Is
<1>7. CountsRight'
  BY <1>1, <1>2 DEF IInv, CountsRight, Listening
<1> QED
  BY <1>3, <1>4, <1>5, <1>6, <1>7 DEF IInv

\* A request that is received, or ends, without an effect on the database.
LEMMA RequestOnly ==
  ASSUME IInv, OutsideOK', NEW r \in Requests, NEW new, request' = [request EXCEPT ![r] = new],
         listener \in {"open", "closed"},
         new # Free => /\ new = [op |-> new.op, id |-> new.id, at |-> "received"]
                       /\ [op |-> new.op, id |-> new.id] \in Asked,
         UNCHANGED <<process, database, acked, deleted, missed>>
  PROVE  IInv'
<1> USE DEF process, database
<1>1. /\ request' = [q \in Requests |-> request'[q]]
      /\ request'[r] = new /\ \A q \in Requests \ {r} : request'[q] = request[q]
  BY DEF IInv, GoroutinesOK
<1>2. TypeOK'
  <2>1. \A q \in Requests : request'[q] # Free =>
          /\ request'[q] = [op |-> request'[q].op, id |-> request'[q].id, at |-> request'[q].at]
          /\ [op |-> request'[q].op, id |-> request'[q].id] \in Asked
          /\ request'[q].at \in {"received", "inserted"}
    <3>1. new # Free => /\ new = [op |-> new.op, id |-> new.id, at |-> new.at]
                        /\ new.at = "received" /\ [op |-> new.op, id |-> new.id] \in Asked
      OBVIOUS
    <3> QED
      BY <1>1, <3>1 DEF IInv, TypeOK
  <2> QED
    BY <2>1 DEF IInv, TypeOK, OutsideOK
<1>3. SchemaOK' /\ GoroutinesOK'
  BY <1>1 DEF IInv, SchemaOK, GoroutinesOK
<1>4. RowsOK'
  BY <1>1 DEF IInv, RowsOK, Is
<1>5. RowsSurvive' /\ CountsRight'
  BY DEF IInv, RowsSurvive, CountsRight
<1> QED
  BY <1>2, <1>3, <1>4, <1>5 DEF IInv

\* Requests are under way while the listener is there, on a table that is whole.
LEMMA UnderWay ==
  ASSUME IInv, NEW r \in Requests, request[r] # Free
  PROVE  listener \in {"open", "closed"} /\ schema = Whole /\ "log_count" \in schema
BY DEF IInv, GoroutinesOK, SchemaOK, Whole, Columns

\* A request of a kind that waits, or that finds the database closed, ends as it is.
LEMMA PlainStep ==
  ASSUME IInv, OutsideOK', NEW r \in Requests,
         \/ \E a \in Asked : Receive(r, a)
         \/ StoreClosed(r) \/ AsksDocker(r) \/ ClientLeaves(r)
  PROVE  IInv'
<1> USE DEF Others, database
<1>1. ASSUME NEW a \in Asked, Receive(r, a)
      PROVE  IInv'
  <2> DEFINE new == [op |-> a.op, id |-> a.id, at |-> "received"]
  <2>1. /\ new = [op |-> new.op, id |-> new.id, at |-> "received"]
        /\ [op |-> new.op, id |-> new.id] \in Asked
    BY DEF Asked
  <2>2. /\ request' = [request EXCEPT ![r] = new]
        /\ UNCHANGED <<process, database, acked, deleted, missed>>
    BY <1>1 DEF Receive
  <2>3. listener \in {"open", "closed"}
    BY <1>1 DEF Receive, IInv, GoroutinesOK
  <2> HIDE DEF new
  <2> QED
    BY <2>1, <2>2, <2>3, RequestOnly
<1>2. CASE StoreClosed(r) \/ AsksDocker(r) \/ ClientLeaves(r)
  <2>1. /\ request[r] # Free /\ request' = [request EXCEPT ![r] = Free]
        /\ UNCHANGED <<process, database, acked, deleted, missed>>
    BY <1>2 DEF StoreClosed, AsksDocker, ClientLeaves, Is, Done
  <2> QED
    BY <2>1, UnderWay, RequestOnly
<1> QED
  BY <1>1, <1>2

\* An INSERT adds a row with its count, which is answered only then.
LEMMA InsertStep ==
  ASSUME IInv, OutsideOK', NEW r \in Requests, Insert(r)
  PROVE  IInv'
<1> USE DEF Others, process
<1> DEFINE id == request[r].id
<1>1. /\ request[r] # Free /\ request[r].op = "save" /\ request[r].at = "received" /\ main # "close"
      /\ [op |-> request[r].op, id |-> id] \in Asked
      /\ UNCHANGED <<main, listener, timedOut, schema, acked, deleted, missed>>
  BY DEF Insert, Is, IInv, TypeOK
<1>2. id \in Ids
  BY <1>1 DEF Asked, DockerOps
<1>3. /\ DOMAIN rows' = DOMAIN rows \cup {id} /\ rows'[id] = Row(id, LogsOf(id))
      /\ \A i \in DOMAIN rows \ {id} : rows'[i] = rows[i]
  BY DEF Insert
<1>4. /\ request' = [q \in Requests |-> request'[q]]
      /\ request'[r] = [op |-> "save", id |-> id, at |-> "inserted"]
      /\ \A q \in Requests \ {r} : request'[q] = request[q]
  <2>1. request[r] = [op |-> "save", id |-> id, at |-> "received"]
    BY <1>1 DEF IInv, TypeOK
  <2> QED
    BY <2>1 DEF Insert, IInv, GoroutinesOK
<1> HIDE DEF id
<1>5. schema = Whole /\ "log_count" \in schema /\ listener \in {"open", "closed"}
  BY <1>1, UnderWay
<1>6. TypeOK'
  <2>1. \A q \in Requests : request'[q] # Free =>
          /\ request'[q] = [op |-> request'[q].op, id |-> request'[q].id, at |-> request'[q].at]
          /\ [op |-> request'[q].op, id |-> request'[q].id] \in Asked
          /\ request'[q].at \in {"received", "inserted"}
    <3>1. /\ request'[r].op = "save" /\ request'[r].id = id /\ request'[r].at = "inserted"
          /\ [op |-> "save", id |-> id] \in Asked
      BY <1>1, <1>4
    <3>2. \A q \in Requests \ {r} : request[q] # Free =>
            /\ request[q] = [op |-> request[q].op, id |-> request[q].id, at |-> request[q].at]
            /\ [op |-> request[q].op, id |-> request[q].id] \in Asked
            /\ request[q].at \in {"received", "inserted"}
      BY DEF IInv, TypeOK
    <3> QED
      BY <1>4, <3>1, <3>2
  <2>2. /\ DOMAIN rows' \subseteq Ids
        /\ \A i \in DOMAIN rows' : rows'[i].logs = LogsOf(i) /\ rows'[i].count \in {0, LogsOf(i)}
    <3>1. DOMAIN rows' \subseteq Ids
      BY <1>2, <1>3 DEF IInv, TypeOK
    <3>2. rows'[id].logs = LogsOf(id) /\ rows'[id].count \in {0, LogsOf(id)}
      BY <1>3 DEF Row
    <3>3. \A i \in DOMAIN rows \ {id} : rows'[i].logs = LogsOf(i) /\ rows'[i].count \in {0, LogsOf(i)}
      BY <1>3 DEF IInv, TypeOK
    <3> QED
      BY <1>3, <3>1, <3>2, <3>3
  <2> QED
    BY <1>1, <2>1, <2>2 DEF IInv, TypeOK, OutsideOK
<1>7. SchemaOK'
  BY <1>1, <1>5 DEF IInv, SchemaOK, Whole
<1>8. GoroutinesOK'
  BY <1>1, <1>4, <1>5 DEF IInv, GoroutinesOK
<1>9. RowsOK'
  BY <1>1, <1>3, <1>4, <1>5 DEF IInv, RowsOK, Is, id
<1>10. RowsSurvive'
  BY <1>1, <1>3 DEF IInv, RowsSurvive
<1>11. CountsRight'
  BY <1>1, <1>3, <1>5 DEF IInv, CountsRight, Row
<1> QED
  BY <1>6, <1>7, <1>8, <1>9, <1>10, <1>11 DEF IInv

\* What is answered is there, and what is taken away was asked to be deleted.
LEMMA AnswerStep ==
  ASSUME IInv, OutsideOK', NEW r \in Requests, AnswerSave(r) \/ HandleDelete(r)
  PROVE  IInv'
<1> USE DEF Others, process
<1>1. /\ request[r] # Free /\ request' = [request EXCEPT ![r] = Free]
      /\ UNCHANGED <<main, listener, timedOut, schema, missed>>
  BY DEF AnswerSave, HandleDelete, Is, Done
<1>2. /\ request' = [q \in Requests |-> request'[q]]
      /\ request'[r] = Free /\ \A q \in Requests \ {r} : request'[q] = request[q]
  BY <1>1 DEF IInv, GoroutinesOK
<1>3. schema = Whole /\ "log_count" \in schema /\ listener \in {"open", "closed"}
  BY <1>1, UnderWay
<1>4. /\ DOMAIN rows' \subseteq DOMAIN rows /\ \A i \in DOMAIN rows' : rows'[i] = rows[i]
      /\ DOMAIN rows \cup deleted = DOMAIN rows' \cup deleted'
      /\ acked' \subseteq DOMAIN rows \cup deleted /\ deleted' \subseteq deleted \cup DOMAIN rows
  <2>1. CASE AnswerSave(r)
    BY <2>1 DEF AnswerSave, IInv, RowsOK, RowsSurvive
  <2>2. CASE HandleDelete(r)
    BY <2>2 DEF HandleDelete, IInv, RowsSurvive
  <2> QED
    BY <2>1, <2>2
<1>5. TypeOK'
  BY <1>1, <1>2, <1>4 DEF IInv, TypeOK, OutsideOK
<1>6. SchemaOK' /\ GoroutinesOK'
  BY <1>1, <1>2, <1>3 DEF IInv, SchemaOK, GoroutinesOK, Whole
<1>7. RowsOK'
  BY <1>1, <1>2, <1>3, <1>4 DEF IInv, RowsOK, Is
<1>8. RowsSurvive'
  BY <1>4 DEF RowsSurvive
<1>9. CountsRight'
  BY <1>1, <1>2, <1>4 DEF IInv, CountsRight
<1> QED
  BY <1>5, <1>6, <1>7, <1>8, <1>9 DEF IInv

\* Every step keeps the invariant, whoever takes it.
LEMMA NextHolds ==
  ASSUME IInv, [Next]_vars
  PROVE  IInv'
<1>1. CASE Next
  <2>1. OutsideOK'
    BY <1>1, OutsideStep
  <2> USE DEF database
  <2>2. CASE Crash
    BY <2>1, <2>2, ExitStep DEF Crash
  <2>3. CASE Stop
    <3>1. UNCHANGED <<schema, rows, acked, deleted>>
      BY <2>3 DEF Stop
    <3>2. \/ Exit
          \/ /\ main = "serving" /\ main' = "draining" /\ listener' = "closed"
             /\ UNCHANGED <<timedOut, request, missed>>
          \/ UNCHANGED <<process, request, missed>>
      BY <2>3 DEF Stop
    <3> QED
      BY <2>1, <3>1, <3>2, ExitStep, ListenStep, OutsideOnly
  <2>4. CASE WantAgain \/ DockerGoes \/ DockerReturns
    BY <2>1, <2>4, OutsideOnly DEF WantAgain, DockerGoes, DockerReturns, history
  <2>5. CASE StorageFails \/ ListenFails \/ Return
    BY <2>1, <2>5, ExitStep DEF StorageFails, ListenFails, Return, Fatal
  <2>6. CASE \E r \in Requests : (\E a \in Asked : Receive(r, a)) \/ Handle(r) \/ ClientLeaves(r)
    BY <2>1, <2>6, PlainStep, InsertStep, AnswerStep DEF Handle
  <2> QED
    BY <1>1, <2>1, <2>2, <2>3, <2>4, <2>5, <2>6, StartStep, BackfillStep, ListenStep
       DEF Next, Main, Migrate
<1>2. CASE UNCHANGED vars
  <2>1. OutsideOK'
    BY <1>2 DEF vars, IInv, TypeOK, OutsideOK
  <2> QED
    BY <1>2, <2>1, OutsideOnly DEF vars, process, database
<1> QED
  BY <1>1, <1>2

\* It holds of a new data directory and of the database of any older version.
LEMMA InitHolds ==
  ASSUME Init
  PROVE  IInv
<1>1. /\ main = "down" /\ listener = "none" /\ timedOut = FALSE /\ missed = FALSE /\ deleted = {}
      /\ request = [r \in Requests |-> Free] /\ wanted = TRUE
  BY DEF Init
<1>2. schema \subseteq Whole /\ acked \subseteq DOMAIN rows /\ DOMAIN rows \subseteq OldIds
  BY DEF Init, NoRows, Whole, Columns
<1>3. "table" \notin schema => schema = {} /\ DOMAIN rows = {}
  BY DEF Init, NoRows
<1>4. \A id \in DOMAIN rows : /\ rows[id].logs = LogsOf(id)
                              /\ rows[id].count = IF "log_count" \in schema THEN LogsOf(id) ELSE 0
  <2>1. CASE schema = {} /\ rows = NoRows
    BY <2>1 DEF NoRows
  <2>2. CASE \E C \in SUBSET Columns :
               /\ schema = {"table", "index"} \cup C
               /\ rows = [i \in OldIds |-> Row(i, IF "log_count" \in C THEN LogsOf(i) ELSE 0)]
    BY <2>2 DEF Row
  <2> QED
    BY <2>1, <2>2 DEF Init
<1>5. TypeOK
  <2>1. timedOut \in BOOLEAN /\ wanted \in BOOLEAN /\ missed \in BOOLEAN
    BY <1>1, Zenon
  <2> QED
    BY <1>1, <1>2, <1>4, <2>1, IdsAssumption, BoundsAssumption DEF Init, TypeOK, Places
<1>6. SchemaOK
  BY <1>1, <1>3 DEF SchemaOK, Before, Listening
<1>7. GoroutinesOK
  BY <1>1 DEF GoroutinesOK, Listening
<1>8. RowsOK
  BY <1>1, <1>2, <1>4 DEF RowsOK, Is
<1>9. RowsSurvive /\ CountsRight
  BY <1>1, <1>2, <1>4 DEF RowsSurvive, CountsRight
<1> QED
  BY <1>5, <1>6, <1>7, <1>8, <1>9 DEF IInv

\* The inductive invariant of the server, for every database it may find and every bound.
THEOREM Invariance == Spec => []IInv
  BY InitHolds, NextHolds, PTL DEF Spec

\* What the variables hold; every count is 0 or right.
THEOREM TypeCorrect == Spec => []TypeOK
<1>1. IInv => TypeOK
  BY DEF IInv
<1> QED
  BY <1>1, Invariance, PTL

\* Requests are served only on a table that has its index and all its columns.
THEOREM Migrated == Spec => []ServesWholeTable
<1>1. IInv => ServesWholeTable
  BY DEF IInv, SchemaOK, GoroutinesOK, ServesWholeTable
<1> QED
  BY <1>1, Invariance, PTL

\* An acknowledged snapshot is there until it is deleted, over every kill and start.
THEOREM Survival == Spec => []RowsSurvive
<1>1. IInv => RowsSurvive
  BY DEF IInv
<1> QED
  BY <1>1, Invariance, PTL

\* log_count is right but for rows of an older version whose backfill was missed.
THEOREM Counts == Spec => []CountsRight
<1>1. IInv => CountsRight
  BY DEF IInv
<1> QED
  BY <1>1, Invariance, PTL
=============================================================================
