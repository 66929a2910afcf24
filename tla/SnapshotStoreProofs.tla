------------------------ MODULE SnapshotStoreProofs ------------------------
(***************************************************************************)
(* Proofs about SnapshotStore, for any number of requests, ids, logs and   *)
(* crashes.                                                                *)
(***************************************************************************)
EXTENDS SnapshotStore, FiniteSetTheorems, SequenceTheorems, TLAPS

\* What Asked is made of.
LEMMA AskedShape ==
  ASSUME NEW a \in Asked
  PROVE  /\ a = [op |-> a.op, arg |-> a.arg]
         /\ a.op \in {"save", "get", "delete", "list"}
         /\ a.op = "save" => a.arg \in Inputs
         /\ a.op \in {"get", "delete"} => a.arg \in 1..MaxIds \cup {Malformed}
  BY DEF Asked

\* What is kept of a valid body is a row of the table.
LEMMA KeptOK ==
  ASSUME NEW body \in Inputs, Valid(body)
  PROVE  /\ body \in Bodies
         /\ Kept(body) = Row(body.name, Truncate(body.logs))
         /\ Kept(body) \in Rows
<1>1. body \in Bodies /\ body.name \in Names /\ body.logs \in Seq(Messages) /\ Len(body.logs) \in 0..MaxLogs
  BY InputsAssumption, BoundsAssumption DEF Valid, Bodies
<1>2. DOMAIN body.logs = 1..Len(body.logs) /\ Len(body.logs) \in Nat
  BY <1>1
<1> DEFINE kept == [k \in 1..Len(body.logs) |-> Stored(body.logs[k])]
<1>3. \A k \in 1..Len(body.logs) : Stored(body.logs[k]) \in Messages
  BY <1>1, StoredAssumption
<1>4. kept \in [1..Len(body.logs) -> Messages]
  BY <1>3
<1>5. kept \in Seq(Messages) /\ Len(kept) = Len(body.logs)
  <2>1. kept \in Seq(Messages)
    BY <1>2, <1>4, SeqDef
  <2>2. DOMAIN kept = 1..Len(body.logs)
    OBVIOUS
  <2> QED
    BY <1>2, <2>1, <2>2, LenProperties
<1>6. Truncate(body.logs) = kept /\ Kept(body) = Row(body.name, kept)
  BY <1>2 DEF Truncate, Kept
<1> HIDE DEF kept
<1> QED
  BY <1>1, <1>5, <1>6 DEF Row, Rows

\* A step that changes one request.
LEMMA OneRequest ==
  ASSUME RequestsOK, NEW r \in Requests, NEW new, request' = [request EXCEPT ![r] = new]
  PROVE  /\ request' = [q \in Requests |-> request'[q]]
         /\ request'[r] = new
         /\ \A q \in Requests \ {r} : request'[q] = request[q]
  BY DEF RequestsOK

\* What Advance makes of a request.
LEMMA AdvanceShape ==
  ASSUME RequestsOK, NEW r \in Requests, NEW at, NEW reply, Advance(r, at, reply)
  PROVE  /\ request' = [q \in Requests |-> request'[q]]
         /\ request'[r] = [op |-> request[r].op, arg |-> request[r].arg, at |-> at, reply |-> reply]
         /\ \A q \in Requests \ {r} : request'[q] = request[q]
  BY DEF RequestsOK, Advance

\* A request whose reply carries no new id may begin, be answered and end without effect.
LEMMA Quiet ==
  ASSUME IInv, up, NEW r \in Requests, NEW new,
         request' = [q \in Requests |-> request'[q]],
         request'[r] = new,
         \A q \in Requests \ {r} : request'[q] = request[q],
         UNCHANGED <<up, database, counted, history>>,
         new # Idle => /\ [op |-> new.op, arg |-> new.arg] \in Asked
                       /\ new.at \in {"received", "answered"}
                       /\ new.reply.code \in Codes
                       /\ DOMAIN new.reply.rows \subseteq 1..sequence
                       /\ RequestOK(new),
         new.at # "inserted", request[r].at # "inserted",
         new.op = "save" => DOMAIN new.reply.rows = {}
  PROVE  IInv'
<1> USE DEF database, history
<1>1. TypeOK'
  BY DEF IInv, TypeOK
<1>2. RequestsOK'
  <2> SUFFICES ASSUME NEW q \in Requests, request'[q] # Idle
               PROVE  up' /\ RequestOK(request[q])'
    BY DEF RequestsOK
  <2>1. RequestOK(request'[q])
    BY DEF IInv, RequestsOK
  <2> QED
    BY <2>1 DEF RequestOK, Holds
<1>3. AcknowledgedStays'
  BY DEF IInv, AcknowledgedStays
<1>4. CountedOnce'
  <2>1. Inserted' = Inserted
    BY DEF Inserted
  <2> QED
    BY <2>1 DEF IInv, CountedOnce
<1>5. AnswersDistinct'
  BY DEF IInv, AnswersDistinct
<1> QED
  BY <1>1, <1>2, <1>3, <1>4, <1>5 DEF IInv

\* A statement that changes nothing, or none at all, and an answer that is no 201.
LEMMA Answering ==
  ASSUME IInv, NEW r \in Requests, request[r].at = "received",
         NEW code \in Codes \ {201}, NEW rows, DOMAIN rows \subseteq 1..sequence,
         request[r].op = "save" => DOMAIN rows = {},
         Answer(r, code, rows), UNCHANGED <<up, database, counted, history>>
  PROVE  IInv'
<1> DEFINE new == [op |-> request[r].op, arg |-> request[r].arg, at |-> "answered",
                   reply |-> Reply(code, rows)]
<1>1. request[r] # Idle /\ up
  BY DEF Idle, IInv, RequestsOK
<1>2. /\ request' = [q \in Requests |-> request'[q]]
      /\ request'[r] = new
      /\ \A q \in Requests \ {r} : request'[q] = request[q]
  BY AdvanceShape DEF Answer, IInv
<1>3. /\ new.op = request[r].op /\ new.arg = request[r].arg /\ new.at = "answered"
      /\ new.reply = Reply(code, rows) /\ new.reply.code = code /\ new.reply.rows = rows
  BY DEF Reply
<1>4. [op |-> new.op, arg |-> new.arg] \in Asked
  BY <1>1 DEF IInv, TypeOK
<1>5. RequestOK(new)
  BY <1>3 DEF RequestOK
<1> HIDE DEF new
<1> QED
  BY <1>1, <1>2, <1>3, <1>4, <1>5, Quiet

\* A client is told what it is told.
LEMMA RespondStep ==
  ASSUME IInv, NEW r \in Requests, Respond(r)
  PROVE  IInv'
<1> USE DEF database
<1>1. request[r] # Idle /\ up /\ RequestOK(request[r])
  BY DEF Respond, Idle, IInv, RequestsOK
<1>2. /\ request' = [q \in Requests |-> request'[q]]
      /\ request'[r] = Idle
      /\ \A q \in Requests \ {r} : request'[q] = request[q]
  BY DEF Respond, IInv, RequestsOK
<1>3. CASE request[r].reply.code # 201
  <2>1. UNCHANGED <<up, database, counted, history>>
    BY <1>3 DEF Respond, history
  <2>2. Idle.at = "idle" /\ Idle.op = "none"
    BY DEF Idle
  <2>3. request[r].at # "inserted"
    BY DEF Respond
  <2> QED
    BY <1>1, <1>2, <2>1, <2>2, <2>3, Quiet
<1>4. CASE request[r].reply.code = 201
  <2>1. PICK i \in 1..sequence : DOMAIN request[r].reply.rows = {i} /\ Holds(i, Kept(request[r].arg))
    BY <1>1, <1>4 DEF RequestOK
  <2>2. request[r].op = "save" /\ Valid(request[r].arg)
    BY <1>1, <1>4 DEF RequestOK
  <2>3. Kept(request[r].arg) \in Rows
    <3>1. [op |-> request[r].op, arg |-> request[r].arg] \in Asked
      BY <1>1 DEF IInv, TypeOK
    <3>2. request[r].arg \in Inputs
      BY <2>2, <3>1 DEF Asked
    <3> QED
      BY <2>2, <3>2, KeptOK
  <2>4. /\ DOMAIN acked' = DOMAIN acked \cup {i}
        /\ \A j \in DOMAIN acked' : acked'[j] = IF j \in DOMAIN acked THEN acked[j]
                                               ELSE Kept(request[r].arg)
    BY <1>4, <2>1 DEF Respond
  <2>5. UNCHANGED <<up, table, sequence, counted, firstId, doomed, crashes>>
    BY DEF Respond
  <2>6. TypeOK'
    BY <1>2, <2>3, <2>4, <2>5 DEF IInv, TypeOK
  <2>7. RequestsOK'
    <3> SUFFICES ASSUME NEW q \in Requests, request'[q] # Idle
                 PROVE  up' /\ RequestOK(request[q])'
      BY <1>2 DEF RequestsOK
    <3>1. RequestOK(request'[q])
      BY <1>2 DEF IInv, RequestsOK
    <3> QED
      BY <1>1, <2>5, <3>1 DEF RequestOK, Holds
  <2>8. AcknowledgedStays'
    BY <2>1, <2>4, <2>5 DEF IInv, AcknowledgedStays, Holds
  <2>9. CountedOnce'
    <3>1. Inserted' = Inserted
      BY <1>2 DEF Inserted, Idle, Respond
    <3> QED
      BY <2>5, <3>1 DEF IInv, CountedOnce
  <2>10. AnswersDistinct'
    <3>1. \A q \in Requests \ {r} : request[q].op = "save" => i \notin DOMAIN request[q].reply.rows
      BY <2>1, <2>2 DEF IInv, AnswersDistinct
    <3>2. request'[r].op # "save"
      BY <1>2 DEF Idle
    <3> QED
      BY <1>2, <2>4, <3>1, <3>2 DEF IInv, AnswersDistinct
  <2> QED
    BY <2>6, <2>7, <2>8, <2>9, <2>10 DEF IInv
<1> QED
  BY <1>3, <1>4

\* An INSERT takes an id that no reply and no client has, and a row that is not counted yet.
LEMMA HandleSaveStep ==
  ASSUME IInv, NEW r \in Requests, HandleSave(r)
  PROVE  IInv'
<1> USE DEF history
<1> DEFINE id == sequence + 1
           row == Kept(request[r].arg)
<1>1. /\ request[r] # Idle /\ up /\ RequestOK(request[r]) /\ request[r].op = "save"
      /\ Valid(request[r].arg) /\ request[r].at = "received"
  BY DEF HandleSave, Running, Idle, IInv, RequestsOK
<1>2. request[r].arg \in Inputs /\ [op |-> request[r].op, arg |-> request[r].arg] \in Asked
  BY <1>1 DEF IInv, TypeOK, Asked
<1>3. row \in Rows /\ row = Row(request[r].arg.name, Truncate(request[r].arg.logs))
  BY <1>1, <1>2, KeptOK
<1>4. /\ sequence \in Nat /\ sequence < MaxIds /\ sequence' = id /\ id \in 1..MaxIds
      /\ table' = Put(table, id, row)
      /\ Advance(r, "inserted", Reply(201, Put(NoRows, id, Summary(row))))
      /\ UNCHANGED <<up, counted, firstId, acked, doomed, crashes>>
  BY <1>1, <1>3, BoundsAssumption DEF HandleSave, SaveSnapshot, IInv, TypeOK
<1> DEFINE reply == Reply(201, Put(NoRows, id, Summary(row)))
           new == [op |-> request[r].op, arg |-> request[r].arg, at |-> "inserted", reply |-> reply]
<1>5. /\ request' = [q \in Requests |-> request'[q]]
      /\ request'[r] = new
      /\ \A q \in Requests \ {r} : request'[q] = request[q]
  BY <1>4, AdvanceShape DEF IInv
<1>6. reply.code = 201 /\ DOMAIN reply.rows = {id} /\ reply = Reply(reply.code, reply.rows)
  BY DEF Reply, Put, NoRows
<1>7. /\ new.op = "save" /\ new.arg = request[r].arg /\ new.at = "inserted"
      /\ new.reply.code = 201 /\ DOMAIN new.reply.rows = {id}
      /\ new = [op |-> new.op, arg |-> new.arg, at |-> new.at,
                reply |-> Reply(new.reply.code, new.reply.rows)]
  BY <1>1, <1>6
<1>8. /\ DOMAIN table' = DOMAIN table \cup {id} /\ table'[id] = row
      /\ \A i \in DOMAIN table : i # id => table'[i] = table[i]
  BY <1>4 DEF Put
<1>9. DOMAIN table \subseteq 1..sequence /\ id \notin 1..sequence /\ 1..sequence \subseteq 1..id
  BY <1>4 DEF IInv, TypeOK
<1> HIDE DEF id, row, reply, new
<1>10. TypeOK'
  <2>1. sequence' \in 0..MaxIds /\ firstId' \in 0..sequence'
    BY <1>4, BoundsAssumption DEF IInv, TypeOK, id
  <2>2. DOMAIN table' \subseteq 1..sequence' /\ \A i \in DOMAIN table' : table'[i] \in Rows
    <3>1. DOMAIN table \subseteq 1..sequence /\ \A i \in DOMAIN table : table[i] \in Rows
      BY DEF IInv, TypeOK
    <3>2. id \in 1..id
      BY <1>4 DEF id
    <3>3. DOMAIN table' \subseteq 1..id
      BY <1>8, <1>9, <3>1, <3>2
    <3>4. \A i \in DOMAIN table' : table'[i] \in Rows
      BY <1>3, <1>8, <3>1
    <3> QED
      BY <1>4, <3>3, <3>4
  <2>3. /\ DOMAIN acked' \subseteq 1..sequence' /\ \A i \in DOMAIN acked' : acked'[i] \in Rows
        /\ doomed' \subseteq 1..sequence'
    BY <1>4, <1>9 DEF IInv, TypeOK
  <2>4. counted' \in 0..MaxIds /\ crashes' \in 0..MaxCrashes /\ up' \in BOOLEAN
    BY <1>4 DEF IInv, TypeOK, database
  <2>5. ASSUME NEW q \in Requests, request'[q] # Idle
        PROVE  /\ [op |-> request'[q].op, arg |-> request'[q].arg] \in Asked
               /\ request'[q].at \in {"received", "inserted", "answered"}
               /\ request'[q].reply.code \in Codes
               /\ DOMAIN request'[q].reply.rows \subseteq 1..sequence'
    <3>1. CASE q = r
      <4>1. id \in 1..sequence'
        BY <1>4 DEF id
      <4> QED
        BY <1>1, <1>2, <1>5, <1>7, <3>1, <4>1 DEF Codes
    <3>2. CASE q # r
      <4>1. request'[q] = request[q]
        BY <1>5, <3>2
      <4> QED
        BY <1>4, <1>9, <2>5, <4>1 DEF IInv, TypeOK
    <3> QED
      BY <3>1, <3>2
  <2> QED
    BY <2>1, <2>2, <2>3, <2>4, <2>5 DEF TypeOK
<1>11. RequestsOK'
  <2> SUFFICES ASSUME NEW q \in Requests, request'[q] # Idle
               PROVE  up' /\ RequestOK(request[q])'
    BY <1>5 DEF RequestsOK
  <2>1. CASE q = r
    <3>1. id \in 1..sequence' /\ id \in DOMAIN table' /\ table'[id] = row
      <4>1. id \in 1..id
        BY <1>4 DEF id
      <4> QED
        BY <1>4, <1>8, <4>1
    <3>2. Kept(new.arg) = row
      BY <1>7 DEF row
    <3>3. \E i \in 1..sequence' : DOMAIN new.reply.rows = {i}
                               /\ (i \in doomed' \/ (i \in DOMAIN table' /\ table'[i] = Kept(new.arg)))
      BY <1>7, <3>1, <3>2
    <3> QED
      BY <1>1, <1>4, <1>5, <1>7, <2>1, <3>3 DEF RequestOK, Holds
  <2>2. CASE q # r
    <3>1. request'[q] = request[q]
      BY <1>5, <2>2
    <3>2. RequestOK(request[q])
      BY <3>1 DEF IInv, RequestsOK
    <3>3. ASSUME request[q].reply.code = 201
          PROVE  \E i \in 1..sequence' : /\ DOMAIN request[q].reply.rows = {i}
                                         /\ \/ i \in doomed'
                                            \/ i \in DOMAIN table' /\ table'[i] = Kept(request[q].arg)
      <4>1. PICK i \in 1..sequence : DOMAIN request[q].reply.rows = {i} /\ Holds(i, Kept(request[q].arg))
        BY <3>2, <3>3 DEF RequestOK
      <4>2. i \in 1..sequence' /\ i # id
        BY <1>4, <1>9
      <4> QED
        BY <1>4, <1>8, <4>1, <4>2 DEF Holds
    <3> QED
      BY <1>1, <1>4, <3>1, <3>2, <3>3 DEF RequestOK, Holds
  <2> QED
    BY <2>1, <2>2
<1>12. AcknowledgedStays'
  BY <1>4, <1>8, <1>9 DEF IInv, AcknowledgedStays, TypeOK
<1>13. CountedOnce'
  <2>1. r \notin Inserted /\ Inserted \subseteq Requests /\ IsFiniteSet(Inserted)
    BY <1>1, RequestsAssumption, FS_Subset DEF Inserted
  <2>2. Inserted' = Inserted \cup {r}
    BY <1>5, <1>7 DEF Inserted
  <2>3. Cardinality(Inserted') = Cardinality(Inserted) + 1 /\ Cardinality(Inserted) \in Nat
    BY <2>1, <2>2, FS_AddElement, FS_CardinalityType
  <2>4. counted \in Nat /\ sequence \in Nat /\ firstId \in Nat
    BY DEF IInv, TypeOK
  <2> QED
    BY <1>1, <1>4, <2>3, <2>4 DEF IInv, CountedOnce, id
<1>14. AnswersDistinct'
  <2>1. \A q \in Requests : request[q].op = "save" => id \notin DOMAIN request[q].reply.rows
    <3> SUFFICES ASSUME NEW q \in Requests, request[q].op = "save"
                 PROVE  DOMAIN request[q].reply.rows \subseteq 1..sequence
      BY <1>9
    <3>1. request[q] # Idle
      BY DEF Idle
    <3> QED
      BY <3>1 DEF IInv, TypeOK
  <2>2. id \notin DOMAIN acked
    BY <1>9 DEF IInv, TypeOK
  <2> QED
    BY <1>4, <1>5, <1>7, <2>1, <2>2 DEF IInv, AnswersDistinct
<1> QED
  BY <1>10, <1>11, <1>12, <1>13, <1>14 DEF IInv

\* A save is counted when its handler answers, once.
LEMMA AnswerSaveStep ==
  ASSUME IInv, NEW r \in Requests, AnswerSave(r)
  PROVE  IInv'
<1> USE DEF database, history
<1>1. /\ request[r] # Idle /\ up /\ RequestOK(request[r])
      /\ request[r].at = "inserted" /\ request[r].reply.code = 201
  BY DEF AnswerSave, Idle, IInv, RequestsOK, RequestOK
<1>2. counted' = counted + 1 /\ UNCHANGED <<up, table, sequence, firstId, acked, doomed, crashes>>
  BY DEF AnswerSave
<1> DEFINE new == [op |-> request[r].op, arg |-> request[r].arg, at |-> "answered",
                   reply |-> request[r].reply]
<1>3. /\ request' = [q \in Requests |-> request'[q]]
      /\ request'[r] = new
      /\ \A q \in Requests \ {r} : request'[q] = request[q]
  BY AdvanceShape DEF AnswerSave, IInv
<1>4. /\ new.op = request[r].op /\ new.arg = request[r].arg /\ new.at = "answered"
      /\ new.reply = request[r].reply
      /\ new = [op |-> new.op, arg |-> new.arg, at |-> new.at,
                reply |-> Reply(new.reply.code, new.reply.rows)]
  BY <1>1 DEF RequestOK
<1> HIDE DEF new
<1>5. CountedOnce' /\ counted' \in 0..MaxIds
  <2>1. r \in Inserted /\ IsFiniteSet(Inserted)
    BY <1>1, RequestsAssumption, FS_Subset DEF Inserted
  <2>2. Inserted' = Inserted \ {r}
    BY <1>3, <1>4 DEF Inserted
  <2>3. /\ Cardinality(Inserted') = Cardinality(Inserted) - 1
        /\ Cardinality(Inserted) \in Nat /\ Cardinality(Inserted') \in Nat
    BY <2>1, <2>2, FS_RemoveElement, FS_CardinalityType
  <2>4. /\ counted \in Nat /\ sequence \in 0..MaxIds /\ firstId \in 0..sequence
        /\ counted + Cardinality(Inserted) = sequence - firstId
    BY <1>1 DEF IInv, TypeOK, CountedOnce
  <2>5. counted + 1 + Cardinality(Inserted') = sequence - firstId
    BY <2>3, <2>4
  <2>6. counted + 1 \in 0..MaxIds
    BY <2>3, <2>4, <2>5, BoundsAssumption
  <2> QED
    BY <1>2, <2>5, <2>6 DEF CountedOnce
<1>6. TypeOK'
  BY <1>1, <1>2, <1>3, <1>4, <1>5 DEF IInv, TypeOK
<1>7. RequestsOK'
  <2> SUFFICES ASSUME NEW q \in Requests, request'[q] # Idle
               PROVE  up' /\ RequestOK(request[q])'
    BY <1>3 DEF RequestsOK
  <2>1. RequestOK(request'[q])
    <3>1. CASE q = r
      BY <1>1, <1>3, <1>4, <3>1 DEF RequestOK
    <3>2. CASE q # r
      BY <1>3, <3>2 DEF IInv, RequestsOK
    <3> QED
      BY <3>1, <3>2
  <2> QED
    BY <1>1, <1>2, <2>1 DEF RequestOK, Holds
<1>8. AcknowledgedStays'
  BY <1>2 DEF IInv, AcknowledgedStays
<1>9. AnswersDistinct'
  BY <1>2, <1>3, <1>4 DEF IInv, AnswersDistinct
<1> QED
  BY <1>5, <1>6, <1>7, <1>8, <1>9 DEF IInv

\* A DELETE removes one row and no other, and it is the id the request asks for.
LEMMA HandleDeleteStep ==
  ASSUME IInv, NEW r \in Requests, HandleDelete(r)
  PROVE  IInv'
<1> USE DEF database, history
<1> DEFINE id == request[r].arg
<1>1. /\ request[r] # Idle /\ up /\ request[r].at = "received" /\ request[r].op = "delete"
      /\ [op |-> request[r].op, arg |-> id] \in Asked
  BY DEF HandleDelete, Running, Idle, IInv, RequestsOK, TypeOK
<1>2. DOMAIN NoRows = {} /\ 400 \in Codes \ {201} /\ 500 \in Codes \ {201} /\ 204 \in Codes \ {201}
  BY DEF NoRows, Codes
<1>3. DOMAIN table \subseteq 1..sequence /\ Malformed \notin DOMAIN table
  BY NamesAssumption DEF IInv, TypeOK
<1>4. CASE id \notin DOMAIN table
  <2>1. doomed' = doomed /\ UNCHANGED <<up, table, sequence, counted, firstId, acked, crashes>>
    BY <1>4 DEF HandleDelete
  <2>2. Answer(r, 400, NoRows) \/ Answer(r, 500, NoRows)
    BY <1>4 DEF HandleDelete
  <2> QED
    BY <1>1, <1>2, <2>1, <2>2, Answering
<1>5. CASE id \in DOMAIN table
  <2>1. /\ doomed' = doomed \cup {id}
        /\ UNCHANGED <<up, sequence, counted, firstId, acked, crashes>>
        /\ table' = [i \in DOMAIN table \ {id} |-> table[i]]
        /\ Answer(r, 204, NoRows)
    BY <1>3, <1>5 DEF HandleDelete, DeleteSnapshot
  <2> DEFINE new == [op |-> request[r].op, arg |-> request[r].arg, at |-> "answered",
                     reply |-> Reply(204, NoRows)]
  <2>2. /\ request' = [q \in Requests |-> request'[q]]
        /\ request'[r] = new
        /\ \A q \in Requests \ {r} : request'[q] = request[q]
    BY <2>1, AdvanceShape DEF Answer, IInv
  <2>3. /\ new.op = "delete" /\ new.arg = id /\ new.at = "answered" /\ new.reply.code = 204
        /\ DOMAIN new.reply.rows = {}
        /\ new = [op |-> new.op, arg |-> new.arg, at |-> new.at,
                  reply |-> Reply(new.reply.code, new.reply.rows)]
    BY <1>1, <1>2 DEF Reply
  <2>4. /\ DOMAIN table' = DOMAIN table \ {id}
        /\ \A i \in DOMAIN table' : table'[i] = table[i]
    BY <2>1
  <2> HIDE DEF new, id
  <2>5. TypeOK'
    <3>1. doomed' \subseteq 1..sequence'
      BY <1>3, <1>5, <2>1 DEF IInv, TypeOK
    <3>2. DOMAIN table' \subseteq 1..sequence' /\ \A i \in DOMAIN table' : table'[i] \in Rows
      BY <2>1, <2>4 DEF IInv, TypeOK
    <3>3. ASSUME NEW q \in Requests, request'[q] # Idle
          PROVE  /\ [op |-> request'[q].op, arg |-> request'[q].arg] \in Asked
                 /\ request'[q].at \in {"received", "inserted", "answered"}
                 /\ request'[q].reply.code \in Codes
                 /\ DOMAIN request'[q].reply.rows \subseteq 1..sequence'
      <4>1. CASE q = r
        BY <1>1, <1>2, <2>2, <2>3, <4>1
      <4>2. CASE q # r
        BY <2>1, <2>2, <3>3, <4>2 DEF IInv, TypeOK
      <4> QED
        BY <4>1, <4>2
    <3> QED
      BY <2>1, <3>1, <3>2, <3>3 DEF IInv, TypeOK
  <2>6. RequestsOK'
    <3> SUFFICES ASSUME NEW q \in Requests, request'[q] # Idle
                 PROVE  up' /\ RequestOK(request[q])'
      BY <2>2 DEF RequestsOK
    <3>1. RequestOK(request'[q])
      <4>1. CASE q = r
        BY <2>2, <2>3, <4>1 DEF RequestOK
      <4>2. CASE q # r
        BY <2>2, <4>2 DEF IInv, RequestsOK
      <4> QED
        BY <4>1, <4>2
    <3>2. \A i \in DOMAIN table : i \in doomed' \/ (i \in DOMAIN table' /\ table'[i] = table[i])
      BY <2>1, <2>4
    <3>3. doomed \subseteq doomed'
      BY <2>1
    <3> QED
      BY <1>1, <2>1, <3>1, <3>2, <3>3 DEF RequestOK, Holds
  <2>7. AcknowledgedStays'
    BY <2>1, <2>4 DEF IInv, AcknowledgedStays
  <2>8. CountedOnce'
    <3>1. Inserted' = Inserted
      BY <1>1, <2>2, <2>3 DEF Inserted
    <3> QED
      BY <2>1, <3>1 DEF IInv, CountedOnce
  <2>9. AnswersDistinct'
    BY <2>1, <2>2, <2>3 DEF IInv, AnswersDistinct
  <2> QED
    BY <2>5, <2>6, <2>7, <2>8, <2>9 DEF IInv
<1> QED
  BY <1>4, <1>5

\* A request is taken on, refused, or answered with no more than what the table has.
LEMMA OtherStep ==
  ASSUME IInv, NEW r \in Requests,
         \/ \E a \in Asked : Receive(r, a)
         \/ Refuse(r) \/ Fails(r) \/ RejectSave(r) \/ HandleGet(r) \/ HandleList(r) \/ AnswerLost(r)
  PROVE  IInv'
<1>1. /\ DOMAIN NoRows = {} /\ NoReply.rows = NoRows /\ NoReply.code = 0
      /\ NoReply = Reply(NoReply.code, NoReply.rows)
  BY DEF NoReply, NoRows, Reply
<1>2. {200, 400, 404, 413, 429, 500} \subseteq Codes \ {201} /\ 0 \in Codes
  BY DEF Codes
<1>3. DOMAIN table \subseteq 1..sequence
  BY DEF IInv, TypeOK
<1>4. ASSUME NEW a \in Asked, Receive(r, a)
      PROVE  IInv'
  <2> DEFINE new == [op |-> a.op, arg |-> a.arg, at |-> "received", reply |-> NoReply]
  <2>1. /\ up /\ request[r] = Idle /\ UNCHANGED <<up, database, counted, history>>
        /\ request' = [q \in Requests |-> request'[q]] /\ request'[r] = new
        /\ \A q \in Requests \ {r} : request'[q] = request[q]
    BY <1>4 DEF Receive, IInv, RequestsOK
  <2>2. /\ [op |-> new.op, arg |-> new.arg] \in Asked
        /\ new.at = "received" /\ new.reply = NoReply
    BY AskedShape
  <2>3. RequestOK(new)
    BY <1>1 DEF RequestOK
  <2>4. Idle.at = "idle"
    BY DEF Idle
  <2> HIDE DEF new
  <2> QED
    BY <1>1, <1>2, <2>1, <2>2, <2>3, <2>4, Quiet
<1>5. CASE Refuse(r)
  BY <1>1, <1>2, <1>5, Answering DEF Refuse, Running
<1>6. CASE Fails(r)
  BY <1>1, <1>2, <1>6, Answering DEF Fails, Running
<1>7. CASE RejectSave(r)
  BY <1>1, <1>2, <1>7, Answering DEF RejectSave, Running
<1>8. CASE HandleGet(r)
  <2>1. DOMAIN GetSnapshot(request[r].arg) \subseteq 1..sequence
    BY <1>3 DEF GetSnapshot
  <2>2. /\ request[r].at = "received" /\ request[r].op # "save"
        /\ UNCHANGED <<up, database, counted, history>>
    BY <1>8 DEF HandleGet, Running
  <2>3. \E code \in Codes \ {201} : \/ Answer(r, code, NoRows)
                                    \/ Answer(r, code, GetSnapshot(request[r].arg))
    BY <1>2, <1>8 DEF HandleGet
  <2> QED
    BY <1>1, <2>1, <2>2, <2>3, Answering
<1>9. CASE HandleList(r)
  <2>1. DOMAIN ListSnapshots \subseteq 1..sequence
    BY <1>3 DEF ListSnapshots
  <2>2. /\ request[r].at = "received" /\ request[r].op # "save"
        /\ UNCHANGED <<up, database, counted, history>> /\ Answer(r, 200, ListSnapshots)
    BY <1>9 DEF HandleList, Running
  <2> QED
    BY <1>2, <2>1, <2>2, Answering
<1>10. CASE AnswerLost(r)
  <2>1. /\ request[r].at = "answered" /\ UNCHANGED <<up, database, counted, history>>
        /\ request' = [q \in Requests |-> request'[q]] /\ request'[r] = Idle
        /\ \A q \in Requests \ {r} : request'[q] = request[q]
    BY <1>10 DEF AnswerLost, IInv, RequestsOK
  <2>2. request[r] # Idle /\ up /\ Idle.at = "idle" /\ Idle.op = "none"
    BY <2>1 DEF Idle, IInv, RequestsOK
  <2> QED
    BY <2>1, <2>2, Quiet
<1> QED
  BY <1>4, <1>5, <1>6, <1>7, <1>8, <1>9, <1>10

\* A crash forgets the requests and the metric, and nothing that is in the database.
LEMMA CrashStep ==
  ASSUME IInv, Crash \/ Restart
  PROVE  IInv'
<1> USE DEF database, history
<1>1. Idle.op = "none" /\ Idle.at = "idle"
  BY DEF Idle
<1>2. \A r \in Requests : request'[r] = Idle
  BY DEF Crash, Restart, IInv, RequestsOK
<1>3. UNCHANGED <<table, sequence, acked, doomed>> /\ up' \in BOOLEAN
  BY DEF Crash, Restart
<1>4. request' = [r \in Requests |-> request'[r]]
  BY DEF Crash, Restart, IInv, RequestsOK
<1>5. crashes' \in 0..MaxCrashes /\ counted' \in 0..MaxIds /\ firstId' \in 0..sequence
  BY BoundsAssumption DEF Crash, Restart, IInv, TypeOK
<1>6. TypeOK'
  BY <1>2, <1>3, <1>5 DEF IInv, TypeOK
<1>7. RequestsOK'
  BY <1>2, <1>4 DEF RequestsOK
<1>8. AcknowledgedStays'
  BY <1>3 DEF IInv, AcknowledgedStays
<1>9. CountedOnce'
  <2>1. CASE Crash
    BY <2>1 DEF Crash, CountedOnce
  <2>2. CASE Restart
    <3>1. Cardinality(Inserted') = 0
      BY <1>1, <1>2, FS_EmptySet DEF Inserted
    <3>2. counted' = 0 /\ sequence' - firstId' = 0
      BY <2>2 DEF Restart, IInv, TypeOK
    <3> QED
      BY <3>1, <3>2 DEF CountedOnce
  <2> QED
    BY <2>1, <2>2
<1>10. AnswersDistinct'
  BY <1>1, <1>2 DEF AnswersDistinct
<1> QED
  BY <1>6, <1>7, <1>8, <1>9, <1>10 DEF IInv

\* The invariant holds of an empty database.
LEMMA InitHolds ==
  ASSUME Init
  PROVE  IInv
<1>1. Idle.op = "none" /\ Idle.at = "idle" /\ \A r \in Requests : request[r] = Idle
  BY DEF Idle, Init
<1>2. DOMAIN NoRows = {}
  BY DEF NoRows
<1>3. TypeOK
  BY <1>1, <1>2, BoundsAssumption DEF Init, TypeOK
<1>4. RequestsOK
  BY <1>1 DEF Init, RequestsOK
<1>5. AcknowledgedStays
  BY <1>2 DEF Init, AcknowledgedStays
<1>6. CountedOnce
  <2>1. Cardinality(Inserted) = 0
    BY <1>1, FS_EmptySet DEF Inserted
  <2> QED
    BY <2>1 DEF Init, CountedOnce
<1>7. AnswersDistinct
  BY <1>1 DEF AnswersDistinct
<1> QED
  BY <1>3, <1>4, <1>5, <1>6, <1>7 DEF IInv

\* Every step keeps the invariant, whatever the handlers do at the same time.
LEMMA NextHolds ==
  ASSUME IInv, [Next]_vars
  PROVE  IInv'
<1>1. CASE Next
  BY <1>1, OtherStep, RespondStep, HandleSaveStep, AnswerSaveStep, HandleDeleteStep, CrashStep
     DEF Next, Handler
<1>2. CASE UNCHANGED vars
  BY <1>2 DEF vars, IInv, TypeOK, RequestsOK, RequestOK, Holds, AcknowledgedStays, CountedOnce,
              Inserted, AnswersDistinct
<1> QED
  BY <1>1, <1>2

\* The invariant of the snapshot store, for any number of requests, ids, logs and crashes.
THEOREM Invariance == Spec => []IInv
  BY InitHolds, NextHolds, PTL DEF Spec

\* What the variables hold.
THEOREM TypeCorrect == Spec => []TypeOK
<1>1. IInv => TypeOK
  BY DEF IInv
<1> QED
  BY <1>1, Invariance, PTL

\* A snapshot that was acknowledged stays as it was sent until its own deletion.
THEOREM Acknowledged == Spec => []AcknowledgedStays
<1>1. IInv => AcknowledgedStays
  BY DEF IInv
<1> QED
  BY <1>1, Invariance, PTL

\* The metric counts every row inserted since the start once, when its handler answers.
THEOREM Counted == Spec => []CountedOnce
<1>1. IInv => CountedOnce
  BY DEF IInv
<1> QED
  BY <1>1, Invariance, PTL

\* No two saves are answered with the same id.
THEOREM Distinct == Spec => []AnswersDistinct
<1>1. IInv => AnswersDistinct
  BY DEF IInv
<1> QED
  BY <1>1, Invariance, PTL

-----------------------------------------------------------------------------
(* The refinement. *)

\* A statement of a handler is the moment at which its call is finished.
LEMMA FinishStep ==
  ASSUME IInv, NEW r \in Requests, NEW at, NEW code, NEW rows,
         Advance(r, at, Reply(code, rows)),
         request[r].at = "received", at # "received"
  PROVE  /\ Calls[r].op = request[r].op /\ Calls[r].arg = request[r].arg
         /\ Calls[r].result = Map!Open /\ Calls[r] # Map!Idle
         /\ code \in {200, 201, 204, 404} => Map!Finish(r, Map!Answer(rows))
         /\ code \notin {200, 201, 204, 404} => Map!Finish(r, Map!Error)
<1> DEFINE new == [op |-> request[r].op, arg |-> request[r].arg, at |-> at,
                   reply |-> Reply(code, rows)]
<1>1. request[r] # Idle /\ request[r].op # "none"
  <2>1. request[r] # Idle
    BY DEF Idle
  <2> QED
    BY <2>1 DEF IInv, TypeOK, Asked
<1>2. request'[r] = new /\ \A q \in Requests \ {r} : request'[q] = request[q]
  BY AdvanceShape DEF IInv
<1>3. /\ new.op = request[r].op /\ new.arg = request[r].arg /\ new.at = at
      /\ new.reply.code = code /\ new.reply.rows = rows /\ new # Idle
  BY <1>1 DEF Reply, Idle
<1> HIDE DEF new
<1>4. Calls[r] = [op |-> request[r].op, arg |-> request[r].arg, result |-> Map!Open]
  BY <1>1 DEF Calls, Call, Result, Map!Open, Map!NoRows, NoRows
<1> DEFINE result == IF code \in {200, 201, 204, 404} THEN Map!Answer(rows) ELSE Map!Error
<1>5. Call(new) = [op |-> request[r].op, arg |-> request[r].arg, result |-> result]
  BY <1>3 DEF Call, Result, Map!Answer, Map!Error, Map!NoRows, NoRows
<1> HIDE DEF result
<1>6. Calls' = [q \in Requests |-> IF q = r THEN Call(new) ELSE Calls[q]]
  BY <1>2 DEF Calls
<1>7. Calls' = [Calls EXCEPT ![r].result = result]
  <2>1. [Calls[r] EXCEPT !.result = result] = Call(new)
    BY <1>4, <1>5
  <2>2. Calls' = [Calls EXCEPT ![r] = Call(new)]
    BY <1>6 DEF Calls
  <2> QED
    BY <2>1, <2>2
<1>8. Map!Finish(r, result)
  BY <1>7 DEF Map!Finish
<1>9. Calls[r].op = request[r].op /\ Calls[r].arg = request[r].arg /\ Calls[r].result = Map!Open
  BY <1>4
<1>10. Calls[r] # Map!Idle
  BY <1>1, <1>9 DEF Map!Idle
<1> QED
  BY <1>8, <1>9, <1>10 DEF result

\* Requests that end, one by one or all at once, are calls that end.
LEMMA EndStep ==
  ASSUME IInv, NEW R \in SUBSET Requests,
         \A q \in Requests : request'[q] = IF q \in R THEN Idle ELSE request[q],
         UNCHANGED <<table, sequence>>
  PROVE  Map!Next
<1>1. Call(Idle) = Map!Idle
  BY DEF Call, Map!Idle, Map!Open, Map!NoRows, NoRows
<1>2. Calls' = [q \in Requests |-> IF q \in R THEN Map!Idle ELSE Calls[q]]
  BY <1>1 DEF Calls
<1>3. Map!End(R)
  BY <1>2 DEF Map!End
<1> QED
  BY <1>3 DEF Map!Next

\* Begin, an answer without an effect, a save and a deletion.
LEMMA MapStep ==
  ASSUME IInv, Next
  PROVE  [Map!Next]_Map!vars
<1> USE DEF database
<1>1. ASSUME NEW r \in Requests, NEW a \in Asked, Receive(r, a)
      PROVE  Map!Begin(r, a)
  <2> DEFINE new == [op |-> a.op, arg |-> a.arg, at |-> "received", reply |-> NoReply]
  <2>1. /\ request[r] = Idle /\ UNCHANGED <<table, sequence>>
        /\ request'[r] = new /\ \A q \in Requests \ {r} : request'[q] = request[q]
    BY <1>1 DEF Receive, IInv, RequestsOK
  <2>2. new.op = a.op /\ new.arg = a.arg /\ new.at = "received" /\ new # Idle
    BY DEF Idle
  <2> HIDE DEF new
  <2>3. Call(new) = [op |-> a.op, arg |-> a.arg, result |-> Map!Open]
    BY <2>2 DEF Call, Result, Map!Open, Map!NoRows, NoRows
  <2>4. Calls[r] = Map!Idle
    BY <2>1 DEF Calls, Call, Map!Idle, Map!Open, Map!NoRows, NoRows
  <2>5. Calls' = [Calls EXCEPT ![r] = Call(new)]
    BY <2>1 DEF Calls
  <2> QED
    BY <2>1, <2>3, <2>4, <2>5 DEF Map!Begin
<1>2. ASSUME NEW r \in Requests, request[r].at = "received", NEW code \in {400, 413, 429, 500},
             Answer(r, code, NoRows), UNCHANGED <<table, sequence>>
      PROVE  Map!Fail(r)
  BY <1>2, FinishStep DEF Answer, Map!Fail
<1>3. ASSUME NEW r \in Requests, HandleSave(r)
      PROVE  \E id \in (1..sequence)' : Map!Save(r, id)
  <2> DEFINE body == request[r].arg
             id == sequence + 1
             rows == Put(NoRows, id, Summary(Kept(body)))
  <2>1. request[r].op = "save" /\ request[r].at = "received" /\ Valid(body)
    BY <1>3 DEF HandleSave, Running
  <2>2. body \in Inputs /\ sequence \in Nat
    <3>1. request[r] # Idle
      BY <2>1 DEF Idle
    <3> QED
      BY <2>1, <3>1 DEF IInv, TypeOK, Asked
  <2>3. Kept(body) = Row(body.name, Truncate(body.logs))
    BY <2>1, <2>2, KeptOK
  <2>4. /\ sequence' = id /\ table' = Put(table, id, Kept(body))
        /\ Advance(r, "inserted", Reply(201, rows))
    BY <1>3, <2>3 DEF HandleSave, SaveSnapshot
  <2>5. /\ Calls[r].op = "save" /\ Calls[r].arg = body /\ Calls[r].result = Map!Open
        /\ Map!Finish(r, Map!Answer(rows))
    BY <2>1, <2>4, FinishStep
  <2>6. id \in 1..sequence' /\ id \notin 1..sequence /\ 1..sequence' = 1..sequence \cup {id}
    BY <2>2, <2>4
  <2>7. /\ table' = Map!Put(table, id, Kept(body))
        /\ rows = Map!Put(Map!NoRows, id, Map!Summary(Kept(body)))
    BY <2>4 DEF Put, Map!Put, Map!NoRows, NoRows, Summary, Map!Summary
  <2>8. body \in {b \in Inputs : Valid(b)}
    BY <2>1, <2>2
  <2> HIDE DEF id, rows
  <2>9. Map!Save(r, id)
    BY <2>5, <2>6, <2>7, <2>8 DEF Map!Save, Map!Asks
  <2> QED
    BY <2>6, <2>9
<1>4. ASSUME NEW r \in Requests, AnswerSave(r)
      PROVE  UNCHANGED Map!vars
  <2> DEFINE new == [op |-> request[r].op, arg |-> request[r].arg, at |-> "answered",
                     reply |-> request[r].reply]
  <2>1. /\ request'[r] = new /\ \A q \in Requests \ {r} : request'[q] = request[q]
        /\ request[r].at = "inserted" /\ UNCHANGED <<table, sequence>>
    BY <1>4, AdvanceShape DEF AnswerSave, IInv
  <2>2. /\ new.op = request[r].op /\ new.arg = request[r].arg /\ new.at = "answered"
        /\ new.reply = request[r].reply /\ new # Idle
    BY DEF Idle
  <2>3. request[r] # Idle
    BY <2>1 DEF Idle
  <2> HIDE DEF new
  <2>4. Call(new) = Call(request[r])
    BY <2>1, <2>2, <2>3 DEF Call, Result
  <2>5. Calls' = Calls
    BY <2>1, <2>4 DEF Calls
  <2> QED
    BY <2>1, <2>5 DEF Map!vars
<1>5. ASSUME NEW r \in Requests, HandleGet(r)
      PROVE  Map!Get(r) \/ Map!Fail(r)
  <2> DEFINE id == request[r].arg
  <2>1. request[r].op = "get" /\ request[r].at = "received" /\ UNCHANGED <<table, sequence>>
    BY <1>5 DEF HandleGet, Running
  <2>2. CASE id = Malformed
    BY <1>2, <1>5, <2>1, <2>2 DEF HandleGet
  <2>3. CASE id # Malformed
    <3>1. PICK code \in {200, 404} : Answer(r, code, GetSnapshot(id))
      BY <1>5, <2>3 DEF HandleGet
    <3>2. GetSnapshot(id) = [i \in DOMAIN table \cap {id} |-> table[i]]
      BY DEF GetSnapshot
    <3>3. /\ Calls[r].op = "get" /\ Calls[r].arg = id /\ Calls[r].result = Map!Open
          /\ Map!Finish(r, Map!Answer(GetSnapshot(id)))
      BY <2>1, <3>1, FinishStep DEF Answer
    <3>4. Map!Get(r)
      BY <2>1, <3>2, <3>3 DEF Map!Get, Map!Asks
    <3> QED
      BY <3>4
  <2> QED
    BY <2>2, <2>3
<1>6. ASSUME NEW r \in Requests, HandleList(r)
      PROVE  Map!List(r)
  <2>1. /\ request[r].op = "list" /\ request[r].at = "received" /\ UNCHANGED <<table, sequence>>
        /\ Answer(r, 200, ListSnapshots)
    BY <1>6 DEF HandleList, Running
  <2>2. ListSnapshots = Map!Summaries(table)
    BY DEF ListSnapshots, Map!Summaries, Summary, Map!Summary
  <2>3. /\ Calls[r].op = "list" /\ Calls[r].result = Map!Open
        /\ Map!Finish(r, Map!Answer(ListSnapshots))
    BY <2>1, FinishStep DEF Answer
  <2> QED
    BY <2>1, <2>2, <2>3 DEF Map!List, Map!Asks
<1>7. ASSUME NEW r \in Requests, HandleDelete(r)
      PROVE  Map!Delete(r) \/ Map!Fail(r)
  <2> DEFINE id == request[r].arg
  <2>1. request[r].op = "delete" /\ request[r].at = "received" /\ UNCHANGED sequence
    BY <1>7 DEF HandleDelete, Running
  <2>2. CASE \E code \in {400, 500} : Answer(r, code, NoRows) /\ UNCHANGED table
    BY <1>2, <2>1, <2>2
  <2>3. CASE id \in DOMAIN table /\ Answer(r, 204, NoRows) /\ DeleteSnapshot(id)
    <3>1. /\ Calls[r].op = "delete" /\ Calls[r].arg = id /\ Calls[r].result = Map!Open
          /\ Map!Finish(r, Map!Answer(NoRows))
      BY <2>1, <2>3, FinishStep DEF Answer
    <3>2. table' = Map!Without(table, id) /\ Map!NoRows = NoRows
      BY <2>3 DEF DeleteSnapshot, Map!Without, Map!NoRows, NoRows
    <3>3. Map!Delete(r)
      BY <2>1, <2>3, <3>1, <3>2 DEF Map!Delete, Map!Asks
    <3> QED
      BY <3>3
  <2> QED
    BY <1>7, <2>2, <2>3 DEF HandleDelete
<1>8. ASSUME NEW r \in Requests, Refuse(r) \/ Fails(r) \/ RejectSave(r)
      PROVE  Map!Fail(r)
  BY <1>2, <1>8 DEF Refuse, Fails, RejectSave, Running
<1>9. ASSUME NEW r \in Requests, Respond(r) \/ AnswerLost(r)
      PROVE  Map!Next
  <2>1. \A q \in Requests : request'[q] = IF q \in {r} THEN Idle ELSE request[q]
    BY <1>9 DEF Respond, AnswerLost, IInv, RequestsOK
  <2>2. UNCHANGED <<table, sequence>>
    BY <1>9 DEF Respond, AnswerLost
  <2> QED
    BY <2>1, <2>2, EndStep
<1>10. CASE Crash
  <2>1. /\ \A q \in Requests : request'[q] = IF q \in Requests THEN Idle ELSE request[q]
        /\ UNCHANGED <<table, sequence>>
    BY <1>10 DEF Crash
  <2> QED
    BY <2>1, EndStep
<1>11. CASE Restart
  BY <1>11 DEF Restart, Map!vars, Calls
<1> QED
  BY <1>1, <1>3, <1>4, <1>5, <1>6, <1>7, <1>8, <1>9, <1>10, <1>11 DEF Next, Handler, Map!Next

\* Clients see the map of SnapshotMap: each call takes effect at the one statement of its
\* handler, or not at all.
THEOREM Refinement == Spec => ImplementsMap
<1>1. Init => Map!Init
  <2> SUFFICES ASSUME Init
               PROVE  Map!Init
    OBVIOUS
  <2>1. Call(Idle) = Map!Idle
    BY DEF Call, Map!Idle, Map!Open, Map!NoRows, NoRows
  <2>2. Calls = [r \in Requests |-> Map!Idle]
    BY <2>1 DEF Init, Calls
  <2>3. 1..sequence = {} /\ table = Map!NoRows
    BY DEF Init, Map!NoRows, NoRows
  <2> QED
    BY <2>2, <2>3 DEF Map!Init
<1>2. IInv /\ [Next]_vars => [Map!Next]_Map!vars
  <2>1. CASE UNCHANGED vars
    BY <2>1 DEF vars, Map!vars, Calls
  <2> QED
    BY <2>1, MapStep
<1> QED
  BY <1>1, <1>2, Invariance, PTL DEF Spec, ImplementsMap, Map!Spec
=============================================================================
