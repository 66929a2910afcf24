---------------------------- MODULE SnapshotMap ----------------------------
(***************************************************************************)
(* What the snapshot API promises, without handlers, SQL and crashes: a    *)
(* map from ids to snapshots on which every call takes effect at one       *)
(* moment between its beginning and its end, or has no effect and fails.   *)
(* An id is never handed out twice, not even after a deletion.             *)
(* SnapshotStore implements this specification.                            *)
(***************************************************************************)
EXTENDS Integers

CONSTANTS Requests,     \* the calls that may be under way at a time
          Asked,        \* what a call may ask for: an operation and its argument
          Bodies,       \* the arguments of a save that are saved
          Kept(_)       \* Kept(b): the snapshot that is kept of b

VARIABLES saved,        \* id -> snapshot
          used,         \* the ids handed out so far
          calls         \* calls[r]: Idle, or what is asked and, at last, answered

vars == <<saved, used, calls>>

NoRows == [i \in {} |-> 0]
Open == [status |-> "open", rows |-> NoRows]
Error == [status |-> "error", rows |-> NoRows]
Answer(rows) == [status |-> "done", rows |-> rows]
Idle == [op |-> "none", arg |-> 0, result |-> Open]

\* The map with and without a snapshot.
Put(map, id, s) == [i \in DOMAIN map \cup {id} |-> IF i = id THEN s ELSE map[i]]
Without(map, id) == [i \in DOMAIN map \ {id} |-> map[i]]

\* A list names every snapshot but leaves out its logs.
Summary(s) == [name |-> s.name, count |-> s.count]
Summaries(map) == [i \in DOMAIN map |-> Summary(map[i])]

Asks(r, op) == calls[r].op = op /\ calls[r].result = Open
Finish(r, result) == calls' = [calls EXCEPT ![r].result = result]

Init == /\ saved = NoRows
        /\ used = {}
        /\ calls = [r \in Requests |-> Idle]

Begin(r, a) == /\ calls[r] = Idle
               /\ calls' = [calls EXCEPT ![r] = [op |-> a.op, arg |-> a.arg, result |-> Open]]
               /\ UNCHANGED <<saved, used>>

Save(r, id) == /\ Asks(r, "save") /\ calls[r].arg \in Bodies
               /\ id \notin used
               /\ used' = used \cup {id}
               /\ saved' = Put(saved, id, Kept(calls[r].arg))
               /\ Finish(r, Answer(Put(NoRows, id, Summary(Kept(calls[r].arg)))))

\* No row is answered for an id that has none.
Get(r) == /\ Asks(r, "get")
          /\ Finish(r, Answer([i \in DOMAIN saved \cap {calls[r].arg} |-> saved[i]]))
          /\ UNCHANGED <<saved, used>>

List(r) == /\ Asks(r, "list")
           /\ Finish(r, Answer(Summaries(saved)))
           /\ UNCHANGED <<saved, used>>

Delete(r) == /\ Asks(r, "delete") /\ calls[r].arg \in DOMAIN saved
             /\ saved' = Without(saved, calls[r].arg)
             /\ Finish(r, Answer(NoRows))
             /\ UNCHANGED used

Fail(r) == /\ calls[r] # Idle /\ calls[r].result = Open
           /\ Finish(r, Error)
           /\ UNCHANGED <<saved, used>>

\* Calls end, one by one or with the server, answered or not.
End(R) == /\ calls' = [r \in Requests |-> IF r \in R THEN Idle ELSE calls[r]]
          /\ UNCHANGED <<saved, used>>

Next == \/ \E r \in Requests : \/ \E a \in Asked : Begin(r, a)
                               \/ \E id \in used' : Save(r, id)
                               \/ Get(r) \/ List(r) \/ Delete(r) \/ Fail(r)
        \/ \E R \in SUBSET Requests : End(R)

Spec == Init /\ [][Next]_vars
=============================================================================
