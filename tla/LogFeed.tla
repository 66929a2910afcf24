------------------------------ MODULE LogFeed ------------------------------
(***************************************************************************)
(* What one GET /api/v1/logs connection promises, without the goroutines   *)
(* and channels that provide it.  A source is a container or the stream of *)
(* Docker container events; its items are numbered from 1 in the order in  *)
(* which Docker produces them.  From the moment a source is attached the   *)
(* connection shows its relevant items in order, each once, and skips      *)
(* none.  LogStream implements this specification.                         *)
(***************************************************************************)
EXTENDS Integers, Sequences

CONSTANTS Sources,          \* the containers and the event stream
          Relevant(_, _, _) \* Relevant(filter, s, n): the filter lets item n of s through

VARIABLES filter,   \* the level filter of the request
          produced, \* produced[s]: number of items s has produced
          from,     \* from[s]: items up to this one precede the attachment; Unattached before
          shown     \* the items shown, oldest first

vars == <<filter, produced, from, shown>>

Unattached == -1

Item(s, n) == [src |-> s, n |-> n]

Shown(s, n) == \E i \in 1..Len(shown) : shown[i] = Item(s, n)

Init == /\ produced \in [Sources -> Nat]
        /\ from = [s \in Sources |-> Unattached]
        /\ shown = <<>>

Produce(s) == /\ produced' = [produced EXCEPT ![s] = @ + 1]
              /\ UNCHANGED <<filter, from, shown>>

\* A source is attached once; how much of its past is shown is decided then.
Attach(s) == /\ from[s] = Unattached
             /\ \E n \in 0..produced[s] : from' = [from EXCEPT ![s] = n]
             /\ UNCHANGED <<filter, produced, shown>>

\* The next relevant item of an attached source is shown.
Show(s, n) == /\ from[s] # Unattached
              /\ n \in (from[s] + 1)..produced[s]
              /\ Relevant(filter, s, n)
              /\ ~Shown(s, n)
              /\ \A m \in (from[s] + 1)..(n - 1) :
                    Relevant(filter, s, m) => Shown(s, m)
              /\ shown' = Append(shown, Item(s, n))
              /\ UNCHANGED <<filter, produced, from>>

Next == \E s \in Sources : \/ Produce(s)
                           \/ Attach(s)
                           \/ \E n \in 1..produced[s] : Show(s, n)

Spec == Init /\ [][Next]_vars
=============================================================================
