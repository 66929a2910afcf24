-------------------------- MODULE LogStreamProofs --------------------------
(***************************************************************************)
(* Proofs about LogStream, for every set of containers, every capacity and *)
(* every bound.                                                            *)
(***************************************************************************)
EXTENDS LogStream, SequenceTheorems, TLAPS

-----------------------------------------------------------------------------
(* Sequences of items: what Append and Tail do to their order. *)

\* What an appended sequence contains.
LEMMA InAppend ==
  ASSUME NEW S, NEW seq \in Seq(S), NEW x \in S, NEW e
  PROVE  In(Append(seq, x), e) <=> In(seq, e) \/ x = e
BY AppendProperties, LenProperties DEF In

\* Taking the head of a sequence takes nothing else.
LEMMA InTail ==
  ASSUME NEW S, NEW seq \in Seq(S), seq # <<>>, NEW e
  PROVE  In(seq, e) <=> Head(seq) = e \/ In(Tail(seq), e)
<1>1. Len(seq) \in Nat \ {0}
  BY EmptySeq
<1>2. /\ Len(Tail(seq)) = Len(seq) - 1
      /\ \A i \in 1..Len(Tail(seq)) : Tail(seq)[i] = seq[i + 1]
  BY HeadTailProperties
<1>3. Head(seq) = seq[1]
  BY <1>1
<1>4. ASSUME In(seq, e) PROVE Head(seq) = e \/ In(Tail(seq), e)
  <2>1. PICK i \in 1..Len(seq) : seq[i] = e
    BY <1>4 DEF In
  <2>2. CASE i = 1
    BY <1>3, <2>1, <2>2
  <2>3. CASE i # 1
    <3>1. i - 1 \in 1..Len(Tail(seq)) /\ Tail(seq)[i - 1] = e
      BY <1>1, <1>2, <2>1, <2>3
    <3> QED BY <3>1 DEF In
  <2> QED BY <2>2, <2>3
<1>5. ASSUME In(Tail(seq), e) PROVE In(seq, e)
  <2>1. PICK i \in 1..Len(Tail(seq)) : Tail(seq)[i] = e
    BY <1>5 DEF In
  <2>2. i + 1 \in 1..Len(seq) /\ seq[i + 1] = e
    BY <1>1, <1>2, <2>1
  <2> QED BY <2>2 DEF In
<1>6. Head(seq) = e => In(seq, e)
  BY <1>1, <1>3 DEF In
<1> QED BY <1>4, <1>5, <1>6

\* An element of an appended sequence is an old one or the new one.
LEMMA ElementsOfAppend ==
  ASSUME NEW S, NEW seq \in Seq(S), NEW x \in S
  PROVE  \A i \in 1..Len(Append(seq, x)) :
           Append(seq, x)[i] = x \/ \E j \in 1..Len(seq) : Append(seq, x)[i] = seq[j]
BY AppendProperties, LenProperties

\* An element of the tail is an element of the sequence, and so is the head.
LEMMA ElementsOfTail ==
  ASSUME NEW S, NEW seq \in Seq(S), seq # <<>>
  PROVE  /\ \A i \in 1..Len(Tail(seq)) : \E j \in 1..Len(seq) : Tail(seq)[i] = seq[j]
         /\ \E j \in 1..Len(seq) : Head(seq) = seq[j]
<1>1. Len(seq) \in Nat \ {0}
  BY EmptySeq
<1>2. /\ Len(Tail(seq)) = Len(seq) - 1
      /\ \A i \in 1..Len(Tail(seq)) : Tail(seq)[i] = seq[i + 1]
  BY HeadTailProperties
<1>3. Head(seq) = seq[1]
  BY <1>1
<1> QED BY <1>1, <1>2, <1>3

\* Appending an item keeps before e what was before e, if the item is.
LEMMA BeforeAppend ==
  ASSUME NEW S, NEW seq \in Seq(S), NEW x \in S, NEW e,
         Before(seq, e), x.src = e.src => x.n < e.n
  PROVE  Before(Append(seq, x), e)
BY AppendProperties, LenProperties DEF Before

\* Appending an item that comes after all others keeps the order.
LEMMA IncreasingAppend ==
  ASSUME NEW S, NEW seq \in Seq(S), NEW x \in S, Increasing(seq), Before(seq, x)
  PROVE  Increasing(Append(seq, x))
BY AppendProperties, LenProperties DEF Before, Increasing

\* The tail of an ordered sequence is ordered, and its head comes before it.
LEMMA IncreasingTail ==
  ASSUME NEW S, NEW seq \in Seq(S), seq # <<>>, Increasing(seq)
  PROVE  /\ Increasing(Tail(seq))
         /\ \A i \in 1..Len(Tail(seq)) :
              Head(seq).src = Tail(seq)[i].src => Head(seq).n < Tail(seq)[i].n
<1>1. Len(seq) \in Nat \ {0}
  BY EmptySeq
<1>2. /\ Len(Tail(seq)) = Len(seq) - 1
      /\ \A i \in 1..Len(Tail(seq)) : Tail(seq)[i] = seq[i + 1]
  BY HeadTailProperties
<1>3. Head(seq) = seq[1]
  BY <1>1
<1> QED BY <1>1, <1>2, <1>3 DEF Increasing

LEMMA BeforeTail ==
  ASSUME NEW S, NEW seq \in Seq(S), seq # <<>>, NEW e, Before(seq, e)
  PROVE  Before(Tail(seq), e)
BY EmptySeq, HeadTailProperties DEF Before

-----------------------------------------------------------------------------
(* The invariant holds initially. *)

LEMMA InitIInv == Init => IInv
<1> SUFFICES ASSUME Init PROVE IInv
  OBVIOUS
<1> USE SourcesAssumption, BoundAssumption, CapAssumption
<1>1. TypeOK
  <2>1. /\ <<>> \in Seq(Lines) /\ <<>> \in Seq(Events) /\ <<>> \in Seq(Lines \cup Events)
        /\ Len(<<>>) = 0
    BY EmptySeq
  <2>2. produced \in [Sources -> Nat]
    BY DEF Init
  <2>3. /\ worker \in [Sources -> {"idle", "attach", "read", "send", "done"}]
        /\ link \in [Sources -> {"none", "live", "eof", "err"}]
        /\ from \in [Sources -> Nat \cup {Unattached}]
        /\ pos \in [Sources -> Nat] /\ feed \in [Sources -> Nat]
    BY DEF Init
  <2>4. /\ Len(logChan) <= LogCap /\ Len(eventChan) <= EventCap
        /\ logChan \in Seq(Lines) /\ eventChan \in Seq(Events) /\ out \in Seq(Lines \cup Events)
    BY <2>1 DEF Init
  <2> QED BY <2>2, <2>3, <2>4 DEF Init, TypeOK
<1>2. StreamsOK
  BY DEF Init, StreamsOK, Sources
<1>3. ItemsOK
  BY DEF Init, ItemsOK
<1>4. InOrder
  BY DEF Init, InOrder, Increasing
<1>5. NothingLost /\ NoGap
  BY DEF Init, NothingLost, NoGap
<1> QED BY <1>1, <1>2, <1>3, <1>4, <1>5 DEF IInv

-----------------------------------------------------------------------------
(* Every step keeps the types. *)

\* A worker that sends has an item to send.
LEMMA SendingItem ==
  ASSUME TypeOK, StreamsOK, NEW s \in Sources, worker[s] = "send"
  PROVE  /\ from[s] # Unattached /\ from[s] \in Nat
         /\ pos[s] \in Nat \ {0} /\ from[s] < pos[s]
         /\ Item(s, pos[s]) \in [src : {s}, n : Nat \ {0}]
<1>1. from[s] # Unattached /\ from[s] < pos[s]
  BY DEF StreamsOK
<1>2. from[s] \in Nat /\ pos[s] \in Nat
  BY <1>1 DEF TypeOK
<1>3. pos[s] \in Nat \ {0}
  BY <1>1, <1>2
<1> QED BY <1>1, <1>2, <1>3 DEF Item

LEMMA TypeStep ==
  ASSUME TypeOK, StreamsOK, [Next]_vars
  PROVE  TypeOK'
<1> USE SourcesAssumption, BoundAssumption, CapAssumption
<1> USE DEF TypeOK, Sources, docker, request, streams, chans, answer
<1>1. ASSUME NEW c \in Containers, Produce(c) PROVE TypeOK'
  BY <1>1 DEF Produce, Emit
<1>2. ASSUME NEW c \in Containers, Lifecycle(c) PROVE TypeOK'
  BY <1>2 DEF Lifecycle, Emit
<1>3. ASSUME NEW s \in Sources, Break(s) PROVE TypeOK'
  BY <1>3 DEF Break
<1>4. CASE ClientLeaves \/ RequestCancelled
  BY <1>4 DEF ClientLeaves, RequestCancelled
<1>5. CASE OpenLogs \/ OpenEvents \/ OpenFails \/ SelectCtxDone \/ WriteFails
  <2>1. CASE OpenLogs
    BY <2>1 DEF OpenLogs
  <2>2. CASE OpenEvents
    BY <2>2 DEF OpenEvents
  <2>3. CASE OpenFails \/ SelectCtxDone \/ WriteFails
    BY <2>3 DEF OpenFails, SelectCtxDone, WriteFails, Return
  <2> QED BY <1>5, <2>1, <2>2, <2>3
<1>6. CASE SelectEvent
  <2>1. Head(eventChan) \in Events /\ Tail(eventChan) \in Seq(Events)
        /\ Len(Tail(eventChan)) = Len(eventChan) - 1
    BY <1>6, HeadTailProperties DEF SelectEvent
  <2> QED BY <1>6, <2>1 DEF SelectEvent, Render
<1>7. CASE SelectZeroEvent
  BY <1>7 DEF SelectZeroEvent, Render
<1>8. CASE SelectLog
  <2>1. Head(logChan) \in Lines /\ Tail(logChan) \in Seq(Lines)
        /\ Len(Tail(logChan)) = Len(logChan) - 1
    BY <1>8, HeadTailProperties DEF SelectLog
  <2> QED BY <1>8, <2>1 DEF SelectLog, Render
<1>9. CASE WriteOk
  <2>1. hand # ZeroEvent => Append(out, hand) \in Seq(Lines \cup Events)
    BY AppendProperties
  <2> QED BY <1>9, <2>1 DEF WriteOk
<1>10. ASSUME NEW c \in Containers, Attach(c) \/ AttachFails(c) PROVE TypeOK'
  <2>1. LoopTop \in {"read", "done"} /\ TailStart(c) \in Nat
    BY DEF LoopTop, TailStart
  <2>2. CASE Attach(c)
    BY <2>1, <2>2 DEF Attach, Goto
  <2>3. CASE AttachFails(c)
    BY <2>3 DEF AttachFails, Goto
  <2> QED BY <1>10, <2>2, <2>3
<1>11. ASSUME NEW c \in Containers, ReadFrame(c) \/ ReadEnds(c) PROVE TypeOK'
  <2>1. LoopTop \in {"read", "done"}
    BY DEF LoopTop
  <2>2. CASE ReadFrame(c)
    BY <2>1, <2>2 DEF ReadFrame, Goto
  <2>3. CASE ReadEnds(c)
    BY <2>3 DEF ReadEnds, Goto
  <2> QED BY <1>11, <2>2, <2>3
<1>12. ASSUME NEW c \in Containers, Send(c) PROVE TypeOK'
  <2>1. Item(c, pos[c]) \in Lines
    BY <1>12, SendingItem DEF Send, Lines
  <2>2. /\ Append(logChan, Item(c, pos[c])) \in Seq(Lines)
        /\ Len(Append(logChan, Item(c, pos[c]))) = Len(logChan) + 1
    BY <2>1, AppendProperties
  <2>3. LoopTop \in {"read", "done"} /\ Len(logChan) \in Nat
    BY LenProperties DEF LoopTop
  <2> QED BY <1>12, <2>2, <2>3 DEF Send, Goto
<1>13. ASSUME NEW c \in Containers, SendCancelled(c) PROVE TypeOK'
  BY <1>13 DEF SendCancelled, Goto
<1>14. CASE EventsReceive \/ EventsReturn
  BY <1>14 DEF EventsReceive, EventsReturn, Goto
<1>15. CASE EventsSend
  <2>1. Item(DockerEvents, pos[DockerEvents]) \in Events
    BY <1>15, SendingItem DEF EventsSend, Events
  <2>2. /\ Append(eventChan, Item(DockerEvents, pos[DockerEvents])) \in Seq(Events)
        /\ Len(Append(eventChan, Item(DockerEvents, pos[DockerEvents]))) = Len(eventChan) + 1
    BY <2>1, AppendProperties
  <2>3. Len(eventChan) \in Nat
    BY LenProperties
  <2> QED BY <1>15, <2>2, <2>3 DEF EventsSend, Goto
<1>16. CASE UNCHANGED vars
  BY <1>16 DEF vars
<1> QED BY <1>1, <1>2, <1>3, <1>4, <1>5, <1>6, <1>7, <1>8, <1>9, <1>10, <1>11, <1>12, <1>13,
           <1>14, <1>15, <1>16 DEF Next, Environment, Handler, Worker, EventsWorker

-----------------------------------------------------------------------------
(* Every step keeps the streams in order. *)

\* A worker that has something to read is at most at the end of its stream.
LEMMA ReadingStream ==
  ASSUME TypeOK, StreamsOK, NEW s \in Sources, worker[s] = "read", ~Drained(s)
  PROVE  /\ from[s] # Unattached /\ from[s] \in Nat
         /\ from[s] <= pos[s] /\ pos[s] < feed[s]
<1>1. from[s] # Unattached
  BY DEF StreamsOK
<1>2. from[s] \in Nat /\ pos[s] \in Nat /\ feed[s] \in Nat
  BY <1>1 DEF TypeOK
<1>3. from[s] <= pos[s] /\ pos[s] <= feed[s]
  BY <1>1 DEF StreamsOK
<1> QED BY <1>1, <1>2, <1>3 DEF Drained

LEMMA StreamsStep ==
  ASSUME TypeOK, StreamsOK, [Next]_vars
  PROVE  StreamsOK'
<1> USE SourcesAssumption, BoundAssumption
<1> USE DEF TypeOK, StreamsOK, Sources, docker, request, streams, chans, answer
<1>1. ASSUME NEW c \in Containers, Produce(c) PROVE StreamsOK'
  BY <1>1 DEF Produce, Emit
<1>2. ASSUME NEW c \in Containers, Lifecycle(c) PROVE StreamsOK'
  BY <1>2 DEF Lifecycle, Emit
<1>3. ASSUME NEW s \in Sources, Break(s) PROVE StreamsOK'
  BY <1>3 DEF Break
<1>4. CASE ClientLeaves \/ RequestCancelled
  BY <1>4 DEF ClientLeaves, RequestCancelled
<1>5. CASE OpenLogs
  BY <1>5 DEF OpenLogs
<1>6. CASE OpenEvents
  BY <1>6 DEF OpenEvents, Unattached
<1>7. CASE OpenFails \/ SelectCtxDone \/ WriteFails
  BY <1>7 DEF OpenFails, SelectCtxDone, WriteFails, Return
<1>8. CASE SelectEvent \/ SelectZeroEvent \/ SelectLog
  BY <1>8 DEF SelectEvent, SelectZeroEvent, SelectLog, Render
<1>9. CASE WriteOk
  BY <1>9 DEF WriteOk
<1>10. ASSUME NEW c \in Containers, Attach(c) PROVE StreamsOK'
  <2>1. LoopTop \in {"read", "done"} /\ TailStart(c) \in 0..produced[c]
    BY DEF LoopTop, TailStart
  <2> QED BY <1>10, <2>1 DEF Attach, Goto, Unattached
<1>11. ASSUME NEW c \in Containers, AttachFails(c) PROVE StreamsOK'
  BY <1>11 DEF AttachFails, Goto
<1>12. ASSUME NEW c \in Containers, ReadFrame(c) PROVE StreamsOK'
  <2>1. LoopTop \in {"read", "done"}
    BY DEF LoopTop
  <2>2. from[c] # Unattached /\ from[c] <= pos[c] /\ pos[c] < feed[c]
    BY <1>12, ReadingStream DEF ReadFrame
  <2> QED BY <1>12, <2>1, <2>2 DEF ReadFrame, Goto
<1>13. ASSUME NEW c \in Containers, ReadEnds(c) \/ SendCancelled(c) PROVE StreamsOK'
  BY <1>13 DEF ReadEnds, SendCancelled, Goto
<1>14. ASSUME NEW c \in Containers, Send(c) PROVE StreamsOK'
  <2>1. LoopTop \in {"read", "done"}
    BY DEF LoopTop
  <2> QED BY <1>14, <2>1 DEF Send, Goto
<1>15. CASE EventsReceive
  <2>1. /\ from[DockerEvents] # Unattached
        /\ from[DockerEvents] <= pos[DockerEvents] /\ pos[DockerEvents] < feed[DockerEvents]
    BY <1>15, ReadingStream DEF EventsReceive
  <2> QED BY <1>15, <2>1 DEF EventsReceive, Goto
<1>16. CASE EventsSend \/ EventsReturn
  BY <1>16 DEF EventsSend, EventsReturn, Goto
<1>17. CASE UNCHANGED vars
  BY <1>17 DEF vars
<1> QED BY <1>1, <1>2, <1>3, <1>4, <1>5, <1>6, <1>7, <1>8, <1>9, <1>10, <1>11, <1>12, <1>13,
           <1>14, <1>15, <1>16, <1>17 DEF Next, Environment, Handler, Worker, EventsWorker

-----------------------------------------------------------------------------
(* What a step does to the items on their way. *)

\* A step that moves no item: what is written, queued and in hand stays.
Quiet == /\ UNCHANGED <<logChan, eventChan, out>>
         /\ handler' = "write" => handler = "write" /\ hand' = hand

\* Only the selects, the write and the sends move items.
LEMMA Moves ==
  ASSUME [Next]_vars
  PROVE  \/ Quiet
         \/ SelectEvent \/ SelectZeroEvent \/ SelectLog \/ WriteOk
         \/ \E c \in Containers : Send(c)
         \/ EventsSend
<1> USE DEF Quiet, docker, request, streams, chans, answer
<1>1. ASSUME NEW c \in Containers, Produce(c) \/ Lifecycle(c) PROVE Quiet
  BY <1>1 DEF Produce, Lifecycle
<1>2. ASSUME NEW s \in Sources, Break(s) PROVE Quiet
  BY <1>2 DEF Break
<1>3. CASE ClientLeaves \/ RequestCancelled
  BY <1>3 DEF ClientLeaves, RequestCancelled
<1>4. CASE OpenLogs \/ OpenEvents \/ OpenFails \/ SelectCtxDone \/ WriteFails
  BY <1>4 DEF OpenLogs, OpenEvents, OpenFails, SelectCtxDone, WriteFails, Return
<1>5. ASSUME NEW c \in Containers,
             Attach(c) \/ AttachFails(c) \/ ReadFrame(c) \/ ReadEnds(c) \/ SendCancelled(c)
      PROVE  Quiet
  BY <1>5 DEF Attach, AttachFails, ReadFrame, ReadEnds, SendCancelled
<1>6. CASE EventsReceive \/ EventsReturn
  BY <1>6 DEF EventsReceive, EventsReturn
<1>7. CASE UNCHANGED vars
  BY <1>7 DEF vars
<1> QED BY <1>1, <1>2, <1>3, <1>4, <1>5, <1>6, <1>7
        DEF Next, Environment, Handler, Worker, EventsWorker

\* A stream stays attached where it is and is only read forward; a worker that
\* sends goes on sending the same item, or gives up with it.
LEMMA StreamsGrow ==
  ASSUME TypeOK, StreamsOK, [Next]_vars, NEW s \in Sources, from[s] # Unattached
  PROVE  from'[s] = from[s] /\ pos[s] <= pos'[s]
<1> USE SourcesAssumption
<1> USE DEF TypeOK, StreamsOK, Sources, docker, request, streams, chans, answer
<1>1. ASSUME NEW c \in Containers, Attach(c) PROVE from'[s] = from[s] /\ pos[s] <= pos'[s]
  <2>1. c # s
    BY <1>1 DEF Attach
  <2>2. from'[s] = from[s] /\ pos'[s] = pos[s]
    BY <1>1, <2>1 DEF Attach
  <2> QED BY <2>2
<1>2. CASE OpenEvents
  <2>1. s # DockerEvents
    BY <1>2 DEF OpenEvents
  <2>2. from'[s] = from[s] /\ pos'[s] = pos[s]
    BY <1>2, <2>1 DEF OpenEvents
  <2> QED BY <2>2
<1>3. ASSUME NEW c \in Containers, ReadFrame(c) PROVE from'[s] = from[s] /\ pos[s] <= pos'[s]
  BY <1>3 DEF ReadFrame
<1>4. CASE EventsReceive
  BY <1>4 DEF EventsReceive
<1>5. CASE UNCHANGED <<from, pos>>
  BY <1>5
<1>6. ASSUME NEW c \in Containers,
             \/ Produce(c) \/ Lifecycle(c) \/ AttachFails(c) \/ ReadEnds(c) \/ Send(c)
             \/ SendCancelled(c)
      PROVE  UNCHANGED <<from, pos>>
  BY <1>6 DEF Produce, Lifecycle, AttachFails, ReadEnds, Send, SendCancelled
<1>7. ASSUME NEW t \in Sources, Break(t) PROVE UNCHANGED <<from, pos>>
  BY <1>7 DEF Break
<1>8. CASE ClientLeaves \/ RequestCancelled \/ EventsReturn \/ EventsSend \/ UNCHANGED vars
  BY <1>8 DEF ClientLeaves, RequestCancelled, EventsReturn, EventsSend, vars
<1>9. CASE \/ OpenLogs \/ OpenFails \/ SelectCtxDone \/ SelectEvent \/ SelectZeroEvent
           \/ SelectLog \/ WriteOk \/ WriteFails
  BY <1>9 DEF OpenLogs, OpenFails, SelectCtxDone, SelectEvent, SelectZeroEvent, SelectLog,
              WriteOk, WriteFails
<1> QED BY <1>1, <1>2, <1>3, <1>4, <1>5, <1>6, <1>7, <1>8, <1>9
        DEF Next, Environment, Handler, Worker, EventsWorker

-----------------------------------------------------------------------------
(* Every step keeps the items read. *)

\* What TypeOK says of the items on their way, element by element.
LEMMA ItemTypes ==
  ASSUME TypeOK
  PROVE  /\ out \in Seq(Lines \cup Events)
         /\ logChan \in Seq(Lines) /\ eventChan \in Seq(Events)
         /\ \A i \in 1..Len(out) : out[i] \in Lines \cup Events
         /\ \A i \in 1..Len(eventChan) : eventChan[i] \in Events
         /\ \A i \in 1..Len(logChan) : logChan[i] \in Lines
         /\ hand # ZeroEvent => hand \in Lines \cup Events
<1>1. /\ out \in Seq(Lines \cup Events)
      /\ logChan \in Seq(Lines) /\ eventChan \in Seq(Events)
      /\ hand # ZeroEvent => hand \in Lines \cup Events
  BY DEF TypeOK
<1>2. \A i \in 1..Len(out) : out[i] \in Lines \cup Events
  BY <1>1, ElementOfSeq
<1>3. \A i \in 1..Len(eventChan) : eventChan[i] \in Events
  BY <1>1, ElementOfSeq
<1>4. \A i \in 1..Len(logChan) : logChan[i] \in Lines
  BY <1>1, ElementOfSeq
<1> QED BY <1>1, <1>2, <1>3, <1>4

LEMMA ItemsStep ==
  ASSUME TypeOK, StreamsOK, ItemsOK, [Next]_vars
  PROVE  ItemsOK'
<1> USE SourcesAssumption
<1> DEFINE StillRead(e) == /\ from'[e.src] # Unattached
                           /\ from'[e.src] < e.n /\ e.n <= pos'[e.src]
           Visible(e) == Kind(e.src, e.n) # Blank
<1>1. ASSUME NEW e \in Lines \cup Events, WasRead(e) PROVE StillRead(e)
  <2>1. e.src \in Sources /\ e.n \in Nat
    BY DEF Lines, Events, Sources
  <2>2. from[e.src] # Unattached /\ pos[e.src] \in Nat
    BY <1>1, <2>1 DEF WasRead, TypeOK
  <2>3. from'[e.src] = from[e.src] /\ pos[e.src] <= pos'[e.src]
    BY <2>1, <2>2, StreamsGrow
  <2>4. pos'[e.src] \in Nat
    BY <2>1, TypeStep DEF TypeOK
  <2> QED BY <1>1, <2>1, <2>2, <2>3, <2>4 DEF WasRead
<1>2. /\ \A i \in 1..Len(out) : out[i] \in Lines \cup Events
      /\ \A i \in 1..Len(eventChan) : eventChan[i] \in Events
      /\ \A i \in 1..Len(logChan) : logChan[i] \in Lines
      /\ hand # ZeroEvent => hand \in Lines \cup Events
  BY ItemTypes
<1>3. /\ \A i \in 1..Len(out) : StillRead(out[i])
      /\ \A i \in 1..Len(eventChan) : StillRead(eventChan[i])
      /\ \A i \in 1..Len(logChan) : StillRead(logChan[i]) /\ Visible(logChan[i])
      /\ handler = "write" /\ hand # ZeroEvent => StillRead(hand)
  BY <1>1, <1>2 DEF ItemsOK
<1> SUFFICES /\ \A i \in 1..Len(out') : StillRead(out'[i])
             /\ \A i \in 1..Len(eventChan') : StillRead(eventChan'[i])
             /\ \A i \in 1..Len(logChan') : StillRead(logChan'[i]) /\ Visible(logChan'[i])
             /\ handler' = "write" /\ hand' # ZeroEvent => StillRead(hand')
  BY DEF ItemsOK, WasRead
<1> HIDE DEF StillRead, Visible
<1>4. CASE Quiet
  BY <1>3, <1>4 DEF Quiet
<1>5. CASE SelectEvent
  <2>1. /\ \A i \in 1..Len(eventChan') : StillRead(eventChan'[i])
        /\ StillRead(Head(eventChan))
    <3>1. eventChan' = Tail(eventChan) /\ eventChan # <<>> /\ eventChan \in Seq(Events)
      BY <1>5 DEF SelectEvent, TypeOK
    <3>2. /\ \A i \in 1..Len(eventChan') : \E j \in 1..Len(eventChan) : eventChan'[i] = eventChan[j]
          /\ \E j \in 1..Len(eventChan) : Head(eventChan) = eventChan[j]
      BY <3>1, ElementsOfTail
    <3> QED BY <1>3, <3>2
  <2>2. hand' # ZeroEvent /\ handler' = "write" => hand' = Head(eventChan)
    BY <1>5 DEF SelectEvent, Render
  <2> QED BY <1>3, <1>5, <2>1, <2>2 DEF SelectEvent, answer
<1>6. CASE SelectZeroEvent
  <2>1. handler' = "write" => hand' = ZeroEvent
    BY <1>6 DEF SelectZeroEvent, Render
  <2> QED BY <1>3, <1>6, <2>1 DEF SelectZeroEvent, chans, answer
<1>7. CASE SelectLog
  <2>1. /\ \A i \in 1..Len(logChan') : StillRead(logChan'[i]) /\ Visible(logChan'[i])
        /\ StillRead(Head(logChan))
    <3>1. logChan' = Tail(logChan) /\ logChan # <<>> /\ logChan \in Seq(Lines)
      BY <1>7 DEF SelectLog, TypeOK
    <3>2. /\ \A i \in 1..Len(logChan') : \E j \in 1..Len(logChan) : logChan'[i] = logChan[j]
          /\ \E j \in 1..Len(logChan) : Head(logChan) = logChan[j]
      BY <3>1, ElementsOfTail
    <3> QED BY <1>3, <3>2
  <2>2. handler' = "write" => hand' = Head(logChan)
    BY <1>7 DEF SelectLog, Render
  <2> QED BY <1>3, <1>7, <2>1, <2>2 DEF SelectLog, answer
<1>8. CASE WriteOk
  <2>1. CASE hand = ZeroEvent
    BY <1>3, <1>8, <2>1 DEF WriteOk, chans
  <2>2. CASE hand # ZeroEvent
    <3>1. \A i \in 1..Len(out') : StillRead(out'[i])
      <4>1. /\ out' = Append(out, hand) /\ out \in Seq(Lines \cup Events)
            /\ hand \in Lines \cup Events /\ StillRead(hand)
        BY <1>2, <1>3, <1>8, <2>2 DEF WriteOk, TypeOK
      <4>2. \A i \in 1..Len(out') : out'[i] = hand \/ \E j \in 1..Len(out) : out'[i] = out[j]
        BY <4>1, ElementsOfAppend
      <4> QED BY <1>3, <4>1, <4>2
    <3> QED BY <1>3, <1>8, <3>1 DEF WriteOk, chans
  <2> QED BY <2>1, <2>2
<1>9. ASSUME NEW c \in Containers, Send(c) PROVE
        \A i \in 1..Len(logChan') : StillRead(logChan'[i]) /\ Visible(logChan'[i])
  <2> DEFINE e == Item(c, pos[c])
  <2>1. c \in Sources /\ worker[c] = "send"
    BY <1>9 DEF Send, Sources
  <2>2. e \in Lines /\ WasRead(e)
    BY <2>1, SendingItem DEF Lines, WasRead, Item
  <2>3. StillRead(e)
    BY <1>1, <2>2
  <2>4. Visible(e)
    BY <2>1 DEF StreamsOK, Visible, Item
  <2> HIDE DEF e
  <2>5. logChan' = Append(logChan, e)
    BY <1>9 DEF Send, e
  <2>6. \A i \in 1..Len(logChan') : logChan'[i] = e \/ \E j \in 1..Len(logChan) : logChan'[i] = logChan[j]
    <3>1. logChan \in Seq(Lines)
      BY DEF TypeOK
    <3> QED BY <2>2, <2>5, <3>1, ElementsOfAppend
  <2> QED BY <1>3, <2>3, <2>4, <2>6
<1>10. CASE \E c \in Containers : Send(c)
  BY <1>3, <1>9, <1>10 DEF Send, answer
<1>11. CASE EventsSend
  <2> DEFINE e == Item(DockerEvents, pos[DockerEvents])
  <2>1. DockerEvents \in Sources /\ worker[DockerEvents] = "send"
    BY <1>11 DEF EventsSend, Sources
  <2>2. e \in Events /\ WasRead(e)
    BY <2>1, SendingItem DEF Events, WasRead, Item
  <2>3. StillRead(e)
    BY <1>1, <2>2
  <2> HIDE DEF e
  <2>4. eventChan' = Append(eventChan, e)
    BY <1>11 DEF EventsSend, e
  <2>5. \A i \in 1..Len(eventChan') : StillRead(eventChan'[i])
    <3>1. \A i \in 1..Len(eventChan') :
            eventChan'[i] = e \/ \E j \in 1..Len(eventChan) : eventChan'[i] = eventChan[j]
      <4>1. eventChan \in Seq(Events)
        BY DEF TypeOK
      <4> QED BY <2>2, <2>4, <4>1, ElementsOfAppend
    <3> QED BY <1>3, <2>3, <3>1
  <2> QED BY <1>3, <1>11, <2>5 DEF EventsSend, answer
<1> QED BY Moves, <1>4, <1>5, <1>6, <1>7, <1>8, <1>10, <1>11

-----------------------------------------------------------------------------
(* Every step keeps the items in order. *)

\* A worker comes to send by reading the next item, and then sends that one.
LEMMA SendStep ==
  ASSUME TypeOK, [Next]_vars, NEW s \in Sources, worker'[s] = "send"
  PROVE  \/ worker[s] = "send" /\ pos'[s] = pos[s]
         \/ worker[s] = "read" /\ pos'[s] = pos[s] + 1 /\ UNCHANGED <<out, logChan, eventChan>>
<1> USE SourcesAssumption
<1> USE DEF TypeOK, Sources, docker, request, streams, chans, answer
<1>1. ASSUME NEW c \in Containers, ReadFrame(c) PROVE
        \/ worker[s] = "send" /\ pos'[s] = pos[s]
        \/ worker[s] = "read" /\ pos'[s] = pos[s] + 1 /\ UNCHANGED <<out, logChan, eventChan>>
  BY <1>1 DEF ReadFrame, Goto
<1>2. CASE EventsReceive
  BY <1>2 DEF EventsReceive, Goto
<1>3. ASSUME NEW c \in Containers, Attach(c) PROVE worker[s] = "send" /\ pos'[s] = pos[s]
  <2>1. LoopTop # "send"
    BY DEF LoopTop
  <2>2. c # s
    BY <1>3, <2>1 DEF Attach, Goto
  <2> QED BY <1>3, <2>2 DEF Attach, Goto
<1>4. ASSUME NEW c \in Containers, Send(c) PROVE worker[s] = "send" /\ pos'[s] = pos[s]
  <2>1. LoopTop # "send"
    BY DEF LoopTop
  <2> QED BY <1>4, <2>1 DEF Send, Goto
<1>5. CASE OpenEvents
  <2>1. s # DockerEvents
    BY <1>5 DEF OpenEvents
  <2> QED BY <1>5, <2>1 DEF OpenEvents
<1>6. CASE OpenLogs
  BY <1>6 DEF OpenLogs
<1>7. ASSUME NEW c \in Containers, AttachFails(c) \/ ReadEnds(c) \/ SendCancelled(c)
      PROVE  worker[s] = "send" /\ pos'[s] = pos[s]
  BY <1>7 DEF AttachFails, ReadEnds, SendCancelled, Goto
<1>8. CASE EventsReturn \/ EventsSend
  BY <1>8 DEF EventsReturn, EventsSend, Goto
<1>9. CASE UNCHANGED <<worker, pos>>
  BY <1>9
<1>10. ASSUME NEW c \in Containers, Produce(c) \/ Lifecycle(c) PROVE UNCHANGED <<worker, pos>>
  BY <1>10 DEF Produce, Lifecycle
<1>11. ASSUME NEW t \in Sources, Break(t) PROVE UNCHANGED <<worker, pos>>
  BY <1>11 DEF Break
<1>12. CASE ClientLeaves \/ RequestCancelled \/ UNCHANGED vars
  BY <1>12 DEF ClientLeaves, RequestCancelled, vars
<1>13. CASE \/ OpenFails \/ SelectCtxDone \/ SelectEvent \/ SelectZeroEvent \/ SelectLog
            \/ WriteOk \/ WriteFails
  BY <1>13 DEF OpenFails, SelectCtxDone, SelectEvent, SelectZeroEvent, SelectLog, WriteOk,
               WriteFails
<1> QED BY <1>1, <1>2, <1>3, <1>4, <1>5, <1>6, <1>7, <1>8, <1>9, <1>10, <1>11, <1>12, <1>13
        DEF Next, Environment, Handler, Worker, EventsWorker

\* What a worker has not read yet comes after everything on its way.
LEMMA UnreadIsLast ==
  ASSUME TypeOK, ItemsOK, NEW e \in Lines \cup Events, pos[e.src] < e.n
  PROVE  Before(out, e) /\ Before(logChan, e) /\ Before(eventChan, e) /\ HandBefore(e)
<1>1. e.src \in Sources /\ e.n \in Nat \ {0} /\ pos[e.src] \in Nat
  BY DEF Lines, Events, Sources, TypeOK
<1>2. ASSUME NEW x \in Lines \cup Events, WasRead(x), x.src = e.src PROVE x.n < e.n
  <2>1. x.n \in Nat /\ x.n <= pos[e.src]
    BY <1>2 DEF WasRead, Lines, Events
  <2> QED BY <1>1, <2>1
<1>3. /\ \A i \in 1..Len(out) : out[i] \in Lines \cup Events
      /\ \A i \in 1..Len(eventChan) : eventChan[i] \in Events
      /\ \A i \in 1..Len(logChan) : logChan[i] \in Lines
      /\ hand # ZeroEvent => hand \in Lines \cup Events
  BY ItemTypes
<1>4. Before(out, e) /\ Before(logChan, e) /\ Before(eventChan, e)
  BY <1>2, <1>3 DEF ItemsOK, Before
<1>5. HandBefore(e)
  <2>1. CASE hand = ZeroEvent
    BY <1>1, <2>1 DEF HandBefore, ZeroEvent, Item
  <2>2. CASE hand # ZeroEvent
    BY <1>2, <1>3, <2>2 DEF HandBefore, ItemsOK
  <2> QED BY <2>1, <2>2
<1> QED BY <1>4, <1>5

LEMMA OrderStep ==
  ASSUME TypeOK, StreamsOK, ItemsOK, InOrder, [Next]_vars
  PROVE  InOrder'
<1> USE SourcesAssumption
<1> DEFINE NextHandBefore(e) == handler' = "write" /\ hand'.src = e.src => hand'.n < e.n
           Sending(s) == Item(s, pos'[s])
<1>1. /\ out \in Seq(Lines \cup Events)
      /\ logChan \in Seq(Lines) /\ eventChan \in Seq(Events)
      /\ hand # ZeroEvent => hand \in Lines \cup Events
      /\ \A i \in 1..Len(eventChan) : eventChan[i] \in Events
      /\ \A i \in 1..Len(logChan) : logChan[i] \in Lines
  BY ItemTypes
<1>2. /\ Increasing(out) /\ Increasing(logChan) /\ Increasing(eventChan)
      /\ handler = "write" /\ hand # ZeroEvent => Before(out, hand)
      /\ \A i \in 1..Len(logChan) : Before(out, logChan[i]) /\ HandBefore(logChan[i])
      /\ \A i \in 1..Len(eventChan) : Before(out, eventChan[i]) /\ HandBefore(eventChan[i])
  BY DEF InOrder

\* What is to be sent after the step comes after everything that was on its way.
<1>3. ASSUME NEW s \in Sources, worker'[s] = "send"
      PROVE  /\ Sending(s) \in Lines \cup Events /\ Sending(s).src = s /\ Sending(s).n \in Nat \ {0}
             /\ Before(out, Sending(s)) /\ HandBefore(Sending(s))
             /\ Before(logChan, Sending(s)) /\ Before(eventChan, Sending(s))
  <2>1. pos[s] \in Nat
    BY DEF TypeOK
  <2>2. CASE worker[s] = "send" /\ pos'[s] = pos[s]
    <3>1. Sending(s) \in Lines \cup Events
      BY <2>2, SendingItem DEF Lines, Events, Sources
    <3>2. Sending(s).src = s /\ Sending(s).n \in Nat \ {0}
      BY <2>2, SendingItem DEF Item
    <3> QED BY <2>2, <3>1, <3>2 DEF InOrder
  <2>3. CASE worker[s] = "read" /\ pos'[s] = pos[s] + 1
    <3>1. Sending(s) \in Lines \cup Events
      BY <2>1, <2>3 DEF Lines, Events, Sources, Item
    <3>2. Sending(s).src = s /\ Sending(s).n \in Nat \ {0} /\ pos[s] < Sending(s).n
      BY <2>1, <2>3 DEF Item
    <3> QED BY <3>1, <3>2, UnreadIsLast
  <2> QED BY <1>3, <2>2, <2>3, SendStep
<1> DEFINE NextInOrder ==
             /\ Increasing(out') /\ Increasing(logChan') /\ Increasing(eventChan')
             /\ handler' = "write" /\ hand' # ZeroEvent => Before(out', hand')
             /\ \A i \in 1..Len(logChan') : Before(out', logChan'[i]) /\ NextHandBefore(logChan'[i])
             /\ \A i \in 1..Len(eventChan') :
                  Before(out', eventChan'[i]) /\ NextHandBefore(eventChan'[i])
             /\ \A s \in Sources :
                  worker'[s] = "send" =>
                    /\ Before(out', Sending(s)) /\ NextHandBefore(Sending(s))
                    /\ Before(logChan', Sending(s)) /\ Before(eventChan', Sending(s))
<1> SUFFICES NextInOrder
  BY DEF InOrder, HandBefore, Before, Increasing, Item, ZeroEvent
<1>4. CASE Quiet
  <2>1. \A e : HandBefore(e) => NextHandBefore(e)
    BY <1>4 DEF Quiet, HandBefore
  <2> QED BY <1>2, <1>3, <1>4, <2>1 DEF Quiet
<1> HIDE DEF NextHandBefore, Sending
<1>5. CASE SelectEvent
  <2> DEFINE h == Head(eventChan)
  <2>1. /\ eventChan \in Seq(Events) /\ eventChan # <<>> /\ eventChan' = Tail(eventChan)
        /\ out' = out /\ logChan' = logChan /\ handler = "select"
        /\ handler' = "write" => hand' = h
    BY <1>5 DEF SelectEvent, Render, answer, TypeOK
  <2>2. /\ Increasing(eventChan')
        /\ \A i \in 1..Len(eventChan') : h.src = eventChan'[i].src => h.n < eventChan'[i].n
    BY <1>2, <2>1, IncreasingTail
  <2>3. /\ \A i \in 1..Len(eventChan') : \E j \in 1..Len(eventChan) : eventChan'[i] = eventChan[j]
        /\ \E j \in 1..Len(eventChan) : h = eventChan[j]
    BY <2>1, ElementsOfTail
  <2>4. h \in Events /\ Before(out, h)
    BY <1>1, <1>2, <2>3
  <2>5. \A i \in 1..Len(logChan) : logChan[i].src # h.src
    BY <1>1, <2>4 DEF Lines, Events
  <2>6. ASSUME NEW s \in Sources, worker'[s] = "send"
        PROVE  NextHandBefore(Sending(s)) /\ Before(eventChan', Sending(s))
    <3>1. Before(eventChan, Sending(s))
      BY <1>3, <2>6
    <3>2. h.src = Sending(s).src => h.n < Sending(s).n
      BY <2>3, <3>1 DEF Before
    <3>3. Before(eventChan', Sending(s))
      BY <2>1, <3>1, BeforeTail
    <3> QED BY <2>1, <3>2, <3>3 DEF NextHandBefore
  <2> HIDE DEF h
  <2>7. \A i \in 1..Len(eventChan') : Before(out, eventChan'[i]) /\ NextHandBefore(eventChan'[i])
    BY <1>2, <2>1, <2>2, <2>3 DEF NextHandBefore
  <2>8. \A i \in 1..Len(logChan) : NextHandBefore(logChan[i])
    BY <2>1, <2>5 DEF NextHandBefore
  <2> QED BY <1>2, <1>3, <2>1, <2>2, <2>4, <2>6, <2>7, <2>8
<1>6. CASE SelectZeroEvent
  <2>1. /\ UNCHANGED <<out, logChan, eventChan>>
        /\ handler' = "write" => hand' = ZeroEvent
    BY <1>6 DEF SelectZeroEvent, Render, chans, answer
  <2>2. \A e \in Lines \cup Events : NextHandBefore(e)
    BY <2>1 DEF NextHandBefore, ZeroEvent, Item, Lines, Events
  <2> QED BY <1>1, <1>2, <1>3, <2>1, <2>2
<1>7. CASE SelectLog
  <2> DEFINE h == Head(logChan)
  <2>1. /\ logChan \in Seq(Lines) /\ logChan # <<>> /\ logChan' = Tail(logChan)
        /\ out' = out /\ eventChan' = eventChan /\ handler = "select"
        /\ handler' = "write" => hand' = h
    BY <1>7 DEF SelectLog, Render, answer, TypeOK
  <2>2. /\ Increasing(logChan')
        /\ \A i \in 1..Len(logChan') : h.src = logChan'[i].src => h.n < logChan'[i].n
    BY <1>2, <2>1, IncreasingTail
  <2>3. /\ \A i \in 1..Len(logChan') : \E j \in 1..Len(logChan) : logChan'[i] = logChan[j]
        /\ \E j \in 1..Len(logChan) : h = logChan[j]
    BY <2>1, ElementsOfTail
  <2>4. h \in Lines /\ Before(out, h)
    BY <1>1, <1>2, <2>3
  <2>5. \A i \in 1..Len(eventChan) : eventChan[i].src # h.src
    BY <1>1, <2>4 DEF Lines, Events
  <2>6. ASSUME NEW s \in Sources, worker'[s] = "send"
        PROVE  NextHandBefore(Sending(s)) /\ Before(logChan', Sending(s))
    <3>1. Before(logChan, Sending(s))
      BY <1>3, <2>6
    <3>2. h.src = Sending(s).src => h.n < Sending(s).n
      BY <2>3, <3>1 DEF Before
    <3>3. Before(logChan', Sending(s))
      BY <2>1, <3>1, BeforeTail
    <3> QED BY <2>1, <3>2, <3>3 DEF NextHandBefore
  <2> HIDE DEF h
  <2>7. \A i \in 1..Len(logChan') : Before(out, logChan'[i]) /\ NextHandBefore(logChan'[i])
    BY <1>2, <2>1, <2>2, <2>3 DEF NextHandBefore
  <2>8. \A i \in 1..Len(eventChan) : NextHandBefore(eventChan[i])
    BY <2>1, <2>5 DEF NextHandBefore
  <2> QED BY <1>2, <1>3, <2>1, <2>2, <2>4, <2>6, <2>7, <2>8
<1>8. CASE WriteOk
  <2>1. /\ UNCHANGED <<logChan, eventChan>> /\ handler = "write" /\ handler' = "select"
        /\ out' = IF hand = ZeroEvent THEN out ELSE Append(out, hand)
    BY <1>8 DEF WriteOk, chans
  <2>2. \A e : NextHandBefore(e)
    BY <2>1 DEF NextHandBefore
  <2>3. Increasing(out')
    BY <1>1, <1>2, <2>1, IncreasingAppend
  <2>4. ASSUME NEW e, Before(out, e), HandBefore(e) PROVE Before(out', e)
    <3>1. CASE hand = ZeroEvent
      BY <2>1, <2>4, <3>1
    <3>2. CASE hand # ZeroEvent
      BY <1>1, <2>1, <2>4, <3>2, BeforeAppend DEF HandBefore
    <3> QED BY <3>1, <3>2
  <2>5. ASSUME NEW s \in Sources, worker'[s] = "send" PROVE Before(out', Sending(s))
    BY <1>3, <2>4, <2>5
  <2>6. /\ \A i \in 1..Len(logChan') : Before(out', logChan'[i])
        /\ \A i \in 1..Len(eventChan') : Before(out', eventChan'[i])
    BY <1>2, <2>1, <2>4
  <2> QED BY <1>2, <1>3, <2>1, <2>2, <2>3, <2>5, <2>6

\* A send appends an item that was already after all others.
<1>9. ASSUME NEW t \in Sources, worker[t] = "send", worker'[t] # "send",
             UNCHANGED <<handler, hand, out>>,
             \/ /\ t \in Containers /\ logChan' = Append(logChan, Item(t, pos[t]))
                /\ eventChan' = eventChan
             \/ /\ t = DockerEvents /\ eventChan' = Append(eventChan, Item(t, pos[t]))
                /\ logChan' = logChan
      PROVE  NextInOrder
  <2> DEFINE e == Item(t, pos[t])
  <2>1. /\ e.src = t /\ (t \in Containers => e \in Lines) /\ (t = DockerEvents => e \in Events)
    BY <1>9, SendingItem DEF Lines, Events, Item
  <2>2. Before(out, e) /\ HandBefore(e) /\ Before(logChan, e) /\ Before(eventChan, e)
    BY <1>9 DEF InOrder
  <2>3. \A x : HandBefore(x) => NextHandBefore(x)
    BY <1>9 DEF NextHandBefore, HandBefore
  <2> HIDE DEF e
  <2>4. CASE t \in Containers /\ logChan' = Append(logChan, e) /\ eventChan' = eventChan
    <3>1. Increasing(logChan')
      BY <1>1, <1>2, <2>1, <2>2, <2>4, IncreasingAppend
    <3>2. \A i \in 1..Len(logChan') : logChan'[i] = e \/ \E j \in 1..Len(logChan) : logChan'[i] = logChan[j]
      BY <1>1, <2>1, <2>4, ElementsOfAppend
    <3>3. ASSUME NEW s \in Sources, worker'[s] = "send" PROVE Before(logChan', Sending(s))
      <4>1. Before(logChan, Sending(s)) /\ Sending(s).src # e.src
        BY <1>3, <1>9, <2>1, <3>3
      <4> QED BY <1>1, <2>1, <2>4, <4>1, BeforeAppend
    <3> QED BY <1>2, <1>3, <1>9, <2>2, <2>3, <2>4, <3>1, <3>2, <3>3
  <2>5. CASE t = DockerEvents /\ eventChan' = Append(eventChan, e) /\ logChan' = logChan
    <3>1. Increasing(eventChan')
      BY <1>1, <1>2, <2>1, <2>2, <2>5, IncreasingAppend
    <3>2. \A i \in 1..Len(eventChan') :
            eventChan'[i] = e \/ \E j \in 1..Len(eventChan) : eventChan'[i] = eventChan[j]
      BY <1>1, <2>1, <2>5, ElementsOfAppend
    <3>3. ASSUME NEW s \in Sources, worker'[s] = "send" PROVE Before(eventChan', Sending(s))
      <4>1. Before(eventChan, Sending(s)) /\ Sending(s).src # e.src
        BY <1>3, <1>9, <2>1, <3>3
      <4> QED BY <1>1, <2>1, <2>5, <4>1, BeforeAppend
    <3> QED BY <1>2, <1>3, <1>9, <2>2, <2>3, <2>5, <3>1, <3>2, <3>3
  <2> QED BY <1>9, <2>4, <2>5 DEF e
<1>10. ASSUME NEW c \in Containers, Send(c) PROVE NextInOrder
  <2>1. LoopTop # "send"
    BY DEF LoopTop
  <2>2. c \in Sources /\ worker[c] = "send" /\ worker'[c] # "send"
    BY <1>10, <2>1 DEF Send, Goto, TypeOK, Sources
  <2>3. UNCHANGED <<handler, hand, out>>
        /\ logChan' = Append(logChan, Item(c, pos[c])) /\ eventChan' = eventChan
    BY <1>10 DEF Send, answer
  <2> QED BY <1>9, <2>2, <2>3
<1>11. CASE EventsSend
  <2>1. /\ DockerEvents \in Sources /\ worker[DockerEvents] = "send"
        /\ worker'[DockerEvents] # "send"
    BY <1>11 DEF EventsSend, Goto, TypeOK, Sources
  <2>2. UNCHANGED <<handler, hand, out>>
        /\ eventChan' = Append(eventChan, Item(DockerEvents, pos[DockerEvents]))
        /\ logChan' = logChan
    BY <1>11 DEF EventsSend, answer
  <2> QED BY <1>9, <2>1, <2>2
<1> QED BY Moves, <1>4, <1>5, <1>6, <1>7, <1>8, <1>10, <1>11

-----------------------------------------------------------------------------
(* Every step loses nothing. *)

\* The request is fixed; a connection that is intact after a step was before it.
LEMMA IntactStep ==
  ASSUME [Next]_vars
  PROVE  levelFilter' = levelFilter /\ (Intact' => Intact)
<1> USE DEF Intact, docker, request, streams, chans, answer
<1>1. ASSUME NEW c \in Containers, Produce(c) \/ Lifecycle(c)
      PROVE  UNCHANGED <<request, ctxDone, handler>>
  BY <1>1 DEF Produce, Lifecycle
<1>2. ASSUME NEW s \in Sources, Break(s) PROVE UNCHANGED <<request, ctxDone, handler>>
  BY <1>2 DEF Break
<1>3. CASE ClientLeaves \/ RequestCancelled
  BY <1>3 DEF ClientLeaves, RequestCancelled
<1>4. CASE OpenLogs \/ OpenEvents \/ OpenFails \/ SelectCtxDone \/ WriteFails
  BY <1>4 DEF OpenLogs, OpenEvents, OpenFails, SelectCtxDone, WriteFails, Return
<1>5. CASE SelectEvent \/ SelectZeroEvent \/ SelectLog \/ WriteOk
  BY <1>5 DEF SelectEvent, SelectZeroEvent, SelectLog, WriteOk, Render
<1>6. ASSUME NEW c \in Containers, Worker(c) PROVE UNCHANGED <<request, ctxDone, handler>>
  BY <1>6 DEF Worker, Attach, AttachFails, ReadFrame, ReadEnds, Send, SendCancelled
<1>7. CASE EventsWorker
  BY <1>7 DEF EventsWorker, EventsReceive, EventsSend, EventsReturn
<1>8. CASE UNCHANGED vars
  BY <1>8 DEF vars
<1> QED BY <1>1, <1>2, <1>3, <1>4, <1>5, <1>6, <1>7, <1>8 DEF Next, Environment, Handler

\* A worker keeps the item it has until it sends it.
LEMMA WorkerItemStep ==
  ASSUME TypeOK, StreamsOK, [Next]_vars, NEW s \in Sources, NEW n, AtWorker(s, n)
  PROVE  \/ AtWorker(s, n)'
         \/ s \in Containers /\ Send(s)
         \/ s = DockerEvents /\ EventsSend
<1> USE SourcesAssumption
<1> USE DEF AtWorker, TypeOK, StreamsOK, Sources, docker, request, streams, chans, answer
<1>1. ASSUME NEW c \in Containers, Attach(c) \/ AttachFails(c) PROVE AtWorker(s, n)'
  <2>1. c # s
    BY <1>1 DEF Attach, AttachFails
  <2> QED BY <1>1, <2>1 DEF Attach, AttachFails, Goto
<1>2. ASSUME NEW c \in Containers, ReadFrame(c) \/ ReadEnds(c) PROVE AtWorker(s, n)'
  <2>1. c # s
    BY <1>2 DEF ReadFrame, ReadEnds
  <2> QED BY <1>2, <2>1 DEF ReadFrame, ReadEnds, Goto
<1>3. ASSUME NEW c \in Containers, Send(c), c # s PROVE AtWorker(s, n)'
  BY <1>3 DEF Send, Goto
<1>4. ASSUME NEW c \in Containers, SendCancelled(c) PROVE AtWorker(s, n)'
  BY <1>4 DEF SendCancelled, Goto
<1>5. CASE EventsReceive \/ EventsReturn
  <2>1. s # DockerEvents
    BY <1>5 DEF EventsReceive, EventsReturn
  <2> QED BY <1>5, <2>1 DEF EventsReceive, EventsReturn, Goto
<1>6. ASSUME EventsSend, s # DockerEvents PROVE AtWorker(s, n)'
  BY <1>6 DEF EventsSend, Goto
<1>7. CASE OpenEvents
  <2>1. s # DockerEvents
    BY <1>7 DEF OpenEvents
  <2> QED BY <1>7, <2>1 DEF OpenEvents
<1>8. CASE OpenLogs
  BY <1>8 DEF OpenLogs
<1>9. CASE UNCHANGED <<worker, pos>>
  BY <1>9
<1>10. ASSUME NEW c \in Containers, Produce(c) \/ Lifecycle(c) PROVE UNCHANGED <<worker, pos>>
  BY <1>10 DEF Produce, Lifecycle
<1>11. ASSUME NEW t \in Sources, Break(t) PROVE UNCHANGED <<worker, pos>>
  BY <1>11 DEF Break
<1>12. CASE ClientLeaves \/ RequestCancelled \/ UNCHANGED vars
  BY <1>12 DEF ClientLeaves, RequestCancelled, vars
<1>13. CASE \/ OpenFails \/ SelectCtxDone \/ SelectEvent \/ SelectZeroEvent \/ SelectLog
            \/ WriteOk \/ WriteFails
  BY <1>13 DEF OpenFails, SelectCtxDone, SelectEvent, SelectZeroEvent, SelectLog, WriteOk,
               WriteFails
<1> QED BY <1>1, <1>2, <1>3, <1>4, <1>5, <1>6, <1>7, <1>8, <1>9, <1>10, <1>11, <1>12, <1>13
        DEF Next, Environment, Handler, Worker, EventsWorker

\* The handler keeps the item it writes until it has written it or returns.
LEMMA HandStep ==
  ASSUME [Next]_vars, handler = "write"
  PROVE  WriteOk \/ handler' = "done" \/ (handler' = "write" /\ hand' = hand)
<1> USE DEF docker, request, streams, chans, answer
<1>1. ASSUME NEW c \in Containers, Produce(c) \/ Lifecycle(c) PROVE UNCHANGED <<handler, hand>>
  BY <1>1 DEF Produce, Lifecycle
<1>2. ASSUME NEW s \in Sources, Break(s) PROVE UNCHANGED <<handler, hand>>
  BY <1>2 DEF Break
<1>3. CASE ClientLeaves \/ RequestCancelled \/ UNCHANGED vars
  BY <1>3 DEF ClientLeaves, RequestCancelled, vars
<1>4. CASE Handler
  BY <1>4 DEF Handler, OpenLogs, OpenEvents, OpenFails, SelectCtxDone, SelectEvent,
              SelectZeroEvent, SelectLog, WriteFails, Return
<1>5. ASSUME NEW c \in Containers, Worker(c) PROVE UNCHANGED <<handler, hand>>
  BY <1>5 DEF Worker, Attach, AttachFails, ReadFrame, ReadEnds, Send, SendCancelled
<1>6. CASE EventsWorker
  BY <1>6 DEF EventsWorker, EventsReceive, EventsSend, EventsReturn
<1> QED BY <1>1, <1>2, <1>3, <1>4, <1>5, <1>6 DEF Next, Environment

\* An item that becomes due in a step was read in it: the worker has it, or it is blank.
LEMMA NewlyRead ==
  ASSUME TypeOK, StreamsOK, [Next]_vars, NEW s \in Sources, from'[s] # Unattached,
         NEW n \in (from'[s] + 1)..pos'[s], ~(from[s] # Unattached /\ n \in (from[s] + 1)..pos[s])
  PROVE  AtWorker(s, n)' \/ ~Relevant(levelFilter, s, n)
<1> USE SourcesAssumption
<1> USE DEF TypeOK, StreamsOK, Sources, docker, request, streams, chans, answer
<1>1. ASSUME NEW c \in Containers, Attach(c) PROVE FALSE
  <2>1. CASE c = s
    <3>1. TailStart(c) \in Nat
      BY BoundAssumption DEF TailStart
    <3>2. from'[s] = TailStart(c) /\ pos'[s] = TailStart(c)
      BY <1>1, <2>1 DEF Attach
    <3> QED BY <3>1, <3>2
  <2>2. CASE c # s
    <3>1. from'[s] = from[s] /\ pos'[s] = pos[s]
      BY <1>1, <2>2 DEF Attach
    <3> QED BY <3>1
  <2> QED BY <2>1, <2>2
<1>2. CASE OpenEvents
  <2>1. CASE s = DockerEvents
    <3>1. from'[s] = produced[s] /\ pos'[s] = produced[s] /\ produced[s] \in Nat
      BY <1>2, <2>1 DEF OpenEvents
    <3> QED BY <3>1
  <2>2. CASE s # DockerEvents
    BY <1>2, <2>2 DEF OpenEvents
  <2> QED BY <2>1, <2>2
<1>3. ASSUME NEW c \in Containers, ReadFrame(c)
      PROVE  AtWorker(s, n)' \/ ~Relevant(levelFilter, s, n)
  <2>1. CASE c # s
    BY <1>3, <2>1 DEF ReadFrame
  <2>2. CASE c = s
    <3>1. from[s] # Unattached /\ from'[s] = from[s] /\ pos'[s] = pos[s] + 1
      BY <1>3, <2>2 DEF ReadFrame
    <3>2. n = pos[s] + 1
      <4>1. from[s] \in Nat /\ pos[s] \in Nat /\ n \in (from[s] + 1)..(pos[s] + 1)
            /\ ~(n \in (from[s] + 1)..pos[s])
        BY <3>1
      <4> QED BY <4>1
    <3>3. CASE Kind(s, n) = Blank
      BY <2>2, <3>3 DEF Relevant
    <3>4. CASE Kind(s, n) # Blank
      <4>1. worker'[s] = "send"
        BY <1>3, <2>2, <3>2, <3>4 DEF ReadFrame, Goto
      <4> QED BY <3>1, <3>2, <4>1 DEF AtWorker
    <3> QED BY <3>3, <3>4
  <2> QED BY <2>1, <2>2
<1>4. CASE EventsReceive
  <2>1. CASE s # DockerEvents
    BY <1>4, <2>1 DEF EventsReceive
  <2>2. CASE s = DockerEvents
    <3>1. /\ from[s] # Unattached /\ from'[s] = from[s] /\ pos'[s] = pos[s] + 1
          /\ worker'[s] = "send"
      BY <1>4, <2>2 DEF EventsReceive, Goto
    <3>2. n = pos[s] + 1
      BY <3>1
    <3> QED BY <3>1, <3>2 DEF AtWorker
  <2> QED BY <2>1, <2>2
<1>5. CASE UNCHANGED <<from, pos>>
  BY <1>5
<1>6. ASSUME NEW c \in Containers,
             \/ Produce(c) \/ Lifecycle(c) \/ AttachFails(c) \/ ReadEnds(c) \/ Send(c)
             \/ SendCancelled(c)
      PROVE  UNCHANGED <<from, pos>>
  BY <1>6 DEF Produce, Lifecycle, AttachFails, ReadEnds, Send, SendCancelled
<1>7. ASSUME NEW t \in Sources, Break(t) PROVE UNCHANGED <<from, pos>>
  BY <1>7 DEF Break
<1>8. CASE ClientLeaves \/ RequestCancelled \/ EventsReturn \/ EventsSend \/ UNCHANGED vars
  BY <1>8 DEF ClientLeaves, RequestCancelled, EventsReturn, EventsSend, vars
<1>9. CASE \/ OpenLogs \/ OpenFails \/ SelectCtxDone \/ SelectEvent \/ SelectZeroEvent
           \/ SelectLog \/ WriteOk \/ WriteFails
  BY <1>9 DEF OpenLogs, OpenFails, SelectCtxDone, SelectEvent, SelectZeroEvent, SelectLog,
              WriteOk, WriteFails
<1> QED BY <1>1, <1>2, <1>3, <1>4, <1>5, <1>6, <1>7, <1>8, <1>9
        DEF Next, Environment, Handler, Worker, EventsWorker

\* An item on its way stays on its way.
LEMMA OnItsWayStep ==
  ASSUME IInv, [Next]_vars, Intact', NEW s \in Sources, NEW n \in Nat \ {0},
         Relevant(levelFilter, s, n), OnItsWay(s, n)
  PROVE  OnItsWay(s, n)'
<1> USE SourcesAssumption
<1> DEFINE e == Item(s, n)
<1>1. TypeOK /\ StreamsOK
  BY DEF IInv
<1>2. /\ out \in Seq(Lines \cup Events) /\ logChan \in Seq(Lines) /\ eventChan \in Seq(Events)
      /\ hand # ZeroEvent => hand \in Lines \cup Events
  BY <1>1 DEF TypeOK
<1>3. e # ZeroEvent /\ e.src = s /\ e.n = n
  BY DEF ZeroEvent, Item
<1>4. OnItsWay(s, n)' <=> \/ In(out', e) \/ (handler' = "write" /\ hand' = e)
                          \/ In(logChan', e) \/ In(eventChan', e)
                          \/ AtWorker(s, n)'
  BY DEF OnItsWay, InHand, In, Item

\* Item by item: where it was, and where the step can have taken it.
<1>5. ASSUME In(out, e) PROVE In(out', e)
  <2>1. CASE UNCHANGED out
    BY <1>5, <2>1
  <2>2. CASE WriteOk
    <3>1. CASE hand = ZeroEvent
      BY <1>5, <2>2, <3>1 DEF WriteOk
    <3>2. CASE hand # ZeroEvent
      <4>1. out' = Append(out, hand)
        BY <2>2, <3>2 DEF WriteOk
      <4> QED BY <1>2, <1>5, <3>2, <4>1, InAppend
    <3> QED BY <3>1, <3>2
  <2> QED BY <2>1, <2>2, Moves
          DEF Quiet, SelectEvent, SelectZeroEvent, SelectLog, Send, EventsSend, answer
<1>6. ASSUME InHand(e) PROVE OnItsWay(s, n)'
  <2>1. CASE WriteOk
    <3>1. out' = Append(out, hand) /\ hand # ZeroEvent /\ hand = e
      BY <1>3, <1>6, <2>1 DEF WriteOk, InHand
    <3>2. In(out', e)
      BY <1>2, <3>1, InAppend
    <3> QED BY <1>4, <3>2
  <2>2. CASE handler' = "write" /\ hand' = hand
    BY <1>4, <1>6, <2>2 DEF InHand
  <2>3. handler' # "done"
    BY DEF Intact
  <2> QED BY <1>6, <2>1, <2>2, <2>3, HandStep DEF InHand
<1>7. ASSUME In(eventChan, e) PROVE OnItsWay(s, n)'
  <2>1. CASE UNCHANGED eventChan
    BY <1>4, <1>7, <2>1
  <2>2. CASE SelectEvent
    <3>1. eventChan # <<>> /\ eventChan' = Tail(eventChan) /\ ctxDone' = ctxDone
          /\ wantsJSON' = wantsJSON
      BY <2>2 DEF SelectEvent, request
    <3>2. handler' = "write" /\ hand' = Head(eventChan)
      BY <2>2, <3>1 DEF SelectEvent, Render, Intact
    <3>3. Head(eventChan) = e \/ In(eventChan', e)
      BY <1>2, <1>7, <3>1, InTail
    <3> QED BY <1>4, <3>2, <3>3
  <2>3. CASE EventsSend
    <3>1. Item(DockerEvents, pos[DockerEvents]) \in Events
      BY <1>1, <2>3, SendingItem DEF EventsSend, Events, Sources
    <3>2. In(eventChan', e)
      BY <1>2, <1>7, <2>3, <3>1, InAppend DEF EventsSend
    <3> QED BY <1>4, <3>2
  <2> QED BY <2>1, <2>2, <2>3, Moves
          DEF Quiet, SelectZeroEvent, SelectLog, WriteOk, Send, chans
<1>8. ASSUME In(logChan, e) PROVE OnItsWay(s, n)'
  <2>1. CASE UNCHANGED logChan
    BY <1>4, <1>8, <2>1
  <2>2. CASE SelectLog
    <3>1. logChan # <<>> /\ logChan' = Tail(logChan) /\ ctxDone' = ctxDone
          /\ wantsJSON' = wantsJSON
      BY <2>2 DEF SelectLog, request
    <3>2. Head(logChan) = e \/ In(logChan', e)
      BY <1>2, <1>8, <3>1, InTail
    <3>3. ASSUME Head(logChan) = e PROVE handler' = "write" /\ hand' = e
      <4>1. s \in Containers
        <5>1. Head(logChan) \in Lines
          BY <1>2, <3>1, HeadTailProperties
        <5> QED BY <1>3, <3>3, <5>1 DEF Lines
      <4>2. levelFilter = {} \/ Kind(s, n) \in levelFilter
        BY <4>1 DEF Relevant
      <4>3. Render(e)
        BY <1>3, <2>2, <3>3, <4>2 DEF SelectLog
      <4> QED BY <3>1, <4>3 DEF Render, Intact
    <3> QED BY <1>4, <3>2, <3>3
  <2>3. ASSUME NEW c \in Containers, Send(c) PROVE OnItsWay(s, n)'
    <3>1. Item(c, pos[c]) \in Lines
      BY <1>1, <2>3, SendingItem DEF Send, Lines, Sources
    <3>2. In(logChan', e)
      BY <1>2, <1>8, <2>3, <3>1, InAppend DEF Send
    <3> QED BY <1>4, <3>2
  <2> QED BY <2>1, <2>2, <2>3, Moves
          DEF Quiet, SelectEvent, SelectZeroEvent, WriteOk, EventsSend, chans
<1>9. ASSUME AtWorker(s, n) PROVE OnItsWay(s, n)'
  <2>1. CASE s \in Containers /\ Send(s)
    <3>1. e = Item(s, pos[s]) /\ logChan' = Append(logChan, e)
      BY <1>9, <2>1 DEF AtWorker, Send
    <3>2. e \in Lines
      BY <2>1 DEF Lines, Item
    <3>3. In(logChan', e)
      BY <1>2, <3>1, <3>2, InAppend
    <3> QED BY <1>4, <3>3
  <2>2. CASE s = DockerEvents /\ EventsSend
    <3>1. e = Item(s, pos[s]) /\ eventChan' = Append(eventChan, e)
      BY <1>9, <2>2 DEF AtWorker, EventsSend
    <3>2. e \in Events
      BY <2>2 DEF Events, Item
    <3>3. In(eventChan', e)
      BY <1>2, <3>1, <3>2, InAppend
    <3> QED BY <1>4, <3>3
  <2> QED BY <1>1, <1>4, <1>9, <2>1, <2>2, WorkerItemStep
<1> QED BY <1>4, <1>5, <1>6, <1>7, <1>8, <1>9 DEF OnItsWay

LEMMA NothingLostStep ==
  ASSUME IInv, [Next]_vars
  PROVE  NothingLost'
<1>1. TypeOK /\ StreamsOK /\ NothingLost /\ TypeOK'
  BY TypeStep DEF IInv
<1>2. levelFilter' = levelFilter /\ (Intact' => Intact)
  BY IntactStep
<1> SUFFICES ASSUME Intact', NEW s \in Sources, from'[s] # Unattached,
                    NEW n \in (from'[s] + 1)..pos'[s], Relevant(levelFilter, s, n)
             PROVE  OnItsWay(s, n)'
  BY <1>2 DEF NothingLost, Relevant, OnItsWay, In, InHand, AtWorker, Item
<1>3. n \in Nat \ {0}
  BY <1>1 DEF TypeOK
<1>4. CASE from[s] # Unattached /\ n \in (from[s] + 1)..pos[s]
  <2>1. OnItsWay(s, n)
    BY <1>1, <1>2, <1>4 DEF NothingLost
  <2> QED BY <1>3, <2>1, OnItsWayStep
<1>5. CASE ~(from[s] # Unattached /\ n \in (from[s] + 1)..pos[s])
  <2>1. AtWorker(s, n)'
    BY <1>1, <1>5, NewlyRead
  <2> QED BY <2>1 DEF OnItsWay
<1> QED BY <1>4, <1>5

-----------------------------------------------------------------------------
(* Every step leaves the handler with the next item due. *)

\* Everything due before the head of a channel is already written.
LEMMA HeadIsNext ==
  ASSUME IInv, Intact, handler = "select",
         NEW ch, ch = logChan \/ ch = eventChan, ch # <<>>,
         NEW m \in (from[Head(ch).src] + 1)..(Head(ch).n - 1),
         Relevant(levelFilter, Head(ch).src, m)
  PROVE  In(out, Item(Head(ch).src, m))
<1> USE SourcesAssumption
<1> DEFINE h == Head(ch)
           e == Item(h.src, m)
<1>1. TypeOK /\ ItemsOK /\ InOrder /\ NothingLost
  BY DEF IInv
<1>2. /\ logChan \in Seq(Lines) /\ eventChan \in Seq(Events) /\ ch \in Seq(Lines \cup Events)
      /\ Increasing(ch)
  BY <1>1, SeqMonotonic DEF TypeOK, InOrder
<1>3. /\ \E j \in 1..Len(ch) : h = ch[j]
      /\ h \in Lines \cup Events
  BY <1>2, ElementsOfTail, HeadTailProperties
<1>4. WasRead(h)
  BY <1>1, <1>3 DEF ItemsOK
<1>5. h.src \in Sources /\ h.n \in Nat /\ pos[h.src] \in Nat /\ from[h.src] \in Nat
  BY <1>1, <1>3, <1>4 DEF Lines, Events, Sources, TypeOK, WasRead
<1>6. m \in Nat /\ m < h.n /\ m \in (from[h.src] + 1)..pos[h.src] /\ m < pos[h.src]
  BY <1>4, <1>5 DEF WasRead
<1>7. OnItsWay(h.src, m)
  BY <1>1, <1>4, <1>5, <1>6 DEF NothingLost, WasRead
<1>8. ~InHand(e) /\ ~AtWorker(h.src, m)
  BY <1>6 DEF InHand, AtWorker
<1>9. e.src = h.src /\ e.n = m
  BY DEF Item
<1>10. ~In(ch, e)
  <2>1. SUFFICES ASSUME In(ch, e) PROVE FALSE
    OBVIOUS
  <2>2. h = e \/ In(Tail(ch), e)
    BY <1>2, <2>1, InTail
  <2>3. h # e
    BY <1>5, <1>6, <1>9
  <2>4. PICK i \in 1..Len(Tail(ch)) : Tail(ch)[i] = e
    BY <2>2, <2>3 DEF In
  <2>5. h.n < m
    BY <1>2, <1>9, <2>4, IncreasingTail
  <2> QED BY <1>5, <1>6, <2>5
<1>11. CASE ch = logChan
  <2>1. h \in Lines
    BY <1>2, <1>11, HeadTailProperties
  <2>2. \A i \in 1..Len(eventChan) : eventChan[i].src = DockerEvents
    <3>1. \A i \in 1..Len(eventChan) : eventChan[i] \in Events
      BY <1>2, ElementOfSeq
    <3> QED BY <3>1 DEF Events
  <2>3. ~In(eventChan, e)
    BY <1>9, <2>1, <2>2 DEF In, Lines
  <2> QED BY <1>7, <1>8, <1>10, <1>11, <2>3 DEF OnItsWay
<1>12. CASE ch = eventChan
  <2>1. h \in Events
    BY <1>2, <1>12, HeadTailProperties
  <2>2. \A i \in 1..Len(logChan) : logChan[i].src \in Containers
    <3>1. \A i \in 1..Len(logChan) : logChan[i] \in Lines
      BY <1>2, ElementOfSeq
    <3> QED BY <3>1 DEF Lines
  <2>3. ~In(logChan, e)
    BY <1>9, <2>1, <2>2 DEF In, Events
  <2> QED BY <1>7, <1>8, <1>10, <1>12, <2>3 DEF OnItsWay
<1> QED BY <1>11, <1>12

LEMMA NoGapStep ==
  ASSUME IInv, [Next]_vars
  PROVE  NoGap'
<1> USE SourcesAssumption
<1>1. TypeOK /\ StreamsOK /\ ItemsOK /\ NoGap /\ levelFilter' = levelFilter
  BY IntactStep DEF IInv
<1> SUFFICES ASSUME handler' = "write", hand' # ZeroEvent
             PROVE  /\ Relevant(levelFilter, hand'.src, hand'.n)
                    /\ \A m \in (from'[hand'.src] + 1)..(hand'.n - 1) :
                         Relevant(levelFilter, hand'.src, m) => In(out', Item(hand'.src, m))
  BY <1>1 DEF NoGap, Relevant, In, Item, ZeroEvent
<1>2. CASE handler = "write" /\ hand' = hand /\ out' = out
  <2>1. hand \in Lines \cup Events /\ WasRead(hand)
    BY <1>1, <1>2 DEF TypeOK, ItemsOK
  <2>2. from'[hand.src] = from[hand.src]
    BY <1>1, <2>1, StreamsGrow DEF WasRead, Lines, Events, Sources
  <2> QED BY <1>1, <1>2, <2>2 DEF NoGap
<1>3. CASE SelectEvent
  <2>1. /\ handler = "select" /\ eventChan # <<>> /\ UNCHANGED <<from, out>>
        /\ wantsJSON \/ ~ctxDone
        /\ hand' = Head(eventChan)
    BY <1>3 DEF SelectEvent, Render, streams, answer
  <2>2. Intact
    BY <2>1 DEF Intact
  <2>3. Head(eventChan) \in Events
    BY <1>1, <2>1, ItemTypes, HeadTailProperties
  <2>4. Relevant(levelFilter, hand'.src, hand'.n)
    BY <2>1, <2>3 DEF Relevant, Events
  <2> QED BY <2>1, <2>2, <2>4, HeadIsNext
<1>4. CASE SelectZeroEvent
  BY <1>4 DEF SelectZeroEvent, Render
<1>5. CASE SelectLog
  <2>1. /\ handler = "select" /\ logChan # <<>> /\ UNCHANGED <<from, out>>
        /\ wantsJSON \/ ~ctxDone
        /\ hand' = Head(logChan)
        /\ levelFilter = {} \/ Kind(Head(logChan).src, Head(logChan).n) \in levelFilter
    BY <1>5 DEF SelectLog, Render, streams, answer
  <2>2. Intact
    BY <2>1 DEF Intact
  <2>3. \E j \in 1..Len(logChan) : Head(logChan) = logChan[j]
    BY <1>1, <2>1, ItemTypes, ElementsOfTail
  <2>4. Kind(Head(logChan).src, Head(logChan).n) # Blank
    BY <1>1, <2>3 DEF ItemsOK
  <2>5. Relevant(levelFilter, hand'.src, hand'.n)
    BY <2>1, <2>4 DEF Relevant
  <2> QED BY <2>1, <2>2, <2>5, HeadIsNext
<1>6. CASE WriteOk
  BY <1>6 DEF WriteOk
<1>7. ASSUME NEW c \in Containers, Send(c) PROVE UNCHANGED <<handler, hand, out>>
  BY <1>7 DEF Send, answer
<1>8. CASE EventsSend
  BY <1>2, <1>8 DEF EventsSend, answer
<1>9. CASE Quiet
  BY <1>2, <1>9 DEF Quiet
<1> QED BY Moves, <1>2, <1>3, <1>4, <1>5, <1>6, <1>7, <1>8, <1>9

-----------------------------------------------------------------------------
(* The theorems. *)

\* IInv holds of every reachable state, whatever the containers, the capacities
\* of the channels, the tail and what the containers write.
THEOREM Invariance == Spec => []IInv
<1>1. Init => IInv
  BY InitIInv
<1>2. ASSUME IInv, [Next]_vars PROVE IInv'
  <2>1. TypeOK /\ StreamsOK /\ ItemsOK /\ InOrder
    BY <1>2 DEF IInv
  <2>2. TypeOK' /\ StreamsOK' /\ ItemsOK' /\ InOrder'
    BY <1>2, <2>1, TypeStep, StreamsStep, ItemsStep, OrderStep
  <2>3. NothingLost' /\ NoGap'
    BY <1>2, NothingLostStep, NoGapStep
  <2> QED BY <2>2, <2>3 DEF IInv
<1> QED BY <1>1, <1>2, PTL DEF Spec

\* Every variable of the connection keeps its type; in particular neither
\* channel ever holds more than its capacity.
THEOREM TypeCorrect == Spec => []TypeOK
<1>1. IInv => TypeOK
  BY DEF IInv
<1> QED BY <1>1, Invariance, PTL

\* Between the worker's read and the client no relevant line or event is lost
\* while the connection is up.
THEOREM Lossless == Spec => []NothingLost
<1>1. IInv => NothingLost
  BY DEF IInv
<1> QED BY <1>1, Invariance, PTL

\* The items of one source never overtake each other and are never repeated.
THEOREM Ordered == Spec => []InOrder
<1>1. IInv => InOrder
  BY DEF IInv
<1> QED BY <1>1, Invariance, PTL

-----------------------------------------------------------------------------
(* Refinement. *)

LEMMA FeedInit == Init => Feed!Init
<1>1. Init => produced \in [Sources -> Nat] /\ from = [s \in Sources |-> -1] /\ out = <<>>
  BY BoundAssumption DEF Init, Unattached
<1> QED BY <1>1 DEF Feed!Init, Feed!Unattached

LEMMA FeedStep ==
  ASSUME IInv, [Next]_vars
  PROVE  [Feed!Next]_Feed!vars
<1> USE SourcesAssumption, BoundAssumption
<1> USE DEF docker, request, streams, chans, answer
<1>1. TypeOK /\ StreamsOK /\ ItemsOK /\ InOrder /\ NoGap
  BY DEF IInv
<1>2. ASSUME NEW c \in Containers, Produce(c) PROVE Feed!Produce(c)
  BY <1>2 DEF Produce, Emit, Feed!Produce
<1>3. ASSUME NEW c \in Containers, Lifecycle(c) PROVE Feed!Produce(DockerEvents)
  BY <1>3 DEF Lifecycle, Emit, Feed!Produce
<1>4. CASE OpenEvents
  <2>1. from[DockerEvents] = Unattached
    BY <1>1, <1>4 DEF OpenEvents, StreamsOK, Sources
  <2>2. produced[DockerEvents] \in 0..produced[DockerEvents]
    BY <1>1 DEF TypeOK, Sources
  <2>3. Feed!Attach(DockerEvents)
    BY <1>4, <2>1, <2>2 DEF OpenEvents, Feed!Attach, Feed!Unattached, Unattached
  <2> QED BY <2>3 DEF Feed!Next, Sources
<1>5. ASSUME NEW c \in Containers, Attach(c) PROVE Feed!Attach(c)
  <2>1. from[c] = Unattached
    BY <1>1, <1>5 DEF Attach, StreamsOK, Sources
  <2>2. TailStart(c) \in 0..produced[c]
    BY <1>1 DEF TailStart, TypeOK, Sources
  <2> QED BY <1>5, <2>1, <2>2 DEF Attach, Feed!Attach, Feed!Unattached, Unattached
<1>6. ASSUME WriteOk, hand # ZeroEvent
      PROVE  /\ hand.src \in Sources /\ hand.n \in 1..produced[hand.src]
             /\ Feed!Show(hand.src, hand.n)
  <2> DEFINE s == hand.src
             n == hand.n
  <2>1. hand \in Lines \cup Events /\ WasRead(hand) /\ Before(out, hand)
    BY <1>1, <1>6 DEF WriteOk, TypeOK, ItemsOK, InOrder
  <2>2. s \in Sources /\ n \in Nat \ {0} /\ hand = Item(s, n)
    BY <2>1 DEF Lines, Events, Sources, Item
  <2>3. from[s] # Unattached /\ from[s] \in Nat /\ from[s] < n /\ n <= pos[s]
        /\ pos[s] \in Nat
    BY <1>1, <2>1, <2>2 DEF WasRead, TypeOK
  <2>4. pos[s] <= produced[s] /\ produced[s] \in Nat
    <3>1. pos[s] <= feed[s] /\ feed[s] <= produced[s]
      BY <1>1, <2>2, <2>3 DEF StreamsOK
    <3> QED BY <1>1, <2>2, <2>3, <3>1 DEF TypeOK
  <2>5. ~Feed!Shown(s, n)
    BY <2>1, <2>2 DEF Feed!Shown, Feed!Item, Item, Before
  <2>6. /\ Relevant(levelFilter, s, n)
        /\ \A m \in (from[s] + 1)..(n - 1) : Relevant(levelFilter, s, m) => Feed!Shown(s, m)
    BY <1>1, <1>6 DEF NoGap, WriteOk, In, Item, Feed!Shown, Feed!Item
  <2>7. out' = Append(out, Feed!Item(s, n)) /\ UNCHANGED <<levelFilter, produced, from>>
    BY <1>6, <2>2 DEF WriteOk, Feed!Item, Item
  <2> QED BY <2>2, <2>3, <2>4, <2>5, <2>6, <2>7 DEF Feed!Show, Feed!Unattached, Unattached
<1>7. ASSUME WriteOk, hand = ZeroEvent PROVE UNCHANGED Feed!vars
  BY <1>7 DEF WriteOk, Feed!vars
<1>8. ASSUME NEW c \in Containers,
             AttachFails(c) \/ ReadFrame(c) \/ ReadEnds(c) \/ Send(c) \/ SendCancelled(c)
      PROVE  UNCHANGED Feed!vars
  BY <1>8 DEF AttachFails, ReadFrame, ReadEnds, Send, SendCancelled, Feed!vars
<1>9. ASSUME NEW s \in Sources, Break(s) PROVE UNCHANGED Feed!vars
  BY <1>9 DEF Break, Feed!vars
<1>10. CASE \/ ClientLeaves \/ RequestCancelled \/ EventsReceive \/ EventsSend \/ EventsReturn
            \/ UNCHANGED vars
  BY <1>10 DEF ClientLeaves, RequestCancelled, EventsReceive, EventsSend, EventsReturn, vars,
               Feed!vars
<1>11. CASE \/ OpenLogs \/ OpenFails \/ SelectCtxDone \/ SelectEvent \/ SelectZeroEvent
            \/ SelectLog \/ WriteFails
  BY <1>11 DEF OpenLogs, OpenFails, SelectCtxDone, SelectEvent, SelectZeroEvent, SelectLog,
               WriteFails, Feed!vars
<1>12. ASSUME NEW c \in Containers, Produce(c) \/ Lifecycle(c) \/ Attach(c) PROVE Feed!Next
  BY <1>2, <1>3, <1>5, <1>12 DEF Feed!Next, Sources
<1>13. ASSUME WriteOk, hand # ZeroEvent PROVE Feed!Next
  BY <1>6, <1>13 DEF Feed!Next
<1> QED BY <1>4, <1>7, <1>8, <1>9, <1>10, <1>11, <1>12, <1>13
        DEF Next, Environment, Handler, Worker, EventsWorker

\* The connection with its goroutines and channels implements the feed: once a
\* source is attached its relevant items are shown in order, each once, none skipped.
THEOREM Refinement == Spec => ImplementsFeed
<1>1. Init => Feed!Init
  BY FeedInit
<1>2. IInv /\ [Next]_vars => [Feed!Next]_Feed!vars
  BY FeedStep
<1>3. Spec => Feed!Spec
  BY <1>1, <1>2, Invariance, PTL DEF Spec, Feed!Spec
<1> QED BY <1>3 DEF ImplementsFeed
=============================================================================
