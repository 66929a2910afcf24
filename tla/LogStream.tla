----------------------------- MODULE LogStream -----------------------------
(***************************************************************************)
(* One GET /api/v1/logs connection: the SSE handler goroutine              *)
(* (internal/handlers/logs.go), one worker goroutine per container         *)
(* (internal/docker/logs.go), the events worker goroutine                  *)
(* (internal/docker/client.go), the two buffered channels between them,    *)
(* the request context that cancels them, the Docker daemon that feeds     *)
(* them and the HTTP client that reads the answer.                         *)
(*                                                                         *)
(* A log line or a container event is an item: its source and its number   *)
(* in the order Docker produced it.  Text, timestamps and HTML are left    *)
(* out; of a line only its kind is kept, its level or Blank.               *)
(***************************************************************************)
EXTENDS Integers, Sequences

CONSTANTS Containers,   \* the containers of the Docker host
          DockerEvents, \* the source of the items that are container events
          Levels,       \* the log levels
          Blank,        \* the kind of an empty frame or a line of white space
          Kind(_, _),   \* Kind(c, n): level of the n-th line of c, or Blank
          LogCap,       \* capacity of logChan
          EventCap,     \* capacity of eventChan
          TailLines,    \* LOG_TAIL_LINES: lines of its past a container sends first
          MaxLines,     \* bound: lines a container produces
          MaxEvents     \* bound: lifecycle events Docker produces

ASSUME SourcesAssumption == DockerEvents \notin Containers
ASSUME KindAssumption == /\ Blank \notin Levels
                         /\ \A c \in Containers, n \in 1..MaxLines : Kind(c, n) \in Levels \cup {Blank}
ASSUME CapAssumption == LogCap \in Nat \ {0} /\ EventCap \in Nat \ {0}
ASSUME BoundAssumption == TailLines \in Nat /\ MaxLines \in Nat /\ MaxEvents \in Nat

VARIABLES produced,    \* produced[s]: items source s has produced so far
          running,     \* running[c]: container c runs
          wanted,      \* containers query parameter; none named means every container
          levelFilter, \* levels query parameter; no valid level means every level
          wantsJSON,   \* the Accept header asks for JSON
          handler,     \* where the handler goroutine is
          hand,        \* the item it is writing
          ctxDone,     \* ctx is cancelled
          clientGone,  \* the HTTP client has closed the connection
          worker,      \* where the goroutine that reads source s is
          pos,         \* pos[s]: the last item the worker of s has read
          from,        \* from[s]: its stream starts after this item; Unattached before
          feed,        \* feed[s]: the last item its stream carries
          link,        \* state of the stream of s
          logChan,     \* lines sent to the handler and not yet received
          eventChan,   \* events sent to the handler and not yet received
          out,         \* items written to the client, oldest first
          ghostShown   \* an entry made from a zero event was written

docker == <<produced, running>>
request == <<wanted, levelFilter, wantsJSON>>
streams == <<pos, from, feed, link>>
chans == <<logChan, eventChan>>
answer == <<out, ghostShown>>
vars == <<produced, running, wanted, levelFilter, wantsJSON, handler, hand, ctxDone,
          clientGone, worker, pos, from, feed, link, logChan, eventChan, out, ghostShown>>

Sources == Containers \cup {DockerEvents}

Unattached == -1

Item(s, n) == [src |-> s, n |-> n]

\* What a receive from the closed eventChan returns: the zero models.ContainerEvent.
ZeroEvent == Item(DockerEvents, 0)

\* The items the client is to see: non-blank lines of a selected level, and
\* every event, for the level filter is only applied to lines.
Relevant(filter, s, n) ==
  \/ s = DockerEvents
  \/ Kind(s, n) # Blank /\ (filter = {} \/ Kind(s, n) \in filter)

\* defer close(eventChan)
EventChanClosed == worker[DockerEvents] = "done"

\* The container filter of docker.StreamLogs.
Selected(c) == wanted = {} \/ c \in wanted

\* The test of ctx at the top of a worker's loop.
LoopTop == IF ctxDone THEN "done" ELSE "read"

Drained(s) == pos[s] = feed[s]

-----------------------------------------------------------------------------

Init == /\ produced \in [Sources -> 0..MaxLines] /\ produced[DockerEvents] = 0
        /\ running \in [Containers -> BOOLEAN]
        /\ wanted \in SUBSET Containers
        /\ levelFilter \in SUBSET Levels
        /\ wantsJSON \in BOOLEAN
        /\ handler = "start"
        /\ hand = ZeroEvent
        /\ ctxDone = FALSE
        /\ clientGone = FALSE
        /\ worker = [s \in Sources |-> "idle"]
        /\ pos = [s \in Sources |-> 0]
        /\ from = [s \in Sources |-> Unattached]
        /\ feed = [s \in Sources |-> 0]
        /\ link = [s \in Sources |-> "none"]
        /\ logChan = <<>>
        /\ eventChan = <<>>
        /\ out = <<>>
        /\ ghostShown = FALSE

-----------------------------------------------------------------------------
(* The Docker daemon. *)

\* Source s produces an item; a live stream of s will carry it.
Emit(s) == /\ produced' = [produced EXCEPT ![s] = @ + 1]
           /\ feed' = IF link[s] = "live" THEN [feed EXCEPT ![s] = produced[s] + 1] ELSE feed

Produce(c) == /\ running[c]
              /\ produced[c] < MaxLines
              /\ Emit(c)
              /\ UNCHANGED <<running, request, handler, hand, ctxDone, clientGone, worker,
                             pos, from, link, chans, answer>>

\* A container starts or stops: an event.  A followed log ends with its container.
Lifecycle(c) ==
  /\ produced[DockerEvents] < MaxEvents
  /\ running' = [running EXCEPT ![c] = ~@]
  /\ Emit(DockerEvents)
  /\ link' = IF running[c] /\ link[c] = "live" THEN [link EXCEPT ![c] = "eof"] ELSE link
  /\ UNCHANGED <<request, handler, hand, ctxDone, clientGone, worker, pos, from, chans, answer>>

\* The daemon or the socket drops a stream: what was not read may be lost,
\* and the reader then sees io.EOF or an error that every further read repeats.
Break(s) ==
  /\ link[s] = "live"
  /\ \E last \in pos[s]..feed[s] : feed' = [feed EXCEPT ![s] = last]
  /\ \E end \in {"eof", "err"} : link' = [link EXCEPT ![s] = end]
  /\ UNCHANGED <<docker, request, handler, hand, ctxDone, clientGone, worker, pos, from,
                 chans, answer>>

-----------------------------------------------------------------------------
(* The HTTP client, and net/http on its behalf. *)

ClientLeaves == /\ ~clientGone
                /\ clientGone' = TRUE
                /\ UNCHANGED <<docker, request, handler, hand, ctxDone, worker, streams, chans,
                               answer>>

\* net/http notices and cancels the request context, the parent of ctx.
RequestCancelled == /\ clientGone
                    /\ ~ctxDone
                    /\ ctxDone' = TRUE
                    /\ UNCHANGED <<docker, request, handler, hand, clientGone, worker, streams,
                                   chans, answer>>

-----------------------------------------------------------------------------
(* The handler goroutine: handlers.StreamLogs. *)

\* Every return runs defer cancel().
Return == handler' = "done" /\ ctxDone' = TRUE /\ hand' = ZeroEvent

\* docker.StreamLogs: list the running containers and start a worker for each selected one.
\* No request to Docker succeeds under a cancelled context.
OpenLogs ==
  /\ handler = "start" /\ ~ctxDone
  /\ handler' = "subscribe"
  /\ worker' = [s \in Sources |->
                  IF s \in Containers /\ running[s] /\ Selected(s) THEN "attach" ELSE worker[s]]
  /\ UNCHANGED <<docker, request, hand, ctxDone, clientGone, streams, chans, answer>>

\* The list request fails: the handler returns the error.
OpenFails ==
  /\ handler = "start"
  /\ Return
  /\ UNCHANGED <<docker, request, clientGone, worker, streams, chans, answer>>

\* docker.StreamEvents: subscribe to the events from now on.  A failed request
\* is reported on errChan, to the worker, and is no error of the handler.
OpenEvents ==
  /\ handler = "subscribe"
  /\ handler' = "select"
  /\ worker' = [worker EXCEPT ![DockerEvents] = "read"]
  /\ from' = [from EXCEPT ![DockerEvents] = produced[DockerEvents]]
  /\ pos' = [pos EXCEPT ![DockerEvents] = produced[DockerEvents]]
  /\ feed' = [feed EXCEPT ![DockerEvents] = produced[DockerEvents]]
  /\ \E l \in (IF ctxDone THEN {"err"} ELSE {"live", "err"}) : link' = [link EXCEPT ![DockerEvents] = l]
  /\ UNCHANGED <<docker, request, hand, ctxDone, clientGone, chans, answer>>

\* Mutant: the channels are emptied before ctx is looked at.
SelectCtxDoneLast ==
  /\ handler = "select" /\ ctxDone
  /\ logChan = <<>> /\ eventChan = <<>> /\ ~EventChanClosed
  /\ Return
  /\ UNCHANGED <<docker, request, clientGone, worker, streams, chans, answer>>

SelectCtxDone ==
  /\ handler = "select" /\ ctxDone
  /\ Return
  /\ UNCHANGED <<docker, request, clientGone, worker, streams, chans, answer>>

\* Render the entry of item e; templ refuses to render under a cancelled context.
Render(e) == IF wantsJSON \/ ~ctxDone
             THEN handler' = "write" /\ hand' = e
             ELSE UNCHANGED <<handler, hand>>

SelectEvent ==
  /\ handler = "select" /\ eventChan # <<>>
  /\ Render(Head(eventChan))
  /\ eventChan' = Tail(eventChan)
  /\ UNCHANGED <<docker, request, ctxDone, clientGone, worker, streams, logChan, answer>>

\* A receive from a closed and empty channel does not block.
SelectZeroEvent ==
  /\ handler = "select" /\ eventChan = <<>> /\ EventChanClosed
  /\ Render(ZeroEvent)
  /\ UNCHANGED <<docker, request, ctxDone, clientGone, worker, streams, chans, answer>>

\* Mutant: the level filter is not applied.
SelectLogUnfiltered ==
  /\ handler = "select" /\ logChan # <<>>
  /\ Render(Head(logChan))
  /\ logChan' = Tail(logChan)
  /\ UNCHANGED <<docker, request, ctxDone, clientGone, worker, streams, eventChan, answer>>

\* Mutant: events are given priority, and a closed eventChan always has one.
SelectLogAfterEvents ==
  /\ eventChan = <<>> /\ ~EventChanClosed
  /\ SelectLogUnfiltered

SelectLog ==
  /\ handler = "select" /\ logChan # <<>>
  /\ LET e == Head(logChan) IN
       IF levelFilter = {} \/ Kind(e.src, e.n) \in levelFilter
       THEN Render(e)
       ELSE UNCHANGED <<handler, hand>>
  /\ logChan' = Tail(logChan)
  /\ UNCHANGED <<docker, request, ctxDone, clientGone, worker, streams, eventChan, answer>>

\* The write returns: the client, or the socket's buffer, has taken the entry.
WriteOk ==
  /\ handler = "write"
  /\ handler' = "select" /\ hand' = ZeroEvent
  /\ IF hand = ZeroEvent THEN ghostShown' = TRUE /\ UNCHANGED out
                         ELSE out' = Append(out, hand) /\ UNCHANGED ghostShown
  /\ UNCHANGED <<docker, request, ctxDone, clientGone, worker, streams, chans>>

\* The write fails, as it does once the client is gone.
WriteFails ==
  /\ handler = "write" /\ clientGone
  /\ Return
  /\ UNCHANGED <<docker, request, clientGone, worker, streams, chans, answer>>

Handler == \/ OpenLogs \/ OpenFails \/ OpenEvents
           \/ SelectCtxDone \/ SelectEvent \/ SelectZeroEvent \/ SelectLog
           \/ WriteOk \/ WriteFails

-----------------------------------------------------------------------------
(* The worker goroutine of container c: docker.streamContainerLogs. *)

Goto(s, place) == worker' = [worker EXCEPT ![s] = place]

\* Mutant: a container with fewer lines than TailLines is not thought of.
TailStartUnclamped(c) == produced[c] - TailLines

\* The line after which Docker starts when asked for the last TailLines lines.
TailStart(c) == IF produced[c] > TailLines THEN produced[c] - TailLines ELSE 0

\* ContainerLogs answers: the tail, and what follows while c runs.
Attach(c) ==
  /\ worker[c] = "attach" /\ ~ctxDone
  /\ from' = [from EXCEPT ![c] = TailStart(c)]
  /\ pos' = [pos EXCEPT ![c] = TailStart(c)]
  /\ feed' = [feed EXCEPT ![c] = produced[c]]
  /\ link' = [link EXCEPT ![c] = IF running[c] THEN "live" ELSE "eof"]
  /\ Goto(c, "read")
  /\ UNCHANGED <<docker, request, handler, hand, ctxDone, clientGone, chans, answer>>

AttachFails(c) ==
  /\ worker[c] = "attach"
  /\ Goto(c, "done")
  /\ UNCHANGED <<docker, request, handler, hand, ctxDone, clientGone, streams, chans, answer>>

\* Mutant: a frame is sent as it is, blank or not.
ReadFrameUntrimmed(c) ==
  /\ worker[c] = "read"
  /\ ~Drained(c)
  /\ pos' = [pos EXCEPT ![c] = @ + 1]
  /\ Goto(c, "send")
  /\ UNCHANGED <<docker, request, handler, hand, ctxDone, clientGone, from, feed, link, chans,
                 answer>>

\* A frame is read.  A blank one is skipped, another is to be sent.
ReadFrame(c) ==
  /\ worker[c] = "read"
  /\ ~Drained(c)
  /\ pos' = [pos EXCEPT ![c] = @ + 1]
  /\ Goto(c, IF Kind(c, pos[c] + 1) = Blank THEN LoopTop ELSE "send")
  /\ UNCHANGED <<docker, request, handler, hand, ctxDone, clientGone, from, feed, link, chans,
                 answer>>

\* Mutant: at io.EOF the worker asks for the log again, tail included.
ReadEndsReattach(c) ==
  /\ worker[c] = "read"
  /\ ctxDone \/ (link[c] = "eof" /\ Drained(c))
  /\ Goto(c, IF ctxDone THEN "done" ELSE "attach")
  /\ UNCHANGED <<docker, request, handler, hand, ctxDone, clientGone, streams, chans, answer>>

\* The read ends the worker: io.EOF, or any error once ctx is cancelled, which
\* fails the reads of the response body.  On another error the loop reads again.
ReadEnds(c) ==
  /\ worker[c] = "read"
  /\ ctxDone \/ (link[c] = "eof" /\ Drained(c))
  /\ Goto(c, "done")
  /\ UNCHANGED <<docker, request, handler, hand, ctxDone, clientGone, streams, chans, answer>>

\* Mutant: a select with a default case, which drops the line when logChan is full.
SendOrDrop(c) ==
  /\ worker[c] = "send"
  /\ logChan' = IF Len(logChan) < LogCap THEN Append(logChan, Item(c, pos[c])) ELSE logChan
  /\ Goto(c, LoopTop)
  /\ UNCHANGED <<docker, request, handler, hand, ctxDone, clientGone, streams, eventChan, answer>>

Send(c) ==
  /\ worker[c] = "send"
  /\ Len(logChan) < LogCap
  /\ logChan' = Append(logChan, Item(c, pos[c]))
  /\ Goto(c, LoopTop)
  /\ UNCHANGED <<docker, request, handler, hand, ctxDone, clientGone, streams, eventChan, answer>>

\* Mutant: a plain send, as in the events worker.
SendNotCancelled(c) == FALSE

SendCancelled(c) ==
  /\ worker[c] = "send" /\ ctxDone
  /\ Goto(c, "done")
  /\ UNCHANGED <<docker, request, handler, hand, ctxDone, clientGone, streams, chans, answer>>

Worker(c) == \/ Attach(c) \/ AttachFails(c) \/ ReadFrame(c) \/ ReadEnds(c)
             \/ Send(c) \/ SendCancelled(c)

-----------------------------------------------------------------------------
(* The goroutine of docker.StreamEvents. *)

\* Once ctx is cancelled the goroutine of Docker's client hands over the event it holds, if
\* its select and that of the worker happen to choose so, and ends the stream.
EventsReceive ==
  /\ worker[DockerEvents] = "read"
  /\ ~Drained(DockerEvents)
  /\ pos' = [pos EXCEPT ![DockerEvents] = @ + 1]
  /\ feed' = IF ctxDone THEN [feed EXCEPT ![DockerEvents] = pos[DockerEvents] + 1] ELSE feed
  /\ link' = IF ctxDone THEN [link EXCEPT ![DockerEvents] = "err"] ELSE link
  /\ Goto(DockerEvents, "send")
  /\ UNCHANGED <<docker, request, handler, hand, ctxDone, clientGone, from, chans, answer>>

\* This send does not select on ctx.
EventsSend ==
  /\ worker[DockerEvents] = "send"
  /\ Len(eventChan) < EventCap
  /\ eventChan' = Append(eventChan, Item(DockerEvents, pos[DockerEvents]))
  /\ Goto(DockerEvents, "read")
  /\ UNCHANGED <<docker, request, handler, hand, ctxDone, clientGone, streams, logChan, answer>>

\* Mutant: break in place of return, which leaves the select and not the loop.
EventsReturnBreaks == FALSE

\* ctx is cancelled, or the stream's error arrives after its last event.
EventsReturn ==
  /\ worker[DockerEvents] = "read"
  /\ ctxDone \/ (link[DockerEvents] \in {"eof", "err"} /\ Drained(DockerEvents))
  /\ Goto(DockerEvents, "done")
  /\ UNCHANGED <<docker, request, handler, hand, ctxDone, clientGone, streams, chans, answer>>

EventsWorker == EventsReceive \/ EventsSend \/ EventsReturn

-----------------------------------------------------------------------------

Environment == \/ \E c \in Containers : Produce(c) \/ Lifecycle(c)
               \/ \E s \in Sources : Break(s)
               \/ ClientLeaves
               \/ RequestCancelled

Next == \/ Environment
        \/ Handler
        \/ \E c \in Containers : Worker(c)
        \/ EventsWorker

Spec == Init /\ [][Next]_vars

\* Go's select chooses among its ready cases at random, so a case that is ready
\* again and again is chosen; senders that block on a channel are served in the
\* order they came.  Nothing is assumed of Docker, nor that the client reads:
\* a write is only sure to return when the client is gone.
HandlerFairness ==
  /\ WF_vars(OpenLogs \/ OpenFails) /\ WF_vars(OpenEvents)
  /\ SF_vars(SelectCtxDone) /\ SF_vars(SelectEvent) /\ SF_vars(SelectLog)
  /\ WF_vars(clientGone /\ (WriteOk \/ WriteFails))

WorkerFairness ==
  /\ \A c \in Containers : /\ WF_vars(Attach(c) \/ AttachFails(c))
                           /\ WF_vars(ReadFrame(c) \/ ReadEnds(c))
                           /\ SF_vars(Send(c) \/ SendCancelled(c))
  /\ WF_vars(EventsReceive \/ EventsReturn) /\ WF_vars(EventsSend)

Fairness == HandlerFairness /\ WorkerFairness /\ WF_vars(RequestCancelled)

FairSpec == Spec /\ Fairness

-----------------------------------------------------------------------------
(* Safety. *)

Lines == [src : Containers, n : Nat \ {0}]
Events == [src : {DockerEvents}, n : Nat \ {0}]

TypeOK ==
  /\ produced \in [Sources -> Nat]
  /\ running \in [Containers -> BOOLEAN]
  /\ wanted \in SUBSET Containers
  /\ levelFilter \in SUBSET Levels
  /\ wantsJSON \in BOOLEAN
  /\ handler \in {"start", "subscribe", "select", "write", "done"}
  /\ hand \in Lines \cup Events \cup {ZeroEvent}
  /\ ctxDone \in BOOLEAN
  /\ clientGone \in BOOLEAN
  /\ worker \in [Sources -> {"idle", "attach", "read", "send", "done"}]
  /\ pos \in [Sources -> Nat]
  /\ from \in [Sources -> Nat \cup {Unattached}]
  /\ feed \in [Sources -> Nat]
  /\ link \in [Sources -> {"none", "live", "eof", "err"}]
  /\ logChan \in Seq(Lines) /\ Len(logChan) <= LogCap
  /\ eventChan \in Seq(Events) /\ Len(eventChan) <= EventCap
  /\ out \in Seq(Lines \cup Events)
  /\ ghostShown \in BOOLEAN

\* Where an item may be on its way to the client.
In(seq, e) == \E i \in 1..Len(seq) : seq[i] = e
InHand(e) == handler = "write" /\ hand = e
AtWorker(s, n) == worker[s] \in {"send", "done"} /\ pos[s] = n
OnItsWay(s, n) == \/ In(out, Item(s, n)) \/ InHand(Item(s, n))
                  \/ In(logChan, Item(s, n)) \/ In(eventChan, Item(s, n))
                  \/ AtWorker(s, n)

\* The connection is up, or it still writes out what it had accepted: JSON
\* is rendered whatever ctx says.
Intact == handler # "done" /\ (wantsJSON \/ ~ctxDone)

\* No relevant item that a worker has read since its stream began is lost while
\* the connection is up: it is written, or held by exactly the goroutines and
\* channels that pass it on.
NothingLost ==
  Intact => \A s \in Sources :
              from[s] # Unattached =>
                \A n \in (from[s] + 1)..pos[s] :
                  Relevant(levelFilter, s, n) => OnItsWay(s, n)

\* On its way an item is overtaken by no later one of its source: what is written
\* precedes what the handler writes, that what is queued, that what is to be sent.
Before(seq, e) == \A i \in 1..Len(seq) : seq[i].src = e.src => seq[i].n < e.n
HandBefore(e) == handler = "write" /\ hand.src = e.src => hand.n < e.n
Increasing(seq) == \A i, j \in 1..Len(seq) : i < j /\ seq[i].src = seq[j].src => seq[i].n < seq[j].n

InOrder ==
  /\ Increasing(out) /\ Increasing(logChan) /\ Increasing(eventChan)
  /\ handler = "write" /\ hand # ZeroEvent => Before(out, hand)
  /\ \A i \in 1..Len(logChan) : Before(out, logChan[i]) /\ HandBefore(logChan[i])
  /\ \A i \in 1..Len(eventChan) : Before(out, eventChan[i]) /\ HandBefore(eventChan[i])
  /\ \A s \in Sources :
       worker[s] = "send" =>
         LET e == Item(s, pos[s]) IN /\ Before(out, e) /\ HandBefore(e)
                                     /\ Before(logChan, e) /\ Before(eventChan, e)

\* What the two rest on.  A stream has read a prefix of what it carries; a line
\* about to be sent is not blank.
StreamsOK ==
  /\ handler = "start" => \A s \in Sources : worker[s] = "idle"
  /\ handler = "subscribe" => worker[DockerEvents] = "idle"
  /\ \A s \in Sources :
       /\ from[s] = Unattached => link[s] = "none" /\ worker[s] \in {"idle", "attach", "done"}
       /\ from[s] # Unattached =>
            /\ from[s] <= pos[s] /\ pos[s] <= feed[s] /\ feed[s] <= produced[s]
            /\ worker[s] \in {"read", "send", "done"}
       /\ worker[s] = "send" => /\ from[s] < pos[s]
                                /\ s \in Containers => Kind(s, pos[s]) # Blank

\* An item the client or a channel has was read from an attached stream.
WasRead(e) == from[e.src] # Unattached /\ from[e.src] < e.n /\ e.n <= pos[e.src]

ItemsOK ==
  /\ \A i \in 1..Len(out) : WasRead(out[i])
  /\ \A i \in 1..Len(eventChan) : WasRead(eventChan[i])
  /\ \A i \in 1..Len(logChan) : WasRead(logChan[i]) /\ Kind(logChan[i].src, logChan[i].n) # Blank
  /\ handler = "write" /\ hand # ZeroEvent => WasRead(hand)

\* The handler only writes an item when every relevant one before it is written.
NoGap ==
  handler = "write" /\ hand # ZeroEvent =>
    /\ Relevant(levelFilter, hand.src, hand.n)
    /\ \A m \in (from[hand.src] + 1)..(hand.n - 1) :
         Relevant(levelFilter, hand.src, m) => In(out, Item(hand.src, m))

\* Together they are inductive.
IInv == TypeOK /\ StreamsOK /\ ItemsOK /\ InOrder /\ NothingLost /\ NoGap

\* The connection implements the feed it promises: each source is attached once
\* and its relevant items are then written in order, each once, none skipped.
Feed == INSTANCE LogFeed WITH filter <- levelFilter, shown <- out
ImplementsFeed == Feed!Spec

-----------------------------------------------------------------------------
(* Liveness. *)

\* Once ctx is cancelled every container worker returns, whether it waits for
\* Docker, for room in logChan, or spins on a broken stream.
WorkersExit == ctxDone ~> [](\A c \in Containers : worker[c] \in {"idle", "done"})

\* The events worker returns too, unless eventChan is full: nobody drains it any more.
EventsWorkerExitsOrStuck ==
  ctxDone ~> [](\/ worker[DockerEvents] \in {"idle", "done"}
                \/ worker[DockerEvents] = "send" /\ Len(eventChan) = EventCap)

\* The handler does not outlive its client, even when a closed eventChan or a
\* chatty container always gives it something else to do.
HandlerReturns == clientGone ~> handler = "done"

\* A client that goes on reading is sent every relevant item its streams carry, however the
\* select chooses, until the connection ends or Docker drops the item.
Delivered ==
  WF_vars(WriteOk) =>
    \A s \in Sources : \A n \in 1..(IF s = DockerEvents THEN MaxEvents ELSE MaxLines) :
      (from[s] # Unattached /\ from[s] < n /\ n <= feed[s] /\ Relevant(levelFilter, s, n))
        ~> (In(out, Item(s, n)) \/ n > feed[s] \/ ctxDone)

-----------------------------------------------------------------------------
(* What the repository says and the code does not do. *)

\* "Create context that cancels when client disconnects": the goroutines the
\* handler started all end with it.
EventsWorkerExits == ctxDone ~> worker[DockerEvents] \in {"idle", "done"}

\* "Convert container event to log entry for display": an entry stands for an event.
EntriesAreReal == ~ghostShown

\* "Stream logs from all Docker containers": a selected container that stays up is attached.
RunningContainersStreamed ==
  \A c \in Containers :
    (handler = "select" /\ running[c] /\ Selected(c))
      ~> (from[c] # Unattached \/ ~running[c] \/ ctxDone \/ worker[c] = "done")
=============================================================================
