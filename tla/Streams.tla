------------------------------ MODULE Streams ------------------------------
(***************************************************************************)
(* The event streams of the REST API: slots for clients (api.py:           *)
(* event_stream), the loop behind each stream that waits for an event, a   *)
(* heartbeat or the end (events.py: stream), and the shutdown that ends    *)
(* the streams before the server waits for its requests (server.py).  The  *)
(* getter of a queue is a task of its own, which may be woken, finished or *)
(* cancelled while the loop's wait returns for another reason.             *)
(*                                                                         *)
(* Events are all alike here; which reach a client is in Telemetry.        *)
(***************************************************************************)
EXTENDS Naturals, FiniteSets

CONSTANTS
  Readers,       \* clients that read what they are sent
  Stallers,      \* clients that may stop to read
  MaxSlots,      \* security.maximum_sse_clients
  QueueSize,     \* subscriber_queue_size
  MaxEvents      \* bound: events published

ASSUME StreamsAssumption ==
  /\ IsFiniteSet(Readers) /\ IsFiniteSet(Stallers) /\ Readers \cap Stallers = {}
  /\ MaxSlots \in Nat \ {0} /\ QueueSize \in Nat \ {0} /\ MaxEvents \in Nat

VARIABLES
  slots,      \* sse_clients
  stream,     \* the loop of each client's stream
  getter,     \* its pending queue.get()
  queued,     \* events in its queue
  tally,      \* history: events since it subscribed, dropped from the full queue, and taken out
  stopping,   \* the server shuts down
  closed,     \* _streams_closed
  published   \* events so far

streamsVars == <<slots, stream, getter, queued, tally, stopping, closed, published>>

StreamClients == Readers \cup Stallers
Untold == [due |-> 0, dropped |-> 0, given |-> 0]

StreamsInit ==
  /\ slots = 0
  /\ stream = [c \in StreamClients |-> "none"]
  /\ getter = [c \in StreamClients |-> "none"]
  /\ queued = [c \in StreamClients |-> 0]
  /\ tally = [c \in StreamClients |-> Untold]
  /\ stopping = FALSE /\ closed = FALSE
  /\ published = 0

OpenStreams == {c \in StreamClients : stream[c] \notin {"none", "asked"}}

\* A request is accepted; authentication may take it past the shutdown.
AskStream(c) ==
  /\ stream[c] = "none"
  /\ ~stopping
  /\ stream' = [stream EXCEPT ![c] = "asked"]
  /\ UNCHANGED <<slots, getter, queued, tally, stopping, closed, published>>

\* All slots are taken, or the request is not authenticated.
RefuseStream(c) ==
  /\ stream[c] = "asked"
  /\ stream' = [stream EXCEPT ![c] = "none"]
  /\ UNCHANGED <<slots, getter, queued, tally, stopping, closed, published>>

\* event_stream takes a slot; stream subscribes.
OpenStream(c) ==
  /\ stream[c] = "asked"
  /\ slots < MaxSlots
  /\ slots' = slots + 1
  /\ stream' = [stream EXCEPT ![c] = "looping"]
  /\ queued' = [queued EXCEPT ![c] = 0]
  /\ tally' = [tally EXCEPT ![c] = Untold]
  /\ UNCHANGED <<getter, stopping, closed, published>>

\* However a stream ends, the slot is free and the queue is unsubscribed.
Ended(c) ==
  /\ slots' = slots - 1
  /\ stream' = [stream EXCEPT ![c] = "none"]
  /\ getter' = [getter EXCEPT ![c] = "none"]
  /\ queued' = [queued EXCEPT ![c] = 0]
  /\ tally' = [tally EXCEPT ![c] = Untold]

\* EventBus.publish: a full queue loses its oldest event; a waiting getter is woken.
PublishToStreams ==
  /\ published < MaxEvents
  /\ published' = published + 1
  /\ queued' = [c \in StreamClients |->
                  IF c \in OpenStreams /\ queued[c] < QueueSize THEN queued[c] + 1 ELSE queued[c]]
  /\ tally' = [c \in StreamClients |->
                 IF c \notin OpenStreams THEN tally[c]
                 ELSE [tally[c] EXCEPT !.due = @ + 1,
                                       !.dropped = IF queued[c] = QueueSize THEN @ + 1 ELSE @]]
  /\ getter' = [c \in StreamClients |-> IF getter[c] = "waiting" THEN "woken" ELSE getter[c]]
  /\ UNCHANGED <<slots, stream, stopping, closed>>

\* The loop begins a round, or ends.
Round(c) ==
  /\ stream[c] = "looping"
  /\ IF closed THEN Ended(c)
     ELSE /\ stream' = [stream EXCEPT ![c] = "waiting"]
          /\ getter' = [getter EXCEPT ![c] = "woken"]
          /\ UNCHANGED <<slots, queued, tally>>
  /\ UNCHANGED <<stopping, closed, published>>

\* queue.get() runs: it takes an event, or waits to be woken.
GetterRuns(c) ==
  /\ stream[c] = "waiting" /\ getter[c] = "woken"
  /\ IF queued[c] = 0
       THEN getter' = [getter EXCEPT ![c] = "waiting"] /\ UNCHANGED queued
       ELSE /\ getter' = [getter EXCEPT ![c] = "done"]
            /\ queued' = [queued EXCEPT ![c] = @ - 1]
  /\ UNCHANGED <<slots, stream, tally, stopping, closed, published>>

\* The wait returns: the getter is done, the streams are closed, or the heartbeat is due.
\* A getter that is not done is cancelled; woken or not, it has taken nothing.
\* Fault: a getter that was woken has already taken its event.
CancelledFault(c) == IF getter[c] = "woken" /\ queued[c] > 0 THEN queued[c] - 1 ELSE queued[c]
Cancelled(c) == queued[c]

WaitReturns(c) ==
  /\ stream[c] = "waiting"
  /\ stream' = [stream EXCEPT ![c] = IF getter[c] = "done" THEN "event" ELSE "heartbeat"]
  /\ queued' = IF getter[c] = "done" THEN queued ELSE [queued EXCEPT ![c] = Cancelled(c)]
  /\ getter' = [getter EXCEPT ![c] = "none"]
  /\ UNCHANGED <<slots, tally, stopping, closed, published>>

\* After the cancelled tasks are gone: end, or send.
Checks(c) ==
  /\ stream[c] \in {"event", "heartbeat"}
  /\ IF closed THEN Ended(c)
     ELSE /\ stream' = [stream EXCEPT ![c] = "sending"]
          /\ tally' = [tally EXCEPT ![c].given = IF stream[c] = "event" THEN @ + 1 ELSE @]
          /\ UNCHANGED <<slots, getter, queued>>
  /\ UNCHANGED <<stopping, closed, published>>

Sent(c) ==
  /\ stream[c] = "sending"
  /\ stream' = [stream EXCEPT ![c] = "looping"]
  /\ UNCHANGED <<slots, getter, queued, tally, stopping, closed, published>>

\* The client goes, or the server has waited long enough for it.
ClientGoes(c) ==
  /\ c \in OpenStreams
  /\ Ended(c)
  /\ UNCHANGED <<stopping, closed, published>>

\* Fault: the server waits for its requests, the streams among them.
ClosesFault == closed
Closes == TRUE

\* GracefulServer.shutdown
Shutdown ==
  /\ ~stopping
  /\ stopping' = TRUE
  /\ closed' = Closes
  /\ UNCHANGED <<slots, stream, getter, queued, tally, published>>

Loops(c) == Round(c) \/ GetterRuns(c) \/ WaitReturns(c) \/ Checks(c)

StreamsNext ==
  \/ PublishToStreams \/ Shutdown
  \/ \E c \in StreamClients :
       \/ AskStream(c) \/ RefuseStream(c) \/ OpenStream(c)
       \/ Loops(c) \/ Sent(c) \/ ClientGoes(c)

\* The event loop runs what it can, and readers read; nobody has to go.
StreamsFairness ==
  /\ \A c \in StreamClients : WF_streamsVars(Loops(c))
  /\ \A c \in Readers : WF_streamsVars(Sent(c))

StreamsSpec == StreamsInit /\ [][StreamsNext]_streamsVars /\ StreamsFairness

(***************************************************************************)
(* Properties                                                              *)
(***************************************************************************)
\* Every variable keeps its type; a slot is taken exactly while its stream is open.
StreamsTypeOK ==
  /\ slots \in 0..MaxSlots /\ slots = Cardinality(OpenStreams)
  /\ stream \in [StreamClients -> {"none", "asked", "looping", "waiting", "event", "heartbeat", "sending"}]
  /\ getter \in [StreamClients -> {"none", "waiting", "woken", "done"}]
  /\ queued \in [StreamClients -> 0..QueueSize]
  /\ tally \in [StreamClients -> [due : 0..MaxEvents, dropped : 0..MaxEvents, given : 0..MaxEvents]]
  /\ stopping \in BOOLEAN /\ closed \in BOOLEAN /\ published \in 0..MaxEvents

\* An event is given to the client, still in the queue or in the loop's hands, or was dropped
\* from a full queue: a heartbeat that falls due while the getter is being woken or finished
\* swallows none.
InHand(c) == IF getter[c] = "done" \/ stream[c] = "event" THEN 1 ELSE 0

NothingSwallowed ==
  \A c \in OpenStreams :
    tally[c].due = tally[c].given + tally[c].dropped + queued[c] + InHand(c)

\* After shutdown begins the streams end by themselves and give their slots back; only clients
\* that do not read what they are sent keep one.
StreamsEnd ==
  stopping ~> /\ OpenStreams \subseteq Stallers
              /\ \A c \in OpenStreams : stream[c] = "sending"
              /\ slots = Cardinality(OpenStreams)
=============================================================================
