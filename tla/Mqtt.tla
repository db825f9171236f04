--------------------------------- MODULE Mqtt ---------------------------------
(***************************************************************************)
(* MqttPublisher (src/pitblu_core/mqtt.py) with the event bus it takes its *)
(* events from (events.py), the broker that retains what it publishes, and *)
(* a consumer that follows docs/frontend-integration.md.                   *)
(*                                                                         *)
(* A topic is the heartbeat topic of a device: one event of the bus after  *)
(* the other, numbered by TelemetryState._sequence.  A publication is sent *)
(* in the step that begins it; the next step is its acknowledgement or its *)
(* failure.                                                                *)
(***************************************************************************)
EXTENDS Integers, Sequences

CONSTANTS
  Topics,
  None,            \* no event, queue or message
  Stop,            \* the event service.availability = false
  Online, Offline, \* the service availability messages, sequences 1 and 2
  QueueSize,       \* subscriber_queue_size
  MaxEvents,       \* bound: events of a topic between removals
  MaxRemovals,     \* bound: removals of a device
  MaxConnections   \* bound: connections to the broker; the last one is never lost

ASSUME SizeAssumption == QueueSize \in Nat \ {0}

Events == [topic : Topics, sequence : Nat, content : Nat \X Nat]
ASSUME MessageAssumption ==
  /\ Online # Offline
  /\ \A m \in {None, Stop, Online, Offline} : m \notin Events
  /\ None \notin Seq(Events \cup {Stop})
ASSUME BoundAssumption ==
  MaxEvents \in Nat /\ MaxRemovals \in Nat /\ MaxConnections \in Nat

VARIABLES
  removals,     \* how often the device of a topic was removed
  sequence,     \* _event_sequences
  latest,       \* the bus's _latest
  queue,        \* the publisher's subscription, None if there is none
  lost,         \* topics whose newest event was dropped from the queue
  stopping,     \* the application has published Stop
  phase,        \* where the publisher is
  after,        \* how it left the connection: what the finally clause is followed by
  sending,      \* the publication that is not yet acknowledged
  todo,         \* retained events still to publish in a replay
  link,         \* the connection to the broker: "none", "up", "dead"
  connections,  \* how many were made
  wills,        \* dead connections whose Last Will the broker has not yet published
  online,       \* what the broker retains as the service's availability
  broker,       \* ... and for each topic
  view          \* the event a consumer shows

bus == <<removals, sequence, latest>>
run == <<phase, after, sending, todo>>
received == <<online, broker, view>>
vars == <<bus, queue, lost, stopping, run, link, connections, wills, received>>

Phases == {"connecting", "announcing", "publishing", "waiting", "flushing", "closing",
           "backoff", "stopped"}
Outcomes == {"none", "backoff", "flushed", "cancelled"}

Init ==
  /\ removals = [t \in Topics |-> 0]
  /\ sequence = [t \in Topics |-> 0]
  /\ latest = [t \in Topics |-> None]
  /\ queue = None /\ lost = {} /\ stopping = FALSE
  /\ phase = "connecting" /\ after = "none" /\ sending = None /\ todo = {}
  /\ link = "none" /\ connections = 0 /\ wills = 0
  /\ online = FALSE
  /\ broker = [t \in Topics |-> None]
  /\ view = [t \in Topics |-> None]

(***************************************************************************)
(* The event bus                                                           *)
(***************************************************************************)
\* put_nowait of a queue that drops its oldest event when it is full.
\* Fault: nothing is dropped.
PutFault(e) == IF queue = None THEN None ELSE Append(queue, e)
Put(e) ==
  IF queue = None THEN None
  ELSE Append(IF Len(queue) = QueueSize THEN Tail(queue) ELSE queue, e)

\* The topics that miss their newest event when `e` has been put.
Missing(e) ==
  LET dropped == IF queue # None /\ Len(queue) = QueueSize THEN {Head(queue)} ELSE {}
      newest(d) == \A i \in 2..Len(queue) : queue[i].topic # d.topic
      putTopic == IF e = Stop THEN {} ELSE {e.topic}
  IN (lost \cup {d.topic : d \in {x \in dropped : newest(x)}}) \ putTopic

\* The event that follows the last one of its topic: its number, and what it says.
\* Fault: the number of the last one is used again.
NumberedFault(t) ==
  [topic |-> t, sequence |-> IF sequence[t] = 0 THEN 1 ELSE sequence[t],
   content |-> <<removals[t], sequence[t] + 1>>]
Numbered(t) ==
  [topic |-> t, sequence |-> sequence[t] + 1, content |-> <<removals[t], sequence[t] + 1>>]

\* publish.
Publish(t) ==
  /\ ~stopping /\ sequence[t] < MaxEvents
  /\ sequence' = [sequence EXCEPT ![t] = @ + 1]
  /\ latest' = [latest EXCEPT ![t] = Numbered(t)]
  /\ queue' = Put(Numbered(t))
  /\ lost' = Missing(Numbered(t))
  /\ UNCHANGED <<removals, stopping, run, link, connections, wills, received>>

\* TelemetryState.remove: perhaps a `last` event, then the bus forgets the topic and the
\* numbers start again.
Remove(t, last) ==
  /\ ~stopping /\ latest[t] # None /\ removals[t] < MaxRemovals
  /\ removals' = [removals EXCEPT ![t] = @ + 1]
  /\ sequence' = [sequence EXCEPT ![t] = 0]
  /\ latest' = [latest EXCEPT ![t] = None]
  /\ queue' = IF last THEN Put(Numbered(t)) ELSE queue
  /\ lost' = IF last THEN Missing(Numbered(t)) ELSE lost
  /\ UNCHANGED <<stopping, run, link, connections, wills, received>>

\* retained_state.
Retained == {latest[t] : t \in {u \in Topics : latest[u] # None}}

(***************************************************************************)
(* Sending                                                                 *)
(***************************************************************************)
\* The consumer applies only newer sequences of a topic.
Applied(e) ==
  IF view[e.topic] = None \/ e.sequence > view[e.topic].sequence
  THEN [view EXCEPT ![e.topic] = e] ELSE view

\* Message m is sent on a connection in state l; nobody gets it if that is dead.
Send(m, l) ==
  /\ sending' = m
  /\ IF l # "up" THEN UNCHANGED received
     ELSE IF m \in {Online, Offline} THEN online' = (m = Online) /\ UNCHANGED <<broker, view>>
     ELSE /\ broker' = [broker EXCEPT ![m.topic] = m]
          /\ view' = Applied(m)
          /\ UNCHANGED online

\* The subscription ends and the finally clause sends Offline.
\* Fault: it does not.
LeaveFault(outcome) ==
  /\ phase' = "closing" /\ after' = outcome
  /\ queue' = None /\ todo' = {} /\ sending' = None
  /\ UNCHANGED received
Leave(outcome) ==
  /\ phase' = "closing" /\ after' = outcome
  /\ queue' = None /\ todo' = {}
  /\ Send(Offline, link)

\* One of the events E is sent.
Replay(E) ==
  \E e \in E : Send(e, link) /\ todo' = E \ {e}

(***************************************************************************)
(* The publisher                                                           *)
(***************************************************************************)
\* The client connects with its will, the publisher subscribes and sends Online.
Connect ==
  /\ phase = "connecting" /\ connections < MaxConnections
  /\ connections' = connections + 1
  /\ link' = "up"
  /\ phase' = "announcing"
  /\ queue' = <<>>
  /\ Send(Online, "up")
  /\ UNCHANGED <<bus, lost, stopping, after, todo, wills>>

ConnectFails ==
  /\ phase = "connecting"
  /\ phase' = "backoff"
  /\ UNCHANGED <<bus, queue, lost, stopping, after, sending, todo, link, connections, wills,
                 received>>

\* The broker acknowledges what was sent.
Acknowledged == sending # None /\ link = "up"

\* Online is acknowledged: the replay begins with what the bus retains now.
\* Fault: what was retained before is not published.
AnnouncedFault ==
  /\ phase = "announcing" /\ Acknowledged
  /\ lost' = {}
  /\ phase' = "waiting" /\ sending' = None
  /\ UNCHANGED <<bus, queue, stopping, after, todo, link, connections, wills, received>>
Announced ==
  /\ phase = "announcing" /\ Acknowledged
  /\ lost' = {}
  /\ IF Retained = {} THEN phase' = "waiting" /\ sending' = None /\ UNCHANGED <<todo, received>>
     ELSE phase' = "publishing" /\ Replay(Retained)
  /\ UNCHANGED <<bus, queue, stopping, after, link, connections, wills>>

\* An event is acknowledged; the replay goes on, or the publisher waits for its queue.
Published ==
  /\ phase = "publishing" /\ Acknowledged
  /\ IF todo = {} THEN phase' = "waiting" /\ sending' = None /\ UNCHANGED <<todo, received>>
     ELSE UNCHANGED phase /\ Replay(todo)
  /\ UNCHANGED <<bus, queue, lost, stopping, after, link, connections, wills>>

\* An event is taken from the queue and sent.
Take ==
  /\ phase = "waiting" /\ queue # <<>> /\ Head(queue) # Stop
  /\ phase' = "publishing"
  /\ queue' = Tail(queue)
  /\ Send(Head(queue), link)
  /\ UNCHANGED <<bus, lost, stopping, after, todo, link, connections, wills>>

\* Nothing came for `heartbeat` seconds: Online is sent again.
Heartbeat ==
  /\ phase = "waiting" /\ queue = <<>>
  /\ phase' = "publishing"
  /\ Send(Online, link)
  /\ UNCHANGED <<bus, queue, lost, stopping, after, todo, link, connections, wills>>

\* Stop is taken: the last replay begins, and the subscription stays until it is over.
\* Fault: there is no last replay.
TakeStopFault ==
  /\ phase = "waiting" /\ queue # <<>> /\ Head(queue) = Stop
  /\ Leave("flushed")
  /\ UNCHANGED <<bus, lost, stopping, link, connections, wills>>
TakeStop ==
  /\ phase = "waiting" /\ queue # <<>> /\ Head(queue) = Stop
  /\ IF Retained = {} THEN Leave("flushed")
     ELSE phase' = "flushing" /\ queue' = Tail(queue) /\ Replay(Retained) /\ UNCHANGED after
  /\ UNCHANGED <<bus, lost, stopping, link, connections, wills>>

Flushed ==
  /\ phase = "flushing" /\ Acknowledged
  /\ IF todo = {} THEN Leave("flushed") ELSE UNCHANGED <<phase, after, queue>> /\ Replay(todo)
  /\ UNCHANGED <<bus, lost, stopping, link, connections, wills>>

\* A publication fails: the connection is dead, or the acknowledgement is late.
PublishFails ==
  /\ phase \in {"announcing", "publishing", "flushing"}
  /\ link = "dead" \/ connections < MaxConnections
  /\ Leave("backoff")
  /\ UNCHANGED <<bus, lost, stopping, link, connections, wills>>

\* What follows the finally clause.
\* Fault: a failed connection ends the publisher.
AfterwardsFault == "stopped"
Afterwards == IF after = "backoff" THEN "backoff" ELSE "stopped"

\* Offline is acknowledged, or it is given up; the client disconnects, so that a live
\* connection ends without a will.
Closed ==
  /\ phase = "closing"
  /\ phase' = Afterwards /\ sending' = None
  /\ link' = "none"
  /\ UNCHANGED <<bus, queue, lost, stopping, after, todo, connections, wills, received>>

Retry ==
  /\ phase = "backoff"
  /\ phase' = "connecting"
  /\ UNCHANGED <<bus, queue, lost, stopping, after, sending, todo, link, connections, wills,
                 received>>

(***************************************************************************)
(* The application and the network                                         *)
(***************************************************************************)
\* Cancelling the publisher, wherever it is.
Cancelled ==
  IF phase \in {"connecting", "backoff", "closing"}
  THEN /\ phase' = "stopped" /\ after' = "cancelled" /\ sending' = None
       /\ link' = "none"
       /\ UNCHANGED <<queue, todo, received>>
  ELSE Leave("cancelled") /\ UNCHANGED link

\* The application stops: Stop is published, and a publisher that is not connected is cancelled.
StopService ==
  /\ ~stopping /\ stopping' = TRUE
  /\ lost' = Missing(Stop)
  /\ IF phase \in {"connecting", "backoff"} THEN Cancelled
     ELSE queue' = Put(Stop) /\ UNCHANGED <<run, link, received>>
  /\ UNCHANGED <<bus, connections, wills>>

\* It has waited long enough (15 s).
\* Fault: it never has.
StopTimeoutFault == FALSE /\ UNCHANGED vars
StopTimeout ==
  /\ stopping /\ phase # "stopped"
  /\ Cancelled
  /\ UNCHANGED <<bus, lost, stopping, connections, wills>>

\* The process dies; its connection with it.
Crash ==
  /\ phase # "stopped"
  /\ phase' = "stopped" /\ after' = "cancelled" /\ stopping' = TRUE
  /\ queue' = None /\ sending' = None /\ todo' = {}
  /\ link' = "none"
  /\ wills' = IF link = "up" THEN wills + 1 ELSE wills
  /\ UNCHANGED <<bus, lost, connections, received>>

\* The connection breaks; the broker will publish its will, however late.
LinkDies ==
  /\ link = "up" /\ connections < MaxConnections
  /\ link' = "dead"
  /\ wills' = wills + 1
  /\ UNCHANGED <<bus, queue, lost, stopping, run, connections, received>>

WillPublished ==
  /\ wills > 0
  /\ wills' = wills - 1
  /\ online' = FALSE
  /\ UNCHANGED <<bus, queue, lost, stopping, run, link, connections, broker, view>>

Progress ==
  Announced \/ Published \/ Take \/ TakeStop \/ Flushed \/ PublishFails \/ Closed \/ Retry

Next ==
  \/ \E t \in Topics : Publish(t) \/ \E last \in BOOLEAN : Remove(t, last)
  \/ Connect \/ ConnectFails \/ Progress \/ Heartbeat
  \/ StopService \/ StopTimeout \/ Crash \/ LinkDies \/ WillPublished

Spec == Init /\ [][Next]_vars

\* Publications are acknowledged or fail (timeout), connecting succeeds eventually, and the
\* application waits no longer than its timeout.
Fairness ==
  /\ WF_vars(Announced) /\ WF_vars(Published) /\ WF_vars(Take) /\ WF_vars(TakeStop)
  /\ WF_vars(Flushed) /\ WF_vars(PublishFails /\ link = "dead")
  /\ WF_vars(Closed) /\ WF_vars(Retry) /\ SF_vars(Connect)
  /\ WF_vars(StopTimeout)
FairSpec == Spec /\ Fairness

(***************************************************************************)
(* Properties                                                              *)
(***************************************************************************)
\* Every variable keeps its type.
TypeOK ==
  /\ removals \in [Topics -> Nat] /\ sequence \in [Topics -> Nat]
  /\ latest \in [Topics -> Events \cup {None}]
  /\ queue = None \/ (queue \in Seq(Events \cup {Stop}) /\ Len(queue) <= QueueSize)
  /\ lost \subseteq Topics /\ stopping \in BOOLEAN
  /\ phase \in Phases /\ after \in Outcomes
  /\ sending \in Events \cup {None, Online, Offline}
  /\ todo \subseteq Events
  /\ link \in {"none", "up", "dead"} /\ connections \in Nat /\ wills \in Nat
  /\ online \in BOOLEAN
  /\ broker \in [Topics -> Events \cup {None}] /\ view \in [Topics -> Events \cup {None}]

\* The publisher has nothing more to say.
Settled == phase = "waiting" /\ queue = <<>> /\ link = "up"

\* When the publisher has nothing more to say, the broker retains the newest event of every
\* topic, unless a full queue has dropped it: events published while it connects, announces
\* and replays are neither lost nor overwritten by older ones (docs/mqtt.md:65).
BrokerCurrent ==
  Settled => \A t \in Topics \ lost : latest[t] # None => broker[t] = latest[t]

\* ... and a consumer that applies only newer sequences of a topic shows it, although the
\* replay may run ahead of the queue (docs/frontend-integration.md:335).
ConsumerFollows ==
  Settled => \A t \in Topics \ lost : latest[t] # None => view[t] = latest[t]
\* So it is for a device that was never removed.
ConsumerCurrent ==
  Settled => \A t \in Topics \ lost :
               latest[t] # None /\ removals[t] = 0 => view[t] = latest[t]

\* A publisher that has ended normally has left the newest event of every topic, also of those
\* its queue had dropped (docs/mqtt.md:66).
StopFlushes ==
  phase = "stopped" /\ after = "flushed" =>
    \A t \in Topics : latest[t] # None => broker[t] = latest[t]

\* However the publisher has ended, the broker says that the service is unavailable, or will
\* say so when it publishes the will of a dead connection (docs/mqtt.md:50).
StoppedUnavailable == phase = "stopped" /\ wills = 0 => ~online

\* Stopping the application ends the publisher, even if it has just begun to connect again.
Stops == stopping ~> phase = "stopped"

\* While the service is not stopped, what the broker retains catches up, whatever connections
\* were lost on the way.
Converges ==
  <>[](stopping \/ \A t \in Topics \ lost : latest[t] # None => broker[t] = latest[t])
=============================================================================
