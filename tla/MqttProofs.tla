------------------------------ MODULE MqttProofs ------------------------------
(* What the broker retains and a consumer shows, however connections are lost and   *)
(* the publisher ends: for every number of topics, connections and losses, and      *)
(* every size of the queue.                                                         *)
EXTENDS Mqtt, TLAPS

\* Where the publisher has a connection and has not yet begun to leave it.
Attached == {"announcing", "publishing", "waiting", "flushing"}

\* Online is what the broker retains only while the publisher is attached to a live connection
\* or while a will is still to come, and only a publisher that has a connection has a live one.
Covered ==
  /\ wills \in Nat
  /\ link = "up" => phase \in Attached \cup {"closing"}
  /\ online => wills > 0 \/ (link = "up" /\ phase \in Attached)

\* On a dead connection nothing reaches the broker.
LEMMA SendDead ==
  ASSUME NEW m, NEW l, l # "up", Send(m, l) PROVE online' = online
BY DEF Send, received

\* After Offline was sent, Online is retained only if the connection was dead.
LEMMA LeaveCovered ==
  ASSUME NEW outcome, Covered, Leave(outcome), UNCHANGED <<link, wills>>
  PROVE  Covered'
<1>1. CASE link = "up"
  <2>1. online' = (Offline = Online)
    BY <1>1 DEF Leave, Send
  <2>2. online' = FALSE
    BY <2>1, MessageAssumption
  <2> QED BY <2>2, <1>1 DEF Covered, Leave
<1>2. CASE link # "up"
  BY <1>2 DEF Covered, Leave, Send, received
<1> QED BY <1>1, <1>2

\* Cancelling a publisher that has no connection, or has sent Offline, leaves it covered.
LEMMA CancelledCovered ==
  ASSUME Covered, Cancelled, UNCHANGED wills PROVE Covered'
<1>1. CASE phase \in {"connecting", "backoff", "closing"}
  BY <1>1 DEF Covered, Cancelled, Attached, received
<1>2. CASE phase \notin {"connecting", "backoff", "closing"}
  BY <1>2, LeaveCovered DEF Cancelled
<1> QED BY <1>1, <1>2

LEMMA StepCovered == ASSUME Covered, [Next]_vars PROVE Covered'
<1> USE DEF Attached, received, run
<1>1. CASE UNCHANGED vars
  BY <1>1 DEF vars, Covered
<1>2. ASSUME NEW t \in Topics, Publish(t) PROVE Covered'
  BY <1>2 DEF Publish, Covered
<1>3. ASSUME NEW t \in Topics, NEW last \in BOOLEAN, Remove(t, last) PROVE Covered'
  BY <1>3 DEF Remove, Covered
<1>4. CASE Connect
  BY <1>4 DEF Connect, Covered
<1>5. CASE ConnectFails
  BY <1>5 DEF ConnectFails, Covered
<1>6. CASE Announced
  <2>1. link = "up" /\ link' = "up" /\ wills' = wills /\ phase' \in {"waiting", "publishing"}
    BY <1>6 DEF Announced, Acknowledged
  <2> QED BY <2>1 DEF Covered
<1>7. CASE Published
  <2>1. link = "up" /\ link' = "up" /\ wills' = wills /\ phase' \in {"waiting", "publishing"}
    BY <1>7 DEF Published, Acknowledged
  <2> QED BY <2>1 DEF Covered
<1>8. CASE Take
  BY <1>8, SendDead DEF Take, Covered
<1>9. CASE Heartbeat
  BY <1>9, SendDead DEF Heartbeat, Covered
<1>10. CASE TakeStop
  <2>1. CASE Retained = {}
    BY <2>1, <1>10, LeaveCovered DEF TakeStop
  <2>2. CASE Retained # {}
    <3>1. PICK e \in Retained : Send(e, link)
      BY <2>2, <1>10 DEF TakeStop, Replay
    <3> QED BY <3>1, <2>2, <1>10, SendDead DEF TakeStop, Covered
  <2> QED BY <2>1, <2>2
<1>11. CASE Flushed
  <2>1. CASE todo = {}
    BY <2>1, <1>11, LeaveCovered DEF Flushed
  <2>2. CASE todo # {}
    <3>1. PICK e \in todo : Send(e, link)
      BY <2>2, <1>11 DEF Flushed, Replay
    <3> QED BY <3>1, <2>2, <1>11, SendDead DEF Flushed, Covered
  <2> QED BY <2>1, <2>2
<1>12. CASE PublishFails
  BY <1>12, LeaveCovered DEF PublishFails
<1>13. CASE Closed
  BY <1>13 DEF Closed, Covered
<1>14. CASE Retry
  BY <1>14 DEF Retry, Covered
<1>15. CASE StopService
  <2>1. CASE phase \in {"connecting", "backoff"}
    <3>1. Cancelled /\ UNCHANGED wills
      BY <2>1, <1>15 DEF StopService
    <3> QED BY <3>1, CancelledCovered
  <2>2. CASE phase \notin {"connecting", "backoff"}
    BY <2>2, <1>15 DEF StopService, Covered
  <2> QED BY <2>1, <2>2
<1>16. CASE StopTimeout
  <2>1. Cancelled /\ UNCHANGED wills
    BY <1>16 DEF StopTimeout
  <2> QED BY <2>1, CancelledCovered
<1>17. CASE Crash
  BY <1>17 DEF Crash, Covered
<1>18. CASE LinkDies
  BY <1>18 DEF LinkDies, Covered
<1>19. CASE WillPublished
  BY <1>19 DEF WillPublished, Covered
<1> QED BY <1>1, <1>2, <1>3, <1>4, <1>5, <1>6, <1>7, <1>8, <1>9, <1>10, <1>11, <1>12, <1>13,
           <1>14, <1>15, <1>16, <1>17, <1>18, <1>19 DEF Next, Progress

\* However the publisher has ended (StoppedUnavailable: the finally clause and the Last Will of
\* _connected_run), the broker does not go on saying that the service is available.
THEOREM UnavailableHolds == Spec => []StoppedUnavailable
<1>1. Init => Covered
  BY DEF Init, Covered
<1>2. Covered /\ [Next]_vars => Covered'
  BY StepCovered
<1>3. Covered => StoppedUnavailable
  BY DEF Covered, StoppedUnavailable, Attached
<1> QED BY <1>1, <1>2, <1>3, PTL DEF Spec

(***************************************************************************)
(* Types.                                                                  *)
(***************************************************************************)
\* Stop is the last thing put into the queue, and an attached publisher has one.
Subscribed ==
  /\ ~stopping /\ queue # None => queue \in Seq(Events)
  /\ phase \in Attached => queue # None

QueueType == queue = None \/ (queue \in Seq(Events \cup {Stop}) /\ Len(queue) <= QueueSize)
ReceivedType ==
  /\ sending \in Events \cup {None, Online, Offline}
  /\ online \in BOOLEAN
  /\ broker \in [Topics -> Events \cup {None}] /\ view \in [Topics -> Events \cup {None}]

LEMMA NumberedType ==
  ASSUME TypeOK, NEW t \in Topics PROVE Numbered(t) \in Events /\ Numbered(t).topic = t
<1>1. removals[t] \in Nat /\ sequence[t] \in Nat
  BY DEF TypeOK
<1>2. <<removals[t], sequence[t] + 1>> \in Nat \X Nat /\ sequence[t] + 1 \in Nat
  BY <1>1
<1> QED BY <1>2 DEF Numbered, Events

LEMMA RetainedType == ASSUME TypeOK PROVE Retained \subseteq Events
BY DEF TypeOK, Retained

LEMMA PutType ==
  ASSUME TypeOK, Subscribed, ~stopping, NEW e \in Events \cup {Stop}, queue' = Put(e)
  PROVE  /\ QueueType'
         /\ queue # None => queue' # None
         /\ e \in Events /\ queue' # None => queue' \in Seq(Events)
<1>1. CASE queue = None
  BY <1>1 DEF Put, QueueType
<1>2. CASE queue # None
  <2>1. queue \in Seq(Events) /\ Len(queue) <= QueueSize /\ QueueSize \in Nat \ {0}
    BY <1>2, SizeAssumption DEF TypeOK, Subscribed
  <2> DEFINE kept == IF Len(queue) = QueueSize THEN Tail(queue) ELSE queue
  <2>2. kept \in Seq(Events) /\ Len(kept) < QueueSize
    <3>1. CASE Len(queue) = QueueSize
      <4>1. queue # <<>>
        BY <2>1, <3>1
      <4>2. Tail(queue) \in Seq(Events) /\ Len(Tail(queue)) = Len(queue) - 1
        BY <2>1, <4>1
      <4> QED BY <2>1, <3>1, <4>2
    <3>2. CASE Len(queue) # QueueSize
      BY <2>1, <3>2
    <3> QED BY <3>1, <3>2
  <2>3. queue' = Append(kept, e)
    BY <1>2 DEF Put
  <2> HIDE DEF kept
  <2>4. kept \in Seq(Events \cup {Stop})
    BY <2>2
  <2>5. queue' \in Seq(Events \cup {Stop}) /\ Len(queue') = Len(kept) + 1
    BY <2>3, <2>4
  <2>6. e \in Events => queue' \in Seq(Events)
    BY <2>2, <2>3
  <2> QED BY <2>1, <2>2, <2>5, <2>6, MessageAssumption DEF QueueType
<1> QED BY <1>1, <1>2

LEMMA MissingType ==
  ASSUME TypeOK, Subscribed, ~stopping, NEW e \in Events \cup {Stop}
  PROVE  Missing(e) \subseteq Topics
<1> DEFINE dropped == IF queue # None /\ Len(queue) = QueueSize THEN {Head(queue)} ELSE {}
<1>1. dropped \subseteq Events
  <2>1. CASE queue # None /\ Len(queue) = QueueSize
    <3>1. queue \in Seq(Events) /\ Len(queue) # 0
      BY <2>1, SizeAssumption DEF Subscribed
    <3> QED BY <2>1, <3>1
  <2> QED BY <2>1
<1>2. \A d \in dropped : d.topic \in Topics
  BY <1>1 DEF Events
<1>3. Missing(e) \subseteq lost \cup {d.topic : d \in dropped}
  BY DEF Missing
<1> HIDE DEF dropped
<1> QED BY <1>2, <1>3 DEF TypeOK

LEMMA SendType ==
  ASSUME TypeOK, NEW m \in Events \cup {Online, Offline}, NEW l, Send(m, l)
  PROVE  ReceivedType'
<1>1. sending' = m
  BY DEF Send
<1>2. CASE l # "up"
  BY <1>1, <1>2 DEF Send, received, TypeOK, ReceivedType
<1>3. CASE l = "up" /\ m \in {Online, Offline}
  <2>1. online' \in BOOLEAN /\ broker' = broker /\ view' = view
    BY <1>3 DEF Send
  <2> QED BY <1>1, <2>1 DEF TypeOK, ReceivedType
<1>4. CASE l = "up" /\ m \notin {Online, Offline}
  <2>1. m \in Events /\ m.topic \in Topics
    BY <1>4 DEF Events
  <2>2. broker' = [broker EXCEPT ![m.topic] = m] /\ view' = Applied(m) /\ online' = online
    BY <1>4 DEF Send
  <2>3. broker' \in [Topics -> Events \cup {None}]
    BY <2>1, <2>2 DEF TypeOK
  <2>4. view' \in [Topics -> Events \cup {None}]
    <3>1. view' = view \/ view' = [view EXCEPT ![m.topic] = m]
      BY <2>2 DEF Applied
    <3> QED BY <2>1, <3>1 DEF TypeOK
  <2> QED BY <1>1, <2>1, <2>2, <2>3, <2>4 DEF TypeOK, ReceivedType
<1> QED BY <1>2, <1>3, <1>4

LEMMA LeaveType ==
  ASSUME TypeOK, NEW outcome \in Outcomes, Leave(outcome)
  PROVE  /\ ReceivedType' /\ queue' = None /\ todo' = {}
         /\ phase' = "closing" /\ after' = outcome
BY SendType DEF Leave

LEMMA ReplayType ==
  ASSUME TypeOK, NEW E \in SUBSET Events, Replay(E)
  PROVE  ReceivedType' /\ todo' \subseteq E
<1>1. PICK e \in E : Send(e, link) /\ todo' = E \ {e}
  BY DEF Replay
<1> QED BY <1>1, SendType

LEMMA CancelledType ==
  ASSUME TypeOK, Subscribed, Cancelled
  PROVE  /\ ReceivedType' /\ QueueType' /\ todo' \subseteq Events
         /\ phase' \in {"closing", "stopped"} /\ after' = "cancelled" /\ link' \in {"none", link}
         /\ queue' \in {queue, None}
<1>1. CASE phase \in {"connecting", "backoff", "closing"}
  BY <1>1 DEF Cancelled, received, TypeOK, ReceivedType, QueueType
<1>2. CASE phase \notin {"connecting", "backoff", "closing"}
  <2>1. Leave("cancelled") /\ link' = link
    BY <1>2 DEF Cancelled
  <2> QED BY <2>1, LeaveType DEF Outcomes, QueueType
<1> QED BY <1>1, <1>2

\* A step that publishes on the bus leaves the publisher alone.
LEMMA BusType ==
  ASSUME TypeOK, Subscribed, ~stopping, NEW t \in Topics,
         \/ queue' = Put(Numbered(t)) /\ lost' = Missing(Numbered(t))
         \/ queue' = queue /\ lost' = lost,
         removals' \in [Topics -> Nat], sequence' \in [Topics -> Nat],
         latest' \in [Topics -> Events \cup {None}],
         UNCHANGED <<stopping, run, link, connections, wills, received>>
  PROVE  TypeOK' /\ Subscribed'
<1>1. QueueType' /\ lost' \subseteq Topics /\ (queue # None => queue' # None)
      /\ (queue' # None => queue' \in Seq(Events))
  <2>1. CASE queue' = Put(Numbered(t)) /\ lost' = Missing(Numbered(t))
    BY <2>1, NumberedType, PutType, MissingType
  <2>2. CASE queue' = queue /\ lost' = lost
    BY <2>2 DEF TypeOK, QueueType, Subscribed
  <2> QED BY <2>1, <2>2
<1> QED BY <1>1 DEF TypeOK, QueueType, Subscribed, run, received

LEMMA StepTypes ==
  ASSUME TypeOK, Subscribed, [Next]_vars PROVE TypeOK' /\ Subscribed'
<1> USE DEF bus, run, Attached, Phases, Outcomes
<1>q. QueueType /\ ReceivedType
  BY DEF TypeOK, QueueType, ReceivedType
<1>1. CASE UNCHANGED vars
  BY <1>1 DEF vars, TypeOK, Subscribed, received
<1>2. ASSUME NEW t \in Topics, Publish(t) PROVE TypeOK' /\ Subscribed'
  <2>1. removals' = removals /\ sequence' \in [Topics -> Nat]
        /\ latest' \in [Topics -> Events \cup {None}]
    BY <1>2, NumberedType DEF Publish, TypeOK
  <2> QED BY <1>2, <2>1, BusType DEF Publish, TypeOK
<1>3. ASSUME NEW t \in Topics, NEW last \in BOOLEAN, Remove(t, last)
      PROVE  TypeOK' /\ Subscribed'
  <2>1. removals' \in [Topics -> Nat] /\ sequence' \in [Topics -> Nat]
        /\ latest' \in [Topics -> Events \cup {None}]
    BY <1>3 DEF Remove, TypeOK
  <2> QED BY <1>3, <2>1, BusType DEF Remove
<1>4. CASE Connect
  <2>1. ReceivedType'
    BY <1>4, SendType DEF Connect
  <2>2. QueueType' /\ queue' # None /\ queue' \in Seq(Events)
    <3>1. queue' = <<>>
      BY <1>4 DEF Connect
    <3>2. <<>> \in Seq(Events \cup {Stop}) /\ <<>> \in Seq(Events) /\ Len(<<>>) = 0
      OBVIOUS
    <3>3. <<>> # None
      BY <3>2, MessageAssumption
    <3>4. Len(queue') <= QueueSize
      BY <3>1, <3>2, SizeAssumption
    <3> QED BY <3>1, <3>2, <3>3, <3>4 DEF QueueType
  <2> QED BY <1>4, <2>1, <2>2 DEF Connect, TypeOK, Subscribed, ReceivedType, QueueType
<1>5. CASE ConnectFails
  BY <1>5 DEF ConnectFails, TypeOK, Subscribed, received
<1>6. CASE Announced
  <2>1. ReceivedType' /\ todo' \subseteq Events /\ phase' \in {"waiting", "publishing"}
    <3>1. CASE Retained = {}
      BY <1>6, <3>1, <1>q DEF Announced, received, ReceivedType, TypeOK
    <3>2. CASE Retained # {}
      BY <1>6, <3>2, RetainedType, ReplayType DEF Announced
    <3> QED BY <3>1, <3>2
  <2> QED BY <1>6, <2>1 DEF Announced, TypeOK, Subscribed, ReceivedType
<1>7. CASE Published
  <2>1. ReceivedType' /\ todo' \subseteq Events /\ phase' \in {"waiting", "publishing"}
    <3>1. CASE todo = {}
      BY <1>7, <3>1, <1>q DEF Published, received, ReceivedType, TypeOK
    <3>2. CASE todo # {}
      BY <1>7, <3>2, ReplayType DEF Published, TypeOK
    <3> QED BY <3>1, <3>2
  <2> QED BY <1>7, <2>1 DEF Published, TypeOK, Subscribed, ReceivedType
<1>8. CASE Take
  <2>1. queue # None /\ queue # <<>> /\ queue \in Seq(Events \cup {Stop})
        /\ Head(queue) # Stop /\ queue' = Tail(queue)
    BY <1>8 DEF Take, TypeOK, Subscribed
  <2>2. Head(queue) \in Events
    BY <2>1
  <2>3. ReceivedType'
    BY <1>8, <2>2, SendType DEF Take
  <2>4. QueueType' /\ queue' # None /\ (~stopping => queue' \in Seq(Events))
    <3>1. Tail(queue) \in Seq(Events \cup {Stop}) /\ Len(Tail(queue)) <= Len(queue)
      BY <2>1
    <3>2. ~stopping => Tail(queue) \in Seq(Events)
      BY <2>1 DEF Subscribed
    <3>3. Len(queue) <= QueueSize /\ Len(queue) \in Nat /\ Len(Tail(queue)) \in Nat
      BY <2>1, <3>1 DEF TypeOK
    <3> QED BY <2>1, <3>1, <3>2, <3>3, SizeAssumption, MessageAssumption DEF QueueType
  <2> QED BY <1>8, <2>3, <2>4 DEF Take, TypeOK, Subscribed, ReceivedType, QueueType
<1>9. CASE Heartbeat
  <2>1. ReceivedType'
    BY <1>9, SendType DEF Heartbeat
  <2> QED BY <1>9, <2>1 DEF Heartbeat, TypeOK, Subscribed, ReceivedType
<1>10. CASE TakeStop
  <2>1. CASE Retained = {}
    BY <2>1, <1>10, LeaveType DEF TakeStop, TypeOK, Subscribed, ReceivedType
  <2>2. CASE Retained # {}
    <3>1. ReceivedType' /\ todo' \subseteq Events
      BY <2>2, <1>10, RetainedType, ReplayType DEF TakeStop
    <3>2. queue # None /\ queue # <<>> /\ queue \in Seq(Events \cup {Stop})
          /\ Head(queue) = Stop /\ queue' = Tail(queue)
      BY <2>2, <1>10 DEF TakeStop, TypeOK, Subscribed
    <3>3. stopping
      <4>1. ~stopping => Head(queue) \in Events
        BY <3>2 DEF Subscribed
      <4> QED BY <3>2, <4>1, MessageAssumption
    <3>4. QueueType' /\ queue' # None
      <4>1. Tail(queue) \in Seq(Events \cup {Stop}) /\ Len(Tail(queue)) <= Len(queue)
        BY <3>2
      <4>2. Len(queue) <= QueueSize /\ Len(queue) \in Nat /\ Len(Tail(queue)) \in Nat
        BY <3>2, <4>1 DEF TypeOK
      <4> QED BY <3>2, <4>1, <4>2, SizeAssumption, MessageAssumption DEF QueueType
    <3> QED BY <2>2, <1>10, <3>1, <3>3, <3>4
            DEF TakeStop, TypeOK, Subscribed, ReceivedType, QueueType
  <2> QED BY <2>1, <2>2
<1>11. CASE Flushed
  <2>1. CASE todo = {}
    BY <2>1, <1>11, LeaveType DEF Flushed, TypeOK, Subscribed, ReceivedType
  <2>2. CASE todo # {}
    <3>1. ReceivedType' /\ todo' \subseteq Events
      BY <2>2, <1>11, ReplayType DEF Flushed, TypeOK
    <3> QED BY <2>2, <1>11, <3>1 DEF Flushed, TypeOK, Subscribed, ReceivedType
  <2> QED BY <2>1, <2>2
<1>12. CASE PublishFails
  BY <1>12, LeaveType DEF PublishFails, TypeOK, Subscribed, ReceivedType
<1>13. CASE Closed
  BY <1>13 DEF Closed, Afterwards, TypeOK, Subscribed, received
<1>14. CASE Retry
  BY <1>14 DEF Retry, TypeOK, Subscribed, received
<1>15. CASE StopService
  <2>1. CASE phase \in {"connecting", "backoff"}
    BY <2>1, <1>15, CancelledType, MissingType
       DEF StopService, TypeOK, Subscribed, ReceivedType, QueueType
  <2>2. CASE phase \notin {"connecting", "backoff"}
    BY <2>2, <1>15, PutType, MissingType
       DEF StopService, TypeOK, Subscribed, received, QueueType
  <2> QED BY <2>1, <2>2
<1>16. CASE StopTimeout
  BY <1>16, CancelledType DEF StopTimeout, TypeOK, Subscribed, ReceivedType, QueueType
<1>17. CASE Crash
  BY <1>17 DEF Crash, TypeOK, Subscribed, received
<1>18. CASE LinkDies
  BY <1>18 DEF LinkDies, TypeOK, Subscribed, received
<1>19. CASE WillPublished
  <2>1. wills' \in Nat
    BY <1>19 DEF WillPublished, TypeOK
  <2>2. online' \in BOOLEAN
    BY <1>19 DEF WillPublished
  <2> QED BY <1>19, <2>1, <2>2 DEF WillPublished, TypeOK, Subscribed
<1> QED BY <1>1, <1>2, <1>3, <1>4, <1>5, <1>6, <1>7, <1>8, <1>9, <1>10, <1>11, <1>12, <1>13,
           <1>14, <1>15, <1>16, <1>17, <1>18, <1>19 DEF Next, Progress

\* An attached publisher has a queue, and stop is the last thing put into it (mqtt.py, run).
THEOREM SubscribedHolds == Spec => [](TypeOK /\ Subscribed)
<1>1. ASSUME Init PROVE TypeOK /\ Subscribed
  <2>1. TypeOK
    <3>1. removals \in [Topics -> Nat] /\ sequence \in [Topics -> Nat]
          /\ connections \in Nat /\ wills \in Nat
      BY <1>1 DEF Init
    <3>2. /\ latest \in [Topics -> Events \cup {None}]
          /\ broker \in [Topics -> Events \cup {None}]
          /\ view \in [Topics -> Events \cup {None}]
      BY <1>1 DEF Init
    <3>3. online \in BOOLEAN /\ stopping \in BOOLEAN
      BY <1>1 DEF Init
    <3> QED BY <1>1, <3>1, <3>2, <3>3 DEF Init, TypeOK, Phases, Outcomes
  <2>2. Subscribed
    BY <1>1 DEF Init, Subscribed, Attached
  <2> QED BY <2>1, <2>2
<1>2. TypeOK /\ Subscribed /\ [Next]_vars => TypeOK' /\ Subscribed'
  BY StepTypes
<1> QED BY <1>1, <1>2, PTL DEF Spec

\* Every variable keeps its type (TypeOK).
THEOREM MqttTypeCorrect == Spec => []TypeOK
BY SubscribedHolds, PTL

(***************************************************************************)
(* The last replay.                                                        *)
(***************************************************************************)
Known == \A t \in Topics : latest[t] # None => latest[t].topic = t
Kept == \A t \in Topics : latest[t] # None => broker[t] = latest[t]

\* While the last replay runs on a live connection, an event is still to be replayed or with
\* the broker; nothing is published any more.
LastReplay ==
  /\ Known
  /\ phase = "flushing" =>
       /\ stopping /\ todo \subseteq Retained
       /\ link = "up" =>
            \A t \in Topics : latest[t] # None => latest[t] \in todo \/ broker[t] = latest[t]
  /\ after = "flushed" => phase \in {"closing", "stopped"} /\ stopping /\ Kept

LEMMA KnownRetained ==
  ASSUME TypeOK, Known, NEW e \in Retained PROVE e.topic \in Topics /\ e = latest[e.topic]
BY DEF Retained, Known

\* Online and Offline leave the events alone, and an event the events of other topics.
LEMMA SendWord ==
  ASSUME NEW m \in {Online, Offline}, NEW l, Send(m, l) PROVE broker' = broker
BY DEF Send, received

LEMMA SendEvent ==
  ASSUME TypeOK, NEW m \in Events, Send(m, "up")
  PROVE  broker'[m.topic] = m /\ \A t \in Topics \ {m.topic} : broker'[t] = broker[t]
<1>1. m \notin {Online, Offline} /\ m.topic \in Topics
  BY MessageAssumption DEF Events
<1>2. broker' = [broker EXCEPT ![m.topic] = m]
  BY <1>1 DEF Send
<1> QED BY <1>1, <1>2 DEF TypeOK

\* A replay of newest events forgets none of them.
LEMMA ReplayKeeps ==
  ASSUME TypeOK, Known, link = "up", NEW E, E \subseteq Retained, Replay(E)
  PROVE  /\ todo' \subseteq E
         /\ \A t \in Topics : latest[t] # None /\ (latest[t] \in E \/ broker[t] = latest[t])
              => latest[t] \in todo' \/ broker'[t] = latest[t]
<1>1. PICK e \in E : Send(e, "up") /\ todo' = E \ {e}
  BY DEF Replay
<1>2. e \in Events /\ e.topic \in Topics /\ e = latest[e.topic]
  BY KnownRetained, RetainedType
<1>3. broker'[e.topic] = e /\ \A t \in Topics \ {e.topic} : broker'[t] = broker[t]
  BY <1>1, <1>2, SendEvent
<1>4. ASSUME NEW t \in Topics, latest[t] # None, latest[t] \in E \/ broker[t] = latest[t]
      PROVE  latest[t] \in todo' \/ broker'[t] = latest[t]
  <2>1. CASE t = e.topic
    BY <2>1, <1>2, <1>3
  <2>2. CASE t # e.topic
    <3>1. broker'[t] = broker[t] /\ latest[t] # e
      BY <2>2, <1>3, <1>4 DEF Known
    <3> QED BY <3>1, <1>1, <1>4
  <2> QED BY <2>1, <2>2
<1> QED BY <1>1, <1>4

LEMMA LeaveKeeps == ASSUME NEW outcome, Leave(outcome) PROVE broker' = broker
BY SendWord DEF Leave

LEMMA CancelledKeeps ==
  ASSUME Cancelled
  PROVE  broker' = broker /\ phase' \in {"closing", "stopped"} /\ after' = "cancelled"
BY LeaveKeeps DEF Cancelled, received, Leave

LEMMA StepReplay ==
  ASSUME TypeOK, Subscribed, LastReplay, [Next]_vars PROVE LastReplay'
<1> USE DEF bus, run, received
<1>0. ASSUME latest' = latest, stopping' = stopping, phase' # "flushing", after' # "flushed"
      PROVE  LastReplay'
  BY <1>0 DEF LastReplay, Known
<1>1. ASSUME UNCHANGED <<latest, stopping, phase, after, todo, broker>>, link' \in {link, "dead"}
      PROVE  LastReplay'
  BY <1>1 DEF LastReplay, Known, Kept, Retained
<1>2. ASSUME NEW t \in Topics, Publish(t) PROVE LastReplay'
  <2>1. Known'
    <3>1. latest' = [latest EXCEPT ![t] = Numbered(t)] /\ latest \in [Topics -> Events \cup {None}]
      BY <1>2 DEF Publish, TypeOK
    <3>2. latest'[t] = Numbered(t) /\ \A u \in Topics \ {t} : latest'[u] = latest[u]
      BY <3>1
    <3>3. Numbered(t).topic = t
      BY NumberedType
    <3> QED BY <3>2, <3>3 DEF LastReplay, Known
  <2> QED BY <1>2, <2>1 DEF Publish, LastReplay
<1>3. ASSUME NEW t \in Topics, NEW last \in BOOLEAN, Remove(t, last) PROVE LastReplay'
  <2>1. Known'
    BY <1>3 DEF Remove, TypeOK, LastReplay, Known
  <2> QED BY <1>3, <2>1 DEF Remove, LastReplay
<1>4. CASE Connect
  BY <1>4, <1>0 DEF Connect, LastReplay
<1>5. CASE ConnectFails
  BY <1>5, <1>0 DEF ConnectFails, LastReplay
<1>6. CASE Announced
  BY <1>6, <1>0 DEF Announced, LastReplay
<1>7. CASE Published
  BY <1>7, <1>0 DEF Published, LastReplay
<1>8. CASE Take
  BY <1>8, <1>0 DEF Take, LastReplay
<1>9. CASE Heartbeat
  BY <1>9, <1>0 DEF Heartbeat, LastReplay
<1>10. CASE TakeStop
  <2>1. stopping
    <3>1. queue # None /\ queue # <<>> /\ Head(queue) = Stop
      BY <1>10 DEF TakeStop, Subscribed, Attached
    <3>2. ~stopping => Head(queue) \in Events
      BY <3>1 DEF Subscribed
    <3> QED BY <3>1, <3>2, MessageAssumption
  <2>2. CASE Retained = {}
    <3>1. \A t \in Topics : latest[t] = None
      BY <2>2 DEF Retained
    <3> QED BY <2>1, <2>2, <3>1, <1>10 DEF TakeStop, Leave, LastReplay, Known, Kept
  <2>3. CASE Retained # {}
    <3>1. Replay(Retained) /\ phase' = "flushing" /\ after' = after /\ phase = "waiting"
          /\ UNCHANGED <<latest, stopping, link>>
      BY <2>3, <1>10 DEF TakeStop
    <3>2. after' # "flushed"
      BY <3>1 DEF LastReplay
    <3>3. todo' \subseteq Retained
      BY <3>1 DEF Replay
    <3>4. ASSUME link = "up", NEW t \in Topics, latest[t] # None
          PROVE  latest[t] \in todo' \/ broker'[t] = latest[t]
      <4>1. latest[t] \in Retained
        BY <3>4 DEF Retained
      <4> QED BY <3>1, <3>4, <4>1, ReplayKeeps DEF LastReplay
    <3> QED BY <2>1, <3>1, <3>2, <3>3, <3>4 DEF LastReplay, Known, Retained
  <2> QED BY <2>2, <2>3
<1>11. CASE Flushed
  <2>1. stopping /\ link = "up" /\ todo \subseteq Retained /\ UNCHANGED <<latest, stopping, link>>
        /\ \A t \in Topics : latest[t] # None => latest[t] \in todo \/ broker[t] = latest[t]
    BY <1>11 DEF Flushed, Acknowledged, LastReplay
  <2>2. CASE todo = {}
    <3>1. Leave("flushed") /\ broker' = broker
      BY <2>2, <1>11, LeaveKeeps DEF Flushed
    <3> QED BY <2>1, <2>2, <3>1 DEF Leave, LastReplay, Known, Kept
  <2>3. CASE todo # {}
    <3>1. Replay(todo) /\ phase' = "flushing" /\ after' = after /\ phase = "flushing"
      BY <2>3, <1>11 DEF Flushed
    <3>2. after' # "flushed"
      BY <3>1 DEF LastReplay
    <3>3. todo' \subseteq Retained
      BY <2>1, <3>1 DEF Replay
    <3>4. \A t \in Topics : latest[t] # None => latest[t] \in todo' \/ broker'[t] = latest[t]
      BY <2>1, <3>1, ReplayKeeps DEF LastReplay
    <3> QED BY <2>1, <3>1, <3>2, <3>3, <3>4 DEF LastReplay, Known, Retained
  <2> QED BY <2>2, <2>3
<1>12. CASE PublishFails
  BY <1>12, <1>0 DEF PublishFails, Leave
<1>13. CASE Closed
  BY <1>13 DEF Closed, Afterwards, LastReplay, Known, Kept
<1>14. CASE Retry
  BY <1>14, <1>0 DEF Retry, LastReplay
<1>15. CASE StopService
  <2>1. CASE phase \in {"connecting", "backoff"}
    BY <2>1, <1>15, CancelledKeeps DEF StopService, LastReplay, Known
  <2>2. CASE phase \notin {"connecting", "backoff"}
    BY <2>2, <1>15 DEF StopService, LastReplay, Known
  <2> QED BY <2>1, <2>2
<1>16. CASE StopTimeout
  BY <1>16, <1>0, CancelledKeeps DEF StopTimeout
<1>17. CASE Crash
  BY <1>17 DEF Crash, LastReplay, Known
<1>18. CASE LinkDies
  BY <1>18, <1>1 DEF LinkDies
<1>19. CASE WillPublished
  BY <1>19, <1>1 DEF WillPublished
<1>20. CASE UNCHANGED vars
  BY <1>20, <1>1 DEF vars
<1> QED BY <1>2, <1>3, <1>4, <1>5, <1>6, <1>7, <1>8, <1>9, <1>10, <1>11, <1>12, <1>13,
           <1>14, <1>15, <1>16, <1>17, <1>18, <1>19, <1>20 DEF Next, Progress

\* Every state agrees with the last replay: the inductive invariant.
THEOREM LastReplayHolds == Spec => []LastReplay
<1>1. Init => LastReplay
  BY DEF Init, LastReplay, Known
<1>2. TypeOK /\ Subscribed /\ LastReplay /\ [Next]_vars => LastReplay'
  BY StepReplay
<1> QED BY <1>1, <1>2, SubscribedHolds, PTL DEF Spec

\* A publisher that has ended normally has left the newest event of every topic (StopFlushes:
\* the replay that _publish_events makes when it takes Stop).
THEOREM FlushHolds == Spec => []StopFlushes
<1>1. LastReplay => StopFlushes
  BY DEF LastReplay, StopFlushes, Kept
<1> QED BY <1>1, LastReplayHolds, PTL

(***************************************************************************)
(* What the broker has, will be sent by the replay, or waits in the queue. *)
(***************************************************************************)
About(e, t) == e # Stop /\ e.topic = t
Waits(q, t) == \E i \in 1..Len(q) : About(q[i], t)
Newest(q, t, e) ==
  \E i \in 1..Len(q) : q[i] = e /\ \A j \in 1..Len(q) : j > i => ~About(q[j], t)

\* The last event of a topic in the queue is its newest, and nothing of a topic follows an event
\* that was dropped as its newest.  Of a topic that does not wait in the queue, the newest event
\* is with the broker or the replay has it, and the replay has nothing older.
Ordered ==
  queue # None =>
    \A t \in Topics : /\ latest[t] # None /\ Waits(queue, t) => Newest(queue, t, latest[t])
                      /\ t \in lost => ~Waits(queue, t)
Reached(t) ==
  /\ broker[t] = latest[t] \/ latest[t] \in todo
  /\ \A e \in todo : e.topic = t => e = latest[t]
Fed ==
  phase \in {"publishing", "waiting"} /\ link = "up" =>
    \A t \in Topics \ lost : latest[t] # None /\ ~Waits(queue, t) => Reached(t)
\* There is a replay only while events are sent, and a subscription only while attached.
Idle ==
  /\ phase \notin {"publishing", "flushing"} => todo = {}
  /\ phase \notin Attached => queue = None
Catching == Ordered /\ Fed /\ Idle

\* Putting drops the head of a full queue and appends.
LEMMA PutShape ==
  ASSUME TypeOK, Subscribed, ~stopping, queue # None, NEW e \in Events \cup {Stop},
         queue' = Put(e)
  PROVE  \E k \in {0, 1} :
           /\ queue \in Seq(Events) /\ Len(queue) \in Nat /\ k <= Len(queue)
           /\ Len(queue') = Len(queue) - k + 1
           /\ \A i \in 1..(Len(queue) - k) : queue'[i] = queue[i + k]
           /\ queue'[Len(queue) - k + 1] = e
           /\ k = 1 <=> Len(queue) = QueueSize
<1>1. queue \in Seq(Events) /\ QueueSize \in Nat \ {0} /\ Len(queue) \in Nat
  BY SizeAssumption DEF Subscribed
<1>2. CASE Len(queue) = QueueSize
  <2>1. queue # <<>> /\ queue' = Append(Tail(queue), e)
    BY <1>1, <1>2 DEF Put
  <2>2. /\ Tail(queue) \in Seq(Events) /\ Len(Tail(queue)) = Len(queue) - 1
        /\ \A i \in 1..(Len(queue) - 1) : Tail(queue)[i] = queue[i + 1]
    BY <1>1, <2>1
  <2>3. /\ Len(queue') = Len(queue) - 1 + 1
        /\ \A i \in 1..(Len(queue) - 1) : queue'[i] = queue[i + 1]
        /\ queue'[Len(queue) - 1 + 1] = e
    BY <1>1, <2>1, <2>2
  <2> QED BY <1>1, <1>2, <2>3
<1>3. CASE Len(queue) # QueueSize
  <2>1. queue' = Append(queue, e)
    BY <1>3 DEF Put
  <2>2. /\ Len(queue') = Len(queue) - 0 + 1
        /\ \A i \in 1..(Len(queue) - 0) : queue'[i] = queue[i + 0]
        /\ queue'[Len(queue) - 0 + 1] = e
    BY <1>1, <2>1
  <2> QED BY <1>1, <1>3, <2>2
<1> QED BY <1>2, <1>3

\* What is put is the newest of its topic.
LEMMA PutOwn ==
  ASSUME TypeOK, Subscribed, ~stopping, queue # None, NEW t \in Topics, NEW e \in Events,
         e.topic = t, queue' = Put(e), lost' = Missing(e)
  PROVE  Waits(queue', t) /\ Newest(queue', t, e) /\ t \notin lost'
<1>1. PICK k \in {0, 1} :
        /\ Len(queue) \in Nat /\ k <= Len(queue)
        /\ Len(queue') = Len(queue) - k + 1
        /\ queue'[Len(queue) - k + 1] = e
  BY PutShape
<1>2. Len(queue') \in 1..Len(queue') /\ queue'[Len(queue')] = e
      /\ \A j \in 1..Len(queue') : ~(j > Len(queue'))
  BY <1>1
<1>3. About(e, t) /\ e # Stop
  BY MessageAssumption DEF About
<1> QED BY <1>2, <1>3 DEF Waits, Newest, Missing

\* For another topic, putting drops its newest event and says so, or nothing that matters.
LEMMA PutOther ==
  ASSUME TypeOK, Subscribed, ~stopping, queue # None, NEW e \in Events \cup {Stop},
         NEW u \in Topics, ~About(e, u), queue' = Put(e), lost' = Missing(e)
  PROVE  /\ Waits(queue', u) => Waits(queue, u)
         /\ u \notin lost' => (u \notin lost /\ (Waits(queue, u) => Waits(queue', u)))
         /\ \A f : Waits(queue', u) /\ Newest(queue, u, f) => Newest(queue', u, f)
         /\ u \in lost' => u \in lost \/ ~Waits(queue', u)
<1>1. PICK k \in {0, 1} :
           /\ queue \in Seq(Events) /\ Len(queue) \in Nat /\ k <= Len(queue)
           /\ Len(queue') = Len(queue) - k + 1
           /\ \A i \in 1..(Len(queue) - k) : queue'[i] = queue[i + k]
           /\ queue'[Len(queue) - k + 1] = e
           /\ k = 1 <=> Len(queue) = QueueSize
  BY PutShape
<1> DEFINE n == Len(queue)
<1>2. /\ n \in Nat /\ k <= n /\ Len(queue') = n - k + 1
      /\ \A i \in 1..(n - k) : queue'[i] = queue[i + k]
      /\ queue'[n - k + 1] = e
      /\ \A i \in 1..n : queue[i] \in Events /\ queue[i] # Stop
  BY <1>1, MessageAssumption
<1> HIDE DEF n
<1>3. Waits(queue', u) <=> \E i \in 1..n : i > k /\ About(queue[i], u)
  <2>1. ASSUME NEW i \in 1..n, i > k, About(queue[i], u) PROVE Waits(queue', u)
    <3>1. i - k \in 1..(n - k) /\ i - k \in 1..(n - k + 1) /\ (i - k) + k = i
      BY <1>2, <2>1
    <3>2. queue'[i - k] = queue[i]
      BY <1>2, <3>1
    <3> QED BY <1>2, <2>1, <3>1, <3>2 DEF Waits
  <2>2. ASSUME NEW i \in 1..(n - k + 1), About(queue'[i], u)
        PROVE  \E j \in 1..n : j > k /\ About(queue[j], u)
    <3>1. i # n - k + 1
      BY <1>2, <2>2
    <3>2. i \in 1..(n - k) /\ i + k \in 1..n /\ i + k > k
      BY <1>2, <3>1
    <3> QED BY <1>2, <2>2, <3>2
  <2> QED BY <1>2, <2>1, <2>2 DEF Waits
<1>4. Waits(queue, u) <=> \E i \in 1..n : About(queue[i], u)
  BY DEF Waits, n
<1>5. ASSUME NEW f, Waits(queue', u), Newest(queue, u, f) PROVE Newest(queue', u, f)
  <2>1. PICK i \in 1..n : queue[i] = f /\ \A j \in 1..n : j > i => ~About(queue[j], u)
    BY <1>5 DEF Newest, n
  <2>2. i > k
    <3>1. PICK j \in 1..n : j > k /\ About(queue[j], u)
      BY <1>3, <1>5
    <3> QED BY <2>1, <3>1, <1>2
  <2>3. i - k \in 1..(n - k + 1) /\ i - k \in 1..(n - k) /\ (i - k) + k = i
    BY <1>2, <2>2
  <2>4. queue'[i - k] = f
    BY <1>2, <2>1, <2>3
  <2>5. ASSUME NEW j \in 1..(n - k + 1), j > i - k PROVE ~About(queue'[j], u)
    <3>1. CASE j = n - k + 1
      BY <1>2, <3>1
    <3>2. CASE j # n - k + 1
      <4>1. j \in 1..(n - k) /\ j + k \in 1..n /\ j + k > i
        BY <1>2, <2>5, <3>2
      <4> QED BY <1>2, <2>1, <4>1
    <3> QED BY <3>1, <3>2
  <2> QED BY <1>2, <2>3, <2>4, <2>5 DEF Newest
<1>6. u \in lost' <=> \/ u \in lost
                     \/ /\ k = 1 /\ queue[1].topic = u
                        /\ \A i \in 2..n : queue[i].topic # u
  <2> DEFINE dropped == IF queue # None /\ Len(queue) = QueueSize THEN {Head(queue)} ELSE {}
             putTopic == IF e = Stop THEN {} ELSE {e.topic}
  <2>1. u \notin putTopic
    BY DEF About
  <2>2. lost' = (lost \cup {d.topic : d \in {x \in dropped :
                              \A i \in 2..Len(queue) : queue[i].topic # x.topic}}) \ putTopic
    BY DEF Missing
  <2>3. dropped = IF k = 1 THEN {queue[1]} ELSE {}
    BY <1>1
  <2> HIDE DEF dropped, putTopic
  <2> QED BY <2>1, <2>2, <2>3 DEF n
<1>7. \A i \in 1..n : About(queue[i], u) <=> queue[i].topic = u
  BY <1>2 DEF About
<1>8. ASSUME u \notin lost', Waits(queue, u) PROVE Waits(queue', u)
  <2>1. PICK i \in 1..n : About(queue[i], u)
    BY <1>4, <1>8
  <2>2. CASE i > k
    BY <1>3, <2>1, <2>2
  <2>3. CASE ~(i > k)
    <3>1. i = 1 /\ k = 1
      BY <1>2, <2>3
    <3>2. PICK j \in 2..n : queue[j].topic = u
      BY <1>6, <1>7, <1>8, <2>1, <3>1
    <3>3. j \in 1..n /\ j > k
      BY <1>2, <3>1
    <3> QED BY <1>3, <1>7, <3>2, <3>3
  <2> QED BY <2>2, <2>3
<1>9. ASSUME u \in lost', u \notin lost PROVE ~Waits(queue', u)
  <2>1. k = 1 /\ \A i \in 2..n : queue[i].topic # u
    BY <1>6, <1>9
  <2>2. ASSUME NEW i \in 1..n, i > 1 PROVE i \in 2..n
    BY <1>2, <2>2
  <2> QED BY <1>3, <1>7, <2>1, <2>2
<1> QED BY <1>3, <1>4, <1>5, <1>6, <1>8, <1>9

\* Taking the head leaves the newest events behind it, or takes the newest one.
LEMMA TailNewest ==
  ASSUME queue \in Seq(Events \cup {Stop}), queue # <<>>, queue' = Tail(queue), NEW u \in Topics
  PROVE  /\ Waits(queue', u) => Waits(queue, u)
         /\ \A f : Waits(queue', u) /\ Newest(queue, u, f) => Newest(queue', u, f)
         /\ Waits(queue, u) /\ ~Waits(queue', u) => About(Head(queue), u)
         /\ \A f : ~Waits(queue', u) /\ Newest(queue, u, f) /\ About(f, u) => Head(queue) = f
<1> DEFINE n == Len(queue)
<1>1. /\ n \in Nat /\ n >= 1 /\ Len(queue') = n - 1
      /\ \A i \in 1..(n - 1) : queue'[i] = queue[i + 1]
      /\ Head(queue) = queue[1]
  OBVIOUS
<1>2. Waits(queue, u) <=> \E i \in 1..n : About(queue[i], u)
  BY DEF Waits
<1> HIDE DEF n
<1>3. \A i \in 1..n : i # 1 => i - 1 \in 1..(n - 1) /\ (i - 1) + 1 = i
  BY <1>1
<1>4. \A i \in 1..(n - 1) : i + 1 \in 1..n /\ i + 1 # 1
  BY <1>1
<1>5. Waits(queue', u) <=> \E i \in 1..n : i # 1 /\ About(queue[i], u)
  <2>1. ASSUME NEW i \in 1..n, i # 1, About(queue[i], u) PROVE Waits(queue', u)
    <3>1. queue'[i - 1] = queue[i] /\ i - 1 \in 1..Len(queue')
      BY <1>1, <1>3, <2>1
    <3> QED BY <2>1, <3>1 DEF Waits
  <2>2. ASSUME NEW i \in 1..(n - 1), About(queue'[i], u)
        PROVE  \E j \in 1..n : j # 1 /\ About(queue[j], u)
    BY <1>1, <1>4, <2>2
  <2> QED BY <1>1, <2>1, <2>2 DEF Waits
<1>6. ASSUME NEW f, Waits(queue', u), Newest(queue, u, f) PROVE Newest(queue', u, f)
  <2>1. PICK i \in 1..n : queue[i] = f /\ \A j \in 1..n : j > i => ~About(queue[j], u)
    BY <1>6 DEF Newest, n
  <2>2. i # 1
    <3>1. PICK j \in 1..n : j # 1 /\ About(queue[j], u)
      BY <1>5, <1>6
    <3>2. j > 1
      BY <1>1, <3>1
    <3> QED BY <2>1, <3>1, <3>2
  <2>3. i - 1 \in 1..(n - 1) /\ queue'[i - 1] = f
    BY <1>1, <1>3, <2>1, <2>2
  <2>4. ASSUME NEW j \in 1..(n - 1), j > i - 1 PROVE ~About(queue'[j], u)
    <3>1. j + 1 \in 1..n /\ j + 1 > i
      BY <1>1, <2>4
    <3> QED BY <1>1, <2>1, <3>1
  <2> QED BY <1>1, <2>3, <2>4 DEF Newest
<1>7. ASSUME NEW f, ~Waits(queue', u), Newest(queue, u, f), About(f, u) PROVE Head(queue) = f
  <2>1. PICK i \in 1..n : queue[i] = f
    BY <1>7 DEF Newest, n
  <2> QED BY <1>1, <1>5, <1>7, <2>1
<1> QED BY <1>1, <1>2, <1>5, <1>6, <1>7

LEMMA BusCatching ==
  ASSUME TypeOK, Subscribed, Catching, ~stopping, NEW t \in Topics,
         queue' = Put(Numbered(t)), lost' = Missing(Numbered(t)),
         latest'[t] \in {Numbered(t), None}, \A u \in Topics \ {t} : latest'[u] = latest[u],
         UNCHANGED <<run, link, received>>
  PROVE  Catching'
<1> USE DEF run, received
<1>1. CASE queue = None
  BY <1>1 DEF Put, Catching, Ordered, Fed, Idle, Subscribed, Attached
<1>2. CASE queue # None
  <2>1. Numbered(t) \in Events /\ Numbered(t).topic = t
    BY NumberedType
  <2>2. Waits(queue', t) /\ Newest(queue', t, Numbered(t)) /\ t \notin lost'
    BY <1>2, <2>1, PutOwn
  <2>3. ASSUME NEW u \in Topics, u # t
        PROVE  /\ latest'[u] # None /\ Waits(queue', u) => Newest(queue', u, latest'[u])
               /\ u \in lost' => ~Waits(queue', u)
               /\ u \notin lost' => (u \notin lost /\ (Waits(queue, u) => Waits(queue', u)))
    <3>1. ~About(Numbered(t), u)
      BY <2>1, <2>3 DEF About
    <3>2. /\ Waits(queue', u) => Waits(queue, u)
          /\ u \notin lost' => (u \notin lost /\ (Waits(queue, u) => Waits(queue', u)))
          /\ \A f : Waits(queue', u) /\ Newest(queue, u, f) => Newest(queue', u, f)
          /\ u \in lost' => u \in lost \/ ~Waits(queue', u)
      BY <1>2, <2>1, <3>1, PutOther
    <3> QED BY <1>2, <2>3, <3>2 DEF Catching, Ordered
  <2>4. Ordered'
    BY <2>2, <2>3 DEF Ordered
  <2>5. Fed'
    <3> SUFFICES ASSUME phase \in {"publishing", "waiting"}, link = "up", NEW u \in Topics \ lost',
                        latest'[u] # None, ~Waits(queue', u)
                 PROVE  Reached(u)'
      BY DEF Fed
    <3>1. u # t /\ u \notin lost /\ ~Waits(queue, u) /\ latest'[u] = latest[u]
      BY <2>2, <2>3
    <3>2. Reached(u)
      BY <3>1 DEF Catching, Fed
    <3> QED BY <3>1, <3>2 DEF Reached
  <2>6. Idle'
    BY <1>2 DEF Catching, Idle
  <2> QED BY <2>4, <2>5, <2>6 DEF Catching
<1> QED BY <1>1, <1>2

LEMMA StepCatching ==
  ASSUME TypeOK, Subscribed, Known, Catching, [Next]_vars PROVE Catching'
<1> USE DEF bus, run, received
<1>1. ASSUME UNCHANGED <<latest, queue, lost, phase, todo, broker>>, link' \in {link, "dead"}
      PROVE  Catching'
  <2>1. Ordered' /\ Idle'
    BY <1>1 DEF Catching, Ordered, Idle
  <2>2. Fed'
    BY <1>1 DEF Catching, Fed, Reached
  <2> QED BY <2>1, <2>2 DEF Catching
<1>l. ASSUME queue' = None, todo' = {}, phase' \notin {"publishing", "waiting"} PROVE Catching'
  BY <1>l DEF Catching, Ordered, Fed, Idle
<1>2. ASSUME NEW t \in Topics, Publish(t) PROVE Catching'
  <2>1. latest' = [latest EXCEPT ![t] = Numbered(t)] /\ latest \in [Topics -> Events \cup {None}]
    BY <1>2 DEF Publish, TypeOK
  <2>2. latest'[t] = Numbered(t) /\ \A u \in Topics \ {t} : latest'[u] = latest[u]
    BY <2>1
  <2> QED BY <1>2, <2>2, BusCatching DEF Publish
<1>3. ASSUME NEW t \in Topics, NEW last \in BOOLEAN, Remove(t, last) PROVE Catching'
  <2>1. latest'[t] = None /\ \A u \in Topics \ {t} : latest'[u] = latest[u]
    BY <1>3 DEF Remove, TypeOK
  <2>2. CASE last
    BY <1>3, <2>1, <2>2, BusCatching DEF Remove
  <2>3. CASE ~last
    <3>1. UNCHANGED <<queue, lost, run, link, received>>
      BY <1>3, <2>3 DEF Remove
    <3>2. Ordered'
      BY <2>1, <3>1 DEF Catching, Ordered
    <3>3. Fed'
      BY <2>1, <3>1 DEF Catching, Fed, Reached
    <3>4. Idle'
      BY <3>1 DEF Catching, Idle
    <3> QED BY <3>2, <3>3, <3>4 DEF Catching
  <2> QED BY <2>2, <2>3
<1>4. CASE Connect
  <2>1. queue' = <<>> /\ phase' = "announcing"
    BY <1>4 DEF Connect
  <2>2. \A t : ~Waits(queue', t)
    BY <2>1 DEF Waits
  <2>3. todo' = {}
    BY <1>4 DEF Connect, Catching, Idle
  <2> QED BY <2>1, <2>2, <2>3 DEF Catching, Ordered, Fed, Idle, Attached
<1>5. CASE ConnectFails
  BY <1>5, <1>l DEF ConnectFails, Catching, Idle, Attached
<1>6. CASE Announced
  <2>1. lost' = {} /\ link = "up" /\ link' = "up" /\ latest' = latest /\ queue' = queue
    BY <1>6 DEF Announced, Acknowledged
  <2>2. Ordered'
    BY <2>1 DEF Catching, Ordered
  <2>3. CASE Retained = {}
    <3>1. \A t \in Topics : latest[t] = None
      BY <2>3 DEF Retained
    <3>2. Fed'
      BY <2>1, <3>1 DEF Fed
    <3>3. todo' = {}
      <4>1. Retained = {} => todo' = todo
        BY <1>6 DEF Announced
      <4> QED BY <2>3, <4>1, <1>6 DEF Announced, Catching, Idle
    <3>4. phase' = "waiting"
      BY <2>3, <1>6 DEF Announced
    <3> QED BY <2>2, <3>2, <3>3, <3>4 DEF Catching, Idle, Attached
  <2>4. CASE Retained # {}
    <3>1. Replay(Retained) /\ phase' = "publishing"
      BY <2>4, <1>6 DEF Announced
    <3>2. /\ todo' \subseteq Retained
          /\ \A t \in Topics : latest[t] # None => latest[t] \in todo' \/ broker'[t] = latest[t]
      <4>1. \A t \in Topics : latest[t] # None => latest[t] \in Retained
        BY DEF Retained
      <4> QED BY <2>1, <3>1, <4>1, ReplayKeeps
    <3>3. \A e \in todo' : e = latest[e.topic]
      BY <3>2, KnownRetained
    <3>4. Fed'
      BY <2>1, <3>2, <3>3 DEF Fed, Reached
    <3> QED BY <2>2, <3>1, <3>4 DEF Catching, Idle, Attached
  <2> QED BY <2>3, <2>4
<1>7. CASE Published
  <2>1. link = "up" /\ link' = "up" /\ UNCHANGED <<latest, queue, lost>> /\ phase = "publishing"
    BY <1>7 DEF Published, Acknowledged
  <2>2. Ordered'
    BY <2>1 DEF Catching, Ordered
  <2>3. CASE todo = {}
    <3>1. UNCHANGED <<todo, broker>> /\ phase' = "waiting"
      BY <2>3, <1>7 DEF Published
    <3>2. Fed'
      BY <2>1, <3>1 DEF Catching, Fed, Reached
    <3> QED BY <2>2, <2>3, <3>1, <3>2 DEF Catching, Idle, Attached
  <2>4. CASE todo # {}
    <3>1. Replay(todo) /\ phase' = "publishing"
      BY <2>4, <2>1, <1>7 DEF Published
    <3>2. PICK e \in todo : Send(e, "up") /\ todo' = todo \ {e}
      BY <2>1, <3>1 DEF Replay
    <3>3. e \in Events /\ todo \subseteq Events
      BY DEF TypeOK
    <3>4. broker'[e.topic] = e /\ \A t \in Topics \ {e.topic} : broker'[t] = broker[t]
      BY <3>2, <3>3, SendEvent
    <3>5. ASSUME NEW t \in Topics \ lost, latest[t] # None, ~Waits(queue, t)
          PROVE  /\ broker'[t] = latest[t] \/ latest[t] \in todo'
                 /\ \A f \in todo' : f.topic = t => f = latest[t]
      <4>1. Reached(t)
        BY <2>1, <3>5 DEF Catching, Fed
      <4>2. CASE e.topic = t
        BY <3>2, <3>4, <4>1, <4>2 DEF Reached
      <4>3. CASE e.topic # t
        <5>1. broker'[t] = broker[t] /\ latest[t] # e
          BY <3>4, <3>5, <4>3 DEF Known
        <5> QED BY <3>2, <4>1, <5>1 DEF Reached
      <4> QED BY <4>2, <4>3
    <3>6. Fed'
      BY <2>1, <3>5 DEF Fed, Reached
    <3> QED BY <2>2, <3>1, <3>6 DEF Catching, Idle, Attached
  <2> QED BY <2>3, <2>4
<1>8. CASE Take
  <2>1. /\ queue # None /\ queue # <<>> /\ queue \in Seq(Events \cup {Stop})
        /\ Head(queue) # Stop /\ queue' = Tail(queue)
        /\ UNCHANGED <<latest, lost, todo, link>> /\ todo = {} /\ phase = "waiting"
        /\ phase' = "publishing" /\ Send(Head(queue), link)
    BY <1>8 DEF Take, TypeOK, Subscribed, Attached, Catching, Idle
  <2>2. Head(queue) \in Events
    BY <2>1
  <2>3. Ordered'
    BY <2>1, TailNewest DEF Catching, Ordered
  <2>4. ASSUME link = "up", NEW t \in Topics \ lost, latest[t] # None, ~Waits(queue', t)
        PROVE  broker'[t] = latest[t]
    <3>1. broker'[Head(queue).topic] = Head(queue)
          /\ \A u \in Topics \ {Head(queue).topic} : broker'[u] = broker[u]
      BY <2>1, <2>2, <2>4, SendEvent
    <3>2. CASE Waits(queue, t)
      <4>1. About(latest[t], t)
        <5>1. latest[t] \in Events
          BY <2>4 DEF TypeOK
        <5> QED BY <2>4, <5>1, MessageAssumption DEF About, Known
      <4>2. Newest(queue, t, latest[t])
        BY <2>1, <2>4, <3>2 DEF Catching, Ordered
      <4>3. Head(queue) = latest[t]
        BY <2>1, <2>4, <4>1, <4>2, TailNewest
      <4> QED BY <3>1, <4>1, <4>3 DEF About
    <3>3. CASE ~Waits(queue, t)
      <4>1. broker[t] = latest[t]
        BY <2>1, <2>4, <3>3 DEF Catching, Fed, Reached
      <4>2. Head(queue).topic # t
        <5>1. 1 \in 1..Len(queue) /\ Head(queue) = queue[1]
          BY <2>1
        <5> QED BY <2>1, <3>3, <5>1 DEF Waits, About
      <4> QED BY <3>1, <4>1, <4>2
    <3> QED BY <3>2, <3>3
  <2>5. Fed'
    BY <2>1, <2>4 DEF Fed, Reached
  <2> QED BY <2>1, <2>3, <2>5 DEF Catching, Idle, Attached
<1>9. CASE Heartbeat
  <2>1. broker' = broker
    BY <1>9, SendWord DEF Heartbeat
  <2>2. UNCHANGED <<latest, queue, lost, todo, link>> /\ phase = "waiting"
        /\ phase' = "publishing"
    BY <1>9 DEF Heartbeat
  <2>3. Ordered' /\ Idle'
    BY <2>2 DEF Catching, Ordered, Idle, Attached
  <2>4. Fed'
    BY <2>1, <2>2 DEF Catching, Fed, Reached
  <2> QED BY <2>3, <2>4 DEF Catching
<1>10. CASE TakeStop
  <2>1. CASE Retained = {}
    BY <2>1, <1>10, <1>l DEF TakeStop, Leave
  <2>2. CASE Retained # {}
    <3>1. /\ queue # None /\ queue # <<>> /\ queue \in Seq(Events \cup {Stop})
          /\ queue' = Tail(queue) /\ phase' = "flushing" /\ UNCHANGED <<latest, lost>>
      BY <2>2, <1>10 DEF TakeStop, TypeOK, Subscribed, Attached
    <3>2. Ordered'
      BY <3>1, TailNewest DEF Catching, Ordered
    <3> QED BY <3>1, <3>2 DEF Catching, Fed, Idle, Attached
  <2> QED BY <2>1, <2>2
<1>11. CASE Flushed
  <2>1. CASE todo = {}
    BY <2>1, <1>11, <1>l DEF Flushed, Leave
  <2>2. CASE todo # {}
    <3>1. UNCHANGED <<latest, queue, lost>> /\ phase = "flushing" /\ phase' = "flushing"
      BY <2>2, <1>11 DEF Flushed
    <3> QED BY <3>1 DEF Catching, Ordered, Fed, Idle, Attached
  <2> QED BY <2>1, <2>2
<1>12. CASE PublishFails
  BY <1>12, <1>l DEF PublishFails, Leave
<1>13. CASE Closed
  BY <1>13, <1>l DEF Closed, Afterwards, Catching, Idle, Attached
<1>14. CASE Retry
  BY <1>14, <1>l DEF Retry, Catching, Idle, Attached
<1>c. ASSUME Cancelled PROVE Catching'
  <2>1. phase' \in {"closing", "stopped"} /\ queue' = None /\ todo' = {}
    BY <1>c DEF Cancelled, Leave, Catching, Idle, Attached, TypeOK, Phases
  <2> QED BY <2>1, <1>l
<1>15. CASE StopService
  <2>1. CASE phase \in {"connecting", "backoff"}
    BY <2>1, <1>15, <1>c DEF StopService
  <2>2. CASE phase \notin {"connecting", "backoff"}
    <3>1. /\ ~stopping /\ lost' = Missing(Stop) /\ queue' = Put(Stop)
          /\ UNCHANGED <<latest, phase, todo, link, broker>>
      BY <2>2, <1>15 DEF StopService
    <3>2. CASE queue = None
      <4>1. queue' = None /\ phase \notin Attached
        BY <3>1, <3>2 DEF Put, Subscribed
      <4> QED BY <3>1, <4>1, <1>l DEF Catching, Idle, Attached
    <3>3. CASE queue # None
      <4>1. ASSUME NEW u \in Topics
            PROVE  /\ Waits(queue', u) => Waits(queue, u)
                   /\ u \notin lost' => (u \notin lost /\ (Waits(queue, u) => Waits(queue', u)))
                   /\ \A f : Waits(queue', u) /\ Newest(queue, u, f) => Newest(queue', u, f)
                   /\ u \in lost' => u \in lost \/ ~Waits(queue', u)
        <5>1. ~About(Stop, u) /\ Stop \in Events \cup {Stop}
          BY DEF About
        <5> QED BY <3>1, <3>3, <5>1, PutOther
      <4>2. Ordered'
        BY <3>1, <3>3, <4>1 DEF Catching, Ordered
      <4>3. Fed'
        BY <3>1, <4>1 DEF Catching, Fed, Reached
      <4>4. Idle'
        BY <3>1, <3>3 DEF Catching, Idle
      <4> QED BY <4>2, <4>3, <4>4 DEF Catching
    <3> QED BY <3>2, <3>3
  <2> QED BY <2>1, <2>2
<1>16. CASE StopTimeout
  BY <1>16, <1>c DEF StopTimeout
<1>17. CASE Crash
  BY <1>17, <1>l DEF Crash
<1>18. CASE LinkDies
  BY <1>18, <1>1 DEF LinkDies
<1>19. CASE WillPublished
  BY <1>19, <1>1 DEF WillPublished
<1>20. CASE UNCHANGED vars
  BY <1>20, <1>1 DEF vars
<1> QED BY <1>2, <1>3, <1>4, <1>5, <1>6, <1>7, <1>8, <1>9, <1>10, <1>11, <1>12, <1>13,
           <1>14, <1>15, <1>16, <1>17, <1>18, <1>19, <1>20 DEF Next, Progress

\* When the publisher has nothing more to say, the broker retains the newest event of every topic
\* that a full queue has not dropped (BrokerCurrent: subscribing before announcing, and the
\* replay before the queue, in _connected_run).
THEOREM CurrentHolds == Spec => []BrokerCurrent
<1>1. Init => Catching
  BY DEF Init, Catching, Ordered, Fed, Idle
<1>2. TypeOK /\ Subscribed /\ LastReplay /\ Catching /\ [Next]_vars => Catching'
  BY StepCatching DEF LastReplay
<1>3. Catching => BrokerCurrent
  <2> SUFFICES ASSUME Catching, Settled, NEW t \in Topics \ lost, latest[t] # None
               PROVE  broker[t] = latest[t]
    BY DEF BrokerCurrent
  <2>1. queue = <<>> /\ phase = "waiting" /\ link = "up" /\ todo = {}
    BY DEF Settled, Catching, Idle
  <2>2. ~Waits(queue, t)
    BY <2>1 DEF Waits
  <2> QED BY <2>1, <2>2 DEF Catching, Fed, Reached
<1> QED BY <1>1, <1>2, <1>3, LastReplayHolds, SubscribedHolds, PTL DEF Spec

(***************************************************************************)
(* What the consumer shows.                                                *)
(***************************************************************************)
Held == IF queue = None THEN {} ELSE {queue[i] : i \in 1..Len(queue)}
Around == Held \cup todo \cup {latest[t] : t \in Topics} \cup {view[t] : t \in Topics}

\* The consumer is never behind the broker.
Ahead ==
  \A t \in Topics :
    /\ view[t] # None => view[t].topic = t
    /\ broker[t] # None => view[t] # None /\ broker[t].sequence <= view[t].sequence

\* While a device was never removed, its number tells an event from every other.
First(t, s) == [topic |-> t, sequence |-> s, content |-> <<0, s>>]
Originals ==
  \A t \in Topics : removals[t] = 0 =>
    /\ \A e \in Around \cap Events :
         e.topic = t => e = First(t, e.sequence) /\ e.sequence <= sequence[t]
    /\ latest[t] # None => latest[t].sequence = sequence[t]

\* What is sent reaches the consumer, or is no news.
LEMMA SendAhead ==
  ASSUME TypeOK, Ahead, NEW m \in Events \cup {Online, Offline}, NEW l, Send(m, l)
  PROVE  Ahead' /\ \A t \in Topics : view'[t] \in {view[t], m}
<1>1. CASE broker' = broker /\ view' = view
  BY <1>1 DEF Ahead
<1>2. CASE ~(broker' = broker /\ view' = view)
  <2>1. /\ m \in Events /\ m.topic \in Topics /\ m.sequence \in Nat
        /\ broker' = [broker EXCEPT ![m.topic] = m] /\ view' = Applied(m)
    BY <1>2 DEF Send, received, Events
  <2>2. m # None /\ broker \in [Topics -> Events \cup {None}]
        /\ view \in [Topics -> Events \cup {None}]
    BY <2>1, MessageAssumption DEF TypeOK
  <2>3. \A t \in Topics : view[t] # None => view[t].sequence \in Nat
    BY <2>2 DEF Events
  <2>4. CASE view[m.topic] = None \/ m.sequence > view[m.topic].sequence
    <3>1. view' = [view EXCEPT ![m.topic] = m]
      BY <2>1, <2>4 DEF Applied
    <3>2. /\ broker'[m.topic] = m /\ view'[m.topic] = m
          /\ \A t \in Topics \ {m.topic} : broker'[t] = broker[t] /\ view'[t] = view[t]
      BY <2>1, <2>2, <3>1
    <3> QED BY <2>1, <2>2, <3>2 DEF Ahead
  <2>5. CASE ~(view[m.topic] = None \/ m.sequence > view[m.topic].sequence)
    <3>1. view' = view /\ view[m.topic] # None /\ m.sequence <= view[m.topic].sequence
      BY <2>1, <2>3, <2>5 DEF Applied
    <3>2. /\ broker'[m.topic] = m
          /\ \A t \in Topics \ {m.topic} : broker'[t] = broker[t]
      BY <2>1, <2>2
    <3> QED BY <3>1, <3>2 DEF Ahead
  <2> QED BY <2>4, <2>5
<1> QED BY <1>1, <1>2

\* A step in which no event is published and nothing is shown that was not about.
LEMMA StillOriginal ==
  ASSUME Originals, Held' \subseteq Held, todo' \subseteq todo \cup {latest[t] : t \in Topics},
         UNCHANGED bus, \A t \in Topics : view'[t] \in Around \/ view'[t] \notin Events
  PROVE  Originals'
<1>1. (Around \cap Events)' \subseteq Around \cap Events
  BY DEF Around, bus, Events
<1> QED BY <1>1 DEF Originals, bus, First

LEMMA TailHeld ==
  ASSUME TypeOK, queue # None, queue # <<>>, queue' = Tail(queue)
  PROVE  Held' \subseteq Held /\ Head(queue) \in Held
<1>1. /\ queue \in Seq(Events \cup {Stop}) /\ Len(queue) \in Nat /\ Len(queue) >= 1
      /\ Len(queue') = Len(queue) - 1 /\ Head(queue) = queue[1]
      /\ \A i \in 1..(Len(queue) - 1) : queue'[i] = queue[i + 1] /\ i + 1 \in 1..Len(queue)
  BY DEF TypeOK
<1>2. ASSUME NEW x \in Held' PROVE x \in Held
  <2>1. PICK i \in 1..(Len(queue) - 1) : x = queue'[i]
    BY <1>1, <1>2 DEF Held
  <2> QED BY <1>1, <2>1 DEF Held
<1> QED BY <1>1, <1>2 DEF Held

LEMMA PutHeld ==
  ASSUME TypeOK, Subscribed, ~stopping, NEW e \in Events \cup {Stop}, queue' = Put(e)
  PROVE  Held' \subseteq Held \cup {e}
<1>1. CASE queue = None
  BY <1>1 DEF Put, Held
<1>2. CASE queue # None
  <2>1. PICK k \in {0, 1} :
           /\ Len(queue) \in Nat /\ k <= Len(queue)
           /\ Len(queue') = Len(queue) - k + 1
           /\ \A i \in 1..(Len(queue) - k) : queue'[i] = queue[i + k]
           /\ queue'[Len(queue) - k + 1] = e
    BY <1>2, PutShape
  <2>2. ASSUME NEW x \in Held' PROVE x \in Held \cup {e}
    <3>1. CASE queue' = None
      BY <2>2, <3>1 DEF Held
    <3>2. CASE queue' # None
      <4>1. PICK i \in 1..(Len(queue) - k + 1) : x = queue'[i]
        BY <2>1, <2>2, <3>2 DEF Held
      <4>2. CASE i = Len(queue) - k + 1
        BY <2>1, <4>1, <4>2
      <4>3. CASE i # Len(queue) - k + 1
        <5>1. i \in 1..(Len(queue) - k) /\ i + k \in 1..Len(queue)
          BY <2>1, <4>3
        <5> QED BY <1>2, <2>1, <4>1, <5>1 DEF Held
      <4> QED BY <4>2, <4>3
    <3> QED BY <3>1, <3>2
  <2> QED BY <2>2
<1> QED BY <1>1, <1>2

\* A step that publishes the next event of a topic.
LEMMA BusOriginal ==
  ASSUME TypeOK, Originals, NEW t \in Topics, Held' \subseteq Held \cup {Numbered(t)},
         UNCHANGED <<todo, view>>, \A u \in Topics \ {t} : latest'[u] = latest[u],
         \A u \in Topics \ {t} : sequence'[u] = sequence[u] /\ removals'[u] = removals[u],
         latest'[t] \in {Numbered(t), None}, removals'[t] \in Nat,
         removals'[t] = 0 => /\ sequence'[t] = sequence[t] + 1 /\ removals[t] = 0
                             /\ latest'[t] = Numbered(t)
  PROVE  Originals'
<1>1. /\ Numbered(t) \in Events /\ Numbered(t).topic = t
      /\ removals[t] = 0 => Numbered(t) = First(t, sequence[t] + 1)
      /\ Numbered(t).sequence = sequence[t] + 1
  BY NumberedType DEF Numbered, First
<1>2. Around' \subseteq Around \cup {Numbered(t), None}
  BY DEF Around
<1>3. \A e \in Events : e # None /\ e.sequence \in Nat
  BY MessageAssumption DEF Events
<1>4. ASSUME NEW u \in Topics, u # t, removals'[u] = 0
      PROVE  /\ \A e \in Around' \cap Events :
                  e.topic = u => e = First(u, e.sequence) /\ e.sequence <= sequence'[u]
             /\ latest'[u] # None => latest'[u].sequence = sequence'[u]
  BY <1>1, <1>2, <1>3, <1>4 DEF Originals
<1>5. ASSUME removals'[t] = 0
      PROVE  /\ \A e \in Around' \cap Events :
                  e.topic = t => e = First(t, e.sequence) /\ e.sequence <= sequence'[t]
             /\ latest'[t] # None => latest'[t].sequence = sequence'[t]
  <2>1. sequence'[t] = sequence[t] + 1 /\ removals[t] = 0 /\ latest'[t] = Numbered(t)
        /\ sequence[t] \in Nat
    BY <1>5 DEF TypeOK
  <2>2. ASSUME NEW e \in Around' \cap Events, e.topic = t
        PROVE  e = First(t, e.sequence) /\ e.sequence <= sequence'[t]
    <3>1. CASE e = Numbered(t)
      BY <1>1, <2>1, <3>1
    <3>2. CASE e # Numbered(t)
      <4>1. e \in Around \cap Events /\ e.sequence \in Nat
        BY <1>2, <1>3, <2>2, <3>2
      <4>2. e = First(t, e.sequence) /\ e.sequence <= sequence[t]
        BY <2>1, <2>2, <4>1 DEF Originals
      <4> QED BY <2>1, <4>1, <4>2
    <3> QED BY <3>1, <3>2
  <2> QED BY <1>1, <2>1, <2>2
<1> QED BY <1>4, <1>5 DEF Originals, First, Events

\* A step of the publisher that sends what is about, or a word.
LEMMA SendConsumer ==
  ASSUME TypeOK, Ahead, Originals, Held' \subseteq Held,
         todo' \subseteq todo \cup {latest[t] : t \in Topics}, UNCHANGED bus,
         NEW m \in (Events \cap Around) \cup {Online, Offline}, NEW l, Send(m, l)
  PROVE  Ahead' /\ Originals'
<1>1. Ahead' /\ \A t \in Topics : view'[t] \in {view[t], m}
  BY SendAhead
<1>2. \A t \in Topics : view'[t] \in Around \/ view'[t] \notin Events
  <2>1. \A t \in Topics : view[t] \in Around
    BY DEF Around
  <2>2. m \in Around \/ m \notin Events
    BY MessageAssumption
  <2> QED BY <1>1, <2>1, <2>2
<1> QED BY <1>1, <1>2, StillOriginal

LEMMA ReplayConsumer ==
  ASSUME TypeOK, Ahead, Originals, Held' \subseteq Held, UNCHANGED bus,
         NEW E \in {todo, Retained}, Replay(E)
  PROVE  Ahead' /\ Originals'
<1>1. E \subseteq Events \cap Around /\ E \subseteq todo \cup {latest[t] : t \in Topics}
  BY RetainedType DEF TypeOK, Around, Retained
<1>2. PICK e \in E : Send(e, link) /\ todo' = E \ {e}
  BY DEF Replay
<1>3. e \in Events \cap Around /\ todo' \subseteq todo \cup {latest[t] : t \in Topics}
  BY <1>1, <1>2
<1> QED BY <1>2, <1>3, SendConsumer

LEMMA LeaveConsumer ==
  ASSUME TypeOK, Ahead, Originals, UNCHANGED bus, NEW outcome, Leave(outcome)
  PROVE  Ahead' /\ Originals'
<1>1. Held' \subseteq Held /\ todo' \subseteq todo \cup {latest[t] : t \in Topics}
      /\ Send(Offline, link)
  BY DEF Leave, Held
<1> QED BY <1>1, SendConsumer

LEMMA StepConsumer ==
  ASSUME TypeOK, Subscribed, Ahead, Originals, [Next]_vars PROVE Ahead' /\ Originals'
<1> USE DEF run, received
<1>0. ASSUME UNCHANGED <<bus, broker, view>>, Held' \subseteq Held, todo' \subseteq todo
      PROVE  Ahead' /\ Originals'
  <2>1. Ahead'
    BY <1>0 DEF Ahead
  <2>2. \A t \in Topics : view'[t] \in Around
    BY <1>0 DEF Around
  <2> QED BY <1>0, <2>1, <2>2, StillOriginal
<1>1. ASSUME UNCHANGED <<bus, broker, view, todo>>, queue' \in {queue, None, <<>>}
      PROVE  Ahead' /\ Originals'
  <2>1. Held' \subseteq Held
    BY <1>1 DEF Held
  <2> QED BY <1>0, <1>1, <2>1
<1>2. ASSUME NEW t \in Topics, Publish(t) PROVE Ahead' /\ Originals'
  <2>1. /\ latest'[t] = Numbered(t) /\ sequence'[t] = sequence[t] + 1 /\ removals'[t] \in Nat
        /\ removals'[t] = removals[t]
        /\ \A u \in Topics \ {t} : latest'[u] = latest[u] /\ sequence'[u] = sequence[u]
                                   /\ removals'[u] = removals[u]
    BY <1>2 DEF Publish, TypeOK
  <2>2. Held' \subseteq Held \cup {Numbered(t)}
    BY <1>2, NumberedType, PutHeld DEF Publish
  <2>3. Ahead'
    BY <1>2 DEF Publish, Ahead
  <2> QED BY <1>2, <2>1, <2>2, <2>3, BusOriginal DEF Publish
<1>3. ASSUME NEW t \in Topics, NEW last \in BOOLEAN, Remove(t, last) PROVE Ahead' /\ Originals'
  <2>1. /\ latest'[t] = None /\ removals'[t] \in Nat /\ removals'[t] # 0
        /\ \A u \in Topics \ {t} : latest'[u] = latest[u] /\ sequence'[u] = sequence[u]
                                   /\ removals'[u] = removals[u]
    BY <1>3 DEF Remove, TypeOK
  <2>2. Held' \subseteq Held \cup {Numbered(t)}
    <3>1. CASE last
      BY <1>3, <3>1, NumberedType, PutHeld DEF Remove
    <3>2. CASE ~last
      BY <1>3, <3>2 DEF Remove, Held
    <3> QED BY <3>1, <3>2
  <2>3. Ahead'
    BY <1>3 DEF Remove, Ahead
  <2> QED BY <1>3, <2>1, <2>2, <2>3, BusOriginal DEF Remove
<1>4. CASE Connect
  <2>1. queue' = <<>> /\ Send(Online, "up") /\ todo' = todo /\ UNCHANGED bus
    BY <1>4 DEF Connect
  <2>2. Held' \subseteq Held
    BY <2>1 DEF Held
  <2> QED BY <2>1, <2>2, SendConsumer
<1>5. CASE ConnectFails
  BY <1>5, <1>1 DEF ConnectFails
<1>6. CASE Announced
  <2>1. CASE Retained = {}
    BY <2>1, <1>6, <1>1 DEF Announced
  <2>2. CASE Retained # {}
    BY <2>2, <1>6, ReplayConsumer DEF Announced, Held
  <2> QED BY <2>1, <2>2
<1>7. CASE Published
  <2>1. CASE todo = {}
    BY <2>1, <1>7, <1>1 DEF Published
  <2>2. CASE todo # {}
    BY <2>2, <1>7, ReplayConsumer DEF Published, Held
  <2> QED BY <2>1, <2>2
<1>8. CASE Take
  <2>1. /\ queue # None /\ queue # <<>> /\ queue \in Seq(Events \cup {Stop})
        /\ Head(queue) # Stop /\ queue' = Tail(queue) /\ todo' = todo /\ UNCHANGED bus
        /\ Send(Head(queue), link)
    BY <1>8 DEF Take, TypeOK, Subscribed, Attached
  <2>2. Held' \subseteq Held /\ Head(queue) \in Held
    BY <2>1, TailHeld
  <2>3. Head(queue) \in Events \cap Around
    BY <2>1, <2>2 DEF Around
  <2> QED BY <2>1, <2>2, <2>3, SendConsumer
<1>9. CASE Heartbeat
  <2>1. queue' = queue /\ Send(Online, link) /\ todo' = todo /\ UNCHANGED bus
    BY <1>9 DEF Heartbeat
  <2>2. Held' \subseteq Held
    BY <2>1 DEF Held
  <2> QED BY <2>1, <2>2, SendConsumer
<1>10. CASE TakeStop
  <2>1. CASE Retained = {}
    BY <2>1, <1>10, LeaveConsumer DEF TakeStop
  <2>2. CASE Retained # {}
    <3>1. queue # None /\ queue # <<>> /\ queue' = Tail(queue) /\ UNCHANGED bus
          /\ Replay(Retained)
      BY <2>2, <1>10 DEF TakeStop, Subscribed, Attached
    <3>2. Held' \subseteq Held
      BY <3>1, TailHeld
    <3> QED BY <3>1, <3>2, ReplayConsumer
  <2> QED BY <2>1, <2>2
<1>11. CASE Flushed
  <2>1. CASE todo = {}
    BY <2>1, <1>11, LeaveConsumer DEF Flushed
  <2>2. CASE todo # {}
    BY <2>2, <1>11, ReplayConsumer DEF Flushed, Held
  <2> QED BY <2>1, <2>2
<1>12. CASE PublishFails
  BY <1>12, LeaveConsumer DEF PublishFails
<1>13. CASE Closed
  BY <1>13, <1>1 DEF Closed
<1>14. CASE Retry
  BY <1>14, <1>1 DEF Retry
<1>c. ASSUME Cancelled, UNCHANGED bus PROVE Ahead' /\ Originals'
  <2>1. CASE phase \in {"connecting", "backoff", "closing"}
    BY <2>1, <1>c, <1>1 DEF Cancelled
  <2>2. CASE phase \notin {"connecting", "backoff", "closing"}
    BY <2>2, <1>c, LeaveConsumer DEF Cancelled
  <2> QED BY <2>1, <2>2
<1>15. CASE StopService
  <2>1. CASE phase \in {"connecting", "backoff"}
    BY <2>1, <1>15, <1>c DEF StopService
  <2>2. CASE phase \notin {"connecting", "backoff"}
    <3>1. Held' \subseteq Held \cup {Stop} /\ UNCHANGED <<bus, broker, view, todo>>
      BY <2>2, <1>15, PutHeld DEF StopService
    <3>2. Ahead'
      BY <3>1 DEF Ahead
    <3>3. (Around \cap Events)' \subseteq Around \cap Events
      <4>1. Around' \subseteq Around \cup {Stop}
        BY <3>1 DEF Around, bus
      <4> QED BY <4>1, MessageAssumption DEF Events
    <3> QED BY <3>1, <3>2, <3>3 DEF Originals, bus, First
  <2> QED BY <2>1, <2>2
<1>16. CASE StopTimeout
  BY <1>16, <1>c DEF StopTimeout
<1>17. CASE Crash
  <2>1. Held' \subseteq Held /\ todo' \subseteq todo /\ UNCHANGED <<bus, broker, view>>
    BY <1>17 DEF Crash, Held
  <2> QED BY <2>1, <1>0
<1>18. CASE LinkDies
  BY <1>18, <1>1 DEF LinkDies
<1>19. CASE WillPublished
  BY <1>19, <1>1 DEF WillPublished
<1>20. CASE UNCHANGED vars
  BY <1>20, <1>1 DEF vars
<1> QED BY <1>2, <1>3, <1>4, <1>5, <1>6, <1>7, <1>8, <1>9, <1>10, <1>11, <1>12, <1>13,
           <1>14, <1>15, <1>16, <1>17, <1>18, <1>19, <1>20 DEF Next, Progress

\* ... and a consumer that applies only newer sequences shows it, for a device that was never
\* removed (ConsumerCurrent: the numbers of TelemetryState._sequence, and the replay that runs
\* ahead of the queue).
THEOREM ConsumerHolds == Spec => []ConsumerCurrent
<1>1. ASSUME Init PROVE Ahead /\ Originals
  <2>1. \A t \in Topics : latest[t] = None /\ view[t] = None /\ broker[t] = None
    BY <1>1 DEF Init
  <2>2. Around \cap Events = {}
    BY <1>1, <2>1, MessageAssumption DEF Init, Around, Held
  <2> QED BY <2>1, <2>2 DEF Ahead, Originals
<1>2. TypeOK /\ Subscribed /\ Ahead /\ Originals /\ [Next]_vars => Ahead' /\ Originals'
  BY StepConsumer
<1>3. ASSUME TypeOK, BrokerCurrent, LastReplay, Ahead, Originals PROVE ConsumerCurrent
  <2> SUFFICES ASSUME Settled, NEW t \in Topics \ lost, latest[t] # None, removals[t] = 0
               PROVE  view[t] = latest[t]
    BY DEF ConsumerCurrent
  <2>1. broker[t] = latest[t] /\ latest[t].sequence = sequence[t]
    BY <1>3 DEF BrokerCurrent, Originals
  <2>2. view[t] # None /\ latest[t].sequence <= view[t].sequence /\ view[t].topic = t
    BY <1>3, <2>1 DEF Ahead
  <2>3. /\ latest[t] \in Events \cap Around /\ view[t] \in Events \cap Around
        /\ latest[t].sequence \in Nat /\ view[t].sequence \in Nat /\ sequence[t] \in Nat
    <3>1. latest[t] \in Events /\ view[t] \in Events /\ sequence[t] \in Nat
      BY <1>3, <2>2 DEF TypeOK
    <3> QED BY <3>1 DEF Around, Events
  <2>4. view[t] = First(t, view[t].sequence) /\ view[t].sequence <= sequence[t]
    BY <1>3, <2>2, <2>3 DEF Originals
  <2>5. view[t].sequence = latest[t].sequence
    BY <2>1, <2>2, <2>3, <2>4
  <2>6. latest[t].topic = t
    BY <1>3 DEF LastReplay, Known
  <2>7. latest[t] = First(t, latest[t].sequence)
    BY <1>3, <2>3, <2>6 DEF Originals
  <2> QED BY <2>4, <2>5, <2>7
<1> QED BY <1>1, <1>2, <1>3, CurrentHolds, LastReplayHolds, SubscribedHolds, PTL DEF Spec

=============================================================================
