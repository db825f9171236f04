------------------------------- MODULE Telemetry -------------------------------
(***************************************************************************)
(* TelemetryState (src/pitblu_core/telemetry.py): current snapshots, the   *)
(* thermometer heartbeat, the timers that let both age, and the retained   *)
(* view of the event bus (events.py) that is published with them; and what *)
(* the service (service.py) has accepted for each device, as far as it     *)
(* decides when telemetry is told: REST shows the heartbeat under the      *)
(* desired state, which is stored before telemetry is told of it.          *)
(*                                                                         *)
(* publish never suspends, so each method is one action.  Observations are *)
(* stamped and compared on the wall clock; timers sleep on the monotonic   *)
(* clock, which is real time here.                                         *)
(***************************************************************************)
EXTENDS Integers

CONSTANTS
  Devices,
  None,                \* no snapshot, heartbeat, timer or reading
  StaleAfter,          \* stale_after
  HeartbeatStaleAfter, \* heartbeat_stale_after
  MaxSettings,         \* bound: how often the wall clock is set, by one instant each time
  MaxTime              \* bound: the model's last instant

ASSUME ThresholdAssumption ==
  StaleAfter \in Nat \ {0} /\ HeartbeatStaleAfter \in Nat \ {0}
ASSUME BoundAssumption == MaxTime \in Nat /\ MaxSettings \in Nat

Statuses == {"unknown", "healthy", "stale", "disconnected"}  \* HeartbeatStatus
Desires == {"connected", "disconnected"}                      \* desired_state
ASSUME NoneAssumption ==
  /\ None \notin Int \cup BOOLEAN \cup Statuses \cup Desires \cup [at : Int, due : Nat]
  /\ None \notin [at : Int, seen : Nat, available : BOOLEAN, battery : BOOLEAN, stale : BOOLEAN]
  /\ None \notin [status : Statuses, at : Int, seen : Int]

VARIABLES
  now, wall,       \* real (monotonic) time and the wall clock
  settings,        \* how often the wall clock was set
  desired,         \* the desired state in each device's row, None without a row
  telling,         \* the devices whose _register_heartbeat has yet to run
  active,          \* _active: the request that is executed for a device, and how far it is
  recovery,        \* _recoveries: a device's recovery, asleep or trying to connect
  link,            \* _connected_device and _polling_tasks: is a device connected, is it polled?
  deleting,        \* the devices that a deletion waits to remove
  overtaken,       \* history: the devices removed while something else worked on them
  reading,         \* the snapshot the adapter is reading, if any, and for whom
  current,         \* _current
  timer,           \* _stale_tasks: the pending timer of a device
  heartbeat,       \* _heartbeats
  heartbeatTimer,  \* _heartbeat_stale_tasks
  latest           \* the event bus's _latest, per device: availability, battery, heartbeat

clock == <<now, wall, settings>>
tasks == <<telling, active, recovery, link, deleting, overtaken>>
ageing == <<current, timer>>
beating == <<heartbeat, heartbeatTimer>>
vars == <<clock, desired, tasks, reading, ageing, beating, latest>>

Never == -1  \* the communication time of a heartbeat without success
Unknown == [status |-> "unknown", at |-> Never, seen |-> Never]
Silent == [availability |-> None, battery |-> None, heartbeat |-> None]  \* no event

\* What the heartbeat event says: the status, nothing if there is no heartbeat.
\* Fault: a healthy one is called fresh.
BeatFault(beats, d) ==
  IF beats[d] = None THEN None
  ELSE IF beats[d].status = "healthy" THEN "fresh" ELSE beats[d].status
Beat(beats, d) == IF beats[d] = None THEN None ELSE beats[d].status

\* start: each stored device is registered again, and disconnected if it should be; the
\* first one that should be connected may have a recovery at once.
Init ==
  /\ now = 0 /\ wall = 0 /\ settings = 0
  /\ desired \in [Devices -> Desires \cup {None}]
  /\ recovery \in [Devices -> {"none", "asleep"}]
  /\ \A d \in Devices : recovery[d] = "asleep" => desired[d] = "connected"
  /\ \A d, e \in Devices : recovery[d] = "asleep" /\ recovery[e] = "asleep" => d = e
  /\ telling = {} /\ deleting = {} /\ overtaken = {} /\ reading = None
  /\ active = [d \in Devices |-> "none"]
  /\ link = [d \in Devices |-> "none"]
  /\ current = [d \in Devices |-> None]
  /\ timer = [d \in Devices |-> None]
  /\ heartbeat = [d \in Devices |->
       IF desired[d] = None THEN None
       ELSE IF desired[d] = "connected" THEN Unknown
       ELSE [Unknown EXCEPT !.status = "disconnected"]]
  /\ heartbeatTimer = [d \in Devices |-> None]
  /\ latest = [d \in Devices |-> [Silent EXCEPT !.heartbeat = Beat(heartbeat, d)]]

\* A timer that is started now, for something seen at wall-clock time `at`.
Timer(at, after) == [at |-> at, due |-> now + (IF at + after > wall THEN at + after - wall ELSE 0)]
Due(timers, d) == timers[d] # None /\ timers[d].due <= now

(***************************************************************************)
(* Heartbeat                                                               *)
(***************************************************************************)
\* The events after _publish_heartbeat of device d, whose heartbeat is now in `beats`.
Said(events, beats, d) == [events EXCEPT ![d].heartbeat = Beat(beats, d)]

\* communication_succeeded: only a success that is newer than the last one counts ...
Newer(d, at) == heartbeat[d] = None \/ at > heartbeat[d].at
\* ... at wall-clock time `at`, really at `seen`.
\* Fault: the timer of the previous success is left running.
CommunicatedFault(d, at, seen) ==
  IF ~Newer(d, at) THEN UNCHANGED beating
  ELSE /\ heartbeat' = [heartbeat EXCEPT ![d] = [status |-> "healthy", at |-> at, seen |-> seen]]
       /\ heartbeatTimer' = [heartbeatTimer EXCEPT
                               ![d] = IF @ = None THEN Timer(at, HeartbeatStaleAfter) ELSE @]
Communicated(d, at, seen) ==
  IF ~Newer(d, at) THEN UNCHANGED beating
  ELSE /\ heartbeat' = [heartbeat EXCEPT ![d] = [status |-> "healthy", at |-> at, seen |-> seen]]
       /\ heartbeatTimer' = [heartbeatTimer EXCEPT ![d] = Timer(at, HeartbeatStaleAfter)]

\* What a heartbeat that is disconnected becomes when an answer is expected.
Awaited(d) == IF heartbeat[d].at = Never THEN "unknown" ELSE "stale"

\* heartbeat_expected, when a connection is attempted.
\* Fault: the changed status is not published.
ExpectingFault(d) ==
  IF Beat(heartbeat, d) # "disconnected" THEN UNCHANGED <<heartbeat, latest>>
  ELSE heartbeat' = [heartbeat EXCEPT ![d].status = Awaited(d)] /\ UNCHANGED latest
Expecting(d) ==
  IF Beat(heartbeat, d) # "disconnected" THEN UNCHANGED <<heartbeat, latest>>
  ELSE /\ heartbeat' = [heartbeat EXCEPT ![d].status = Awaited(d)]
       /\ latest' = Said(latest, heartbeat', d)

\* heartbeat_disconnected, after the events `events`.
Disconnecting(d, events) ==
  IF heartbeat[d] = None THEN UNCHANGED beating /\ latest' = events
  ELSE /\ heartbeat' = [heartbeat EXCEPT ![d].status = "disconnected"]
       /\ heartbeatTimer' = [heartbeatTimer EXCEPT ![d] = None]
       /\ latest' = IF heartbeat[d].status = "disconnected" THEN events
                    ELSE Said(events, heartbeat', d)

\* _mark_heartbeat_stale_after_deadline wakes up: if there was no success since, it is stale.
HeartbeatExpires(d) ==
  /\ Due(heartbeatTimer, d)
  /\ heartbeatTimer' = [heartbeatTimer EXCEPT ![d] = None]
  /\ IF Beat(heartbeat, d) = "healthy" /\ heartbeat[d].at = heartbeatTimer[d].at
     THEN /\ heartbeat' = [heartbeat EXCEPT ![d].status = "stale"]
          /\ latest' = Said(latest, heartbeat', d)
     ELSE UNCHANGED <<heartbeat, latest>>
  /\ UNCHANGED <<clock, desired, tasks, reading, ageing>>

(***************************************************************************)
(* Snapshots                                                               *)
(***************************************************************************)
Fresh(d) == current[d] # None /\ ~current[d].stale

\* Fault: a snapshot that is exactly as old as the threshold is kept.
ExpiredFault == {d \in Devices : Fresh(d) /\ wall - current[d].at > StaleAfter}
\* The snapshots that mark_stale finds too old.
Expired == {d \in Devices : Fresh(d) /\ wall - current[d].at >= StaleAfter}

\* mark_stale, for the devices D: their snapshots are stale ...
Aged(D) ==
  [d \in Devices |-> IF d \in D THEN [current[d] EXCEPT !.stale = TRUE] ELSE current[d]]
\* ... and the availability and battery events say so.
\* Fault: the battery is not invalidated.
SilencedFault(D) ==
  [d \in Devices |-> IF d \in D THEN [latest[d] EXCEPT !.availability = FALSE] ELSE latest[d]]
Silenced(D) ==
  [d \in Devices |-> IF d \in D THEN [latest[d] EXCEPT !.availability = FALSE, !.battery = FALSE]
                               ELSE latest[d]]
Marked(D) == current' = Aged(D) /\ latest' = Silenced(D)

\* _mark_stale_after_deadline wakes up: if its snapshot is still the current one, every
\* snapshot that is too old by now is marked.
SnapshotExpires(d) ==
  /\ Due(timer, d)
  /\ timer' = [timer EXCEPT ![d] = None]
  /\ Marked(IF current[d] # None /\ current[d].at = timer[d].at THEN Expired ELSE {})
  /\ UNCHANGED <<clock, desired, tasks, reading, beating>>

(***************************************************************************)
(* Requests, recoveries and polling                                        *)
(***************************************************************************)
\* The desired state of device d is written, if d has a row.
Written(d, state) == [desired EXCEPT ![d] = IF @ = None THEN None ELSE state]
\* Those of `who` stop working on device d: if one of them is reading, it no longer is.
Stop(d, who) ==
  reading' = IF reading # None /\ reading.device = d /\ reading.by \in who THEN None ELSE reading
\* link when the poll of d ends: it is still the connected device.
Unpolled(d) == [link EXCEPT ![d] = IF @ = "polling" THEN "connected" ELSE @]

\* register: the row, the heartbeat, and a task that will publish it.
Register(d) ==
  /\ desired[d] = None
  /\ desired' = [desired EXCEPT ![d] = "disconnected"]
  /\ telling' = telling \cup {d}
  /\ heartbeat' = [heartbeat EXCEPT ![d] = IF @ = None THEN Unknown ELSE @]
  /\ UNCHANGED <<clock, active, recovery, link, deleting, overtaken, reading, ageing,
                 heartbeatTimer, latest>>

\* That task: the heartbeat is published if it never was, and is then disconnected.
RegisterHeartbeat(d) ==
  /\ d \in telling
  /\ telling' = telling \ {d}
  /\ LET beat == IF heartbeat[d] = None THEN Unknown ELSE heartbeat[d] IN
     /\ heartbeat' = [heartbeat EXCEPT ![d] = [beat EXCEPT !.status = "disconnected"]]
     /\ latest' = IF beat.status = "disconnected" /\ latest[d].heartbeat # None
                  THEN latest ELSE Said(latest, heartbeat', d)
  /\ heartbeatTimer' = [heartbeatTimer EXCEPT ![d] = None]
  /\ UNCHANGED <<clock, desired, active, recovery, link, deleting, overtaken, reading, ageing>>

\* start_connection_operation: the desired state is stored when the request is accepted.
Accept(d, request, state) ==
  /\ desired[d] # None /\ active[d] = "none"
  /\ desired' = Written(d, state)
  /\ active' = [active EXCEPT ![d] = request]
  /\ UNCHANGED <<clock, telling, recovery, link, deleting, overtaken, reading, ageing, beating,
                 latest>>
Connect(d) == Accept(d, "connect", "connected")
Disconnect(d) == Accept(d, "disconnect", "disconnected")

\* Its task runs after that of the registration; without a row it ends.
Started(d, request) == active[d] = request /\ d \notin telling
StartsWithoutRow(d) ==
  /\ Started(d, "connect") \/ Started(d, "disconnect")
  /\ desired[d] = None
  /\ active' = [active EXCEPT ![d] = "none"]
  /\ UNCHANGED <<clock, desired, telling, recovery, link, deleting, overtaken, reading, ageing,
                 beating, latest>>

\* connect finds the device connected: it has only stopped the recovery.
FindsConnected(d) ==
  /\ Started(d, "connect") /\ desired[d] # None
  /\ link[d] # "none"
  /\ active' = [active EXCEPT ![d] = "none"]
  /\ recovery' = [recovery EXCEPT ![d] = "none"]
  /\ Stop(d, {"recovery"})
  /\ UNCHANGED <<clock, desired, telling, link, deleting, overtaken, ageing, beating, latest>>

\* connect and reconnect stop the recovery and expect an answer; reconnect stops the poll.
ConnectStarts(d, reconnects) ==
  /\ Started(d, "connect") /\ desired[d] # None
  /\ active' = [active EXCEPT ![d] = "expected"]
  /\ recovery' = [recovery EXCEPT ![d] = "none"]
  /\ link' = IF reconnects THEN Unpolled(d) ELSE link
  /\ Stop(d, IF reconnects THEN {"recovery", "poll"} ELSE {"recovery"})
  /\ Expecting(d)
  /\ UNCHANGED <<clock, desired, telling, deleting, overtaken, ageing, heartbeatTimer>>

\* A recovery wakes up and reconnects; it looked at the row before it slept.
RecoveryWakes(d) ==
  /\ recovery[d] = "asleep"
  /\ IF desired[d] = None
     THEN /\ recovery' = [recovery EXCEPT ![d] = "none"]
          /\ UNCHANGED <<link, reading, heartbeat, latest>>
     ELSE /\ recovery' = [recovery EXCEPT ![d] = "trying"]
          /\ link' = Unpolled(d)
          /\ Stop(d, {"poll"})
          /\ Expecting(d)
  /\ UNCHANGED <<clock, desired, telling, active, deleting, overtaken, ageing, heartbeatTimer>>

\* Who tries to connect to device d ...
Attempts(d, by) ==
  \/ by = "connect" /\ active[d] = "expected"
  \/ by = "recovery" /\ recovery[d] = "trying"
\* ... and who reads it.
Readers == {"connect", "recovery", "poll"}
Reads(d, by) == Attempts(d, by) \/ (by = "poll" /\ link[d] = "polling")

\* The adapter connected: its initialisation was an answer of the thermometer.
Initialised(d) ==
  /\ reading = None
  /\ \E by \in {"connect", "recovery"} : Attempts(d, by)
  /\ Communicated(d, wall, now)
  /\ latest' = IF Newer(d, wall) THEN Said(latest, heartbeat', d) ELSE latest
  /\ UNCHANGED <<clock, desired, tasks, reading, ageing>>

\* read_snapshot notes the time before it reads; the adapter lock admits one reader.
BeginRead(d, by) ==
  /\ reading = None /\ Reads(d, by)
  /\ reading' = [device |-> d, at |-> wall, seen |-> now, by |-> by]
  /\ UNCHANGED <<clock, desired, tasks, ageing, beating, latest>>

\* read_snapshot raises in a poll that goes on: nothing is recorded.
ReadFails ==
  /\ reading # None /\ reading.by = "poll"
  /\ reading' = None
  /\ UNCHANGED <<clock, desired, tasks, ageing, beating, latest>>

\* An attempt fails or a poll gives up: a recovery is scheduled, or goes on, if the device
\* should be connected, unless automatic reconnection is switched off.
GivesUp(d, by) ==
  /\ Reads(d, by)
  /\ Stop(d, {by})
  /\ active' = IF by = "connect" THEN [active EXCEPT ![d] = "none"] ELSE active
  /\ link' = IF by = "poll" THEN Unpolled(d) ELSE link
  /\ \E next \in IF desired[d] = "connected" THEN {"none", "asleep"} ELSE {"none"} :
       recovery' = [recovery EXCEPT ![d] = IF by # "recovery" /\ @ # "none" THEN @ ELSE next]
  /\ UNCHANGED <<clock, desired, telling, deleting, overtaken, ageing, beating, latest>>

\* After a first read the device is connected, polled, and its desired state is written again.
Completed(d, by) ==
  IF by = "poll" THEN UNCHANGED <<desired, active, recovery, link>>
  ELSE /\ desired' = Written(d, "connected")
       /\ active' = IF by = "connect" THEN [active EXCEPT ![d] = "none"] ELSE active
       /\ recovery' = IF by = "recovery" THEN [recovery EXCEPT ![d] = "none"] ELSE recovery
       /\ link' = [link EXCEPT ![d] = "polling"]

\* record: a snapshot with a usable probe (`available`) and a battery value; the battery
\* may be the cached one of the current snapshot.  Its last success may be its first read
\* or its last one.  A snapshot that is not newer only lets the others age.
Record(available, battery, cached, success) ==
  LET d == reading.device
      old == current[d]
      at == IF success = "first" THEN reading.at ELSE wall
      seen == IF success = "first" THEN reading.seen ELSE now
      said == IF success # "none" /\ Newer(d, at) THEN Said(latest, heartbeat', d) ELSE latest IN
  /\ reading # None /\ reading' = None
  /\ Completed(d, reading.by)
  /\ cached => old # None /\ old.battery /\ battery
  /\ available => success # "none"
  /\ IF old # None /\ reading.at <= old.at
     THEN Marked(Expired) /\ UNCHANGED <<timer, beating>>
     ELSE /\ IF success = "none" THEN UNCHANGED beating ELSE Communicated(d, at, seen)
          /\ current' = [current EXCEPT ![d] = [at |-> reading.at, seen |-> reading.seen,
                           available |-> available, battery |-> battery, stale |-> FALSE]]
          /\ timer' = [timer EXCEPT ![d] = Timer(reading.at, StaleAfter)]
          /\ latest' = [said EXCEPT ![d].availability = available,
               ![d].battery = IF old = None \/ old.stale \/ ~cached THEN battery ELSE @]
  /\ UNCHANGED <<clock, telling, deleting, overtaken>>

(***************************************************************************)
(* Disconnecting and deleting                                              *)
(***************************************************************************)
\* connection with state disconnected ends the device's snapshot with the expired ones.
Ended(d) == IF current[d] = None THEN {} ELSE Expired \cup {d}

\* A disconnect stops the recovery and the poll of its device and takes the link down ...
DisconnectStarts(d) ==
  /\ Started(d, "disconnect") /\ desired[d] # None
  /\ active' = [active EXCEPT ![d] = "disconnecting"]
  /\ recovery' = [recovery EXCEPT ![d] = "none"]
  /\ link' = Unpolled(d)
  /\ Stop(d, {"recovery", "poll"})
  /\ UNCHANGED <<clock, desired, telling, deleting, overtaken, ageing, beating, latest>>

\* ... and then tells telemetry (connection, heartbeat_disconnected) and the store.
Disconnected(d) ==
  /\ active[d] = "disconnecting"
  /\ active' = [active EXCEPT ![d] = "none"]
  /\ link' = [link EXCEPT ![d] = "none"]
  /\ current' = Aged(Ended(d))
  /\ Disconnecting(d, Silenced(Ended(d)))
  /\ desired' = Written(d, "disconnected")
  /\ UNCHANGED <<clock, telling, recovery, deleting, overtaken, reading, timer>>

\* delete_device: refused while a request is executed; it stops the recovery and may wait,
\* also for the poll and the adapter lock, while new requests are accepted ...
Delete(d) ==
  /\ desired[d] # None /\ active[d] = "none"
  /\ deleting' = deleting \cup {d}
  /\ recovery' = [recovery EXCEPT ![d] = "none"]
  /\ Stop(d, {"recovery"})
  /\ UNCHANGED <<clock, desired, telling, active, link, overtaken, ageing, beating, latest>>

\* ... and then remove, forget_device of the bus, and the row.  An attempt is not stopped.
Remove(d) ==
  /\ d \in deleting
  /\ deleting' = deleting \ {d}
  /\ desired' = [desired EXCEPT ![d] = None]
  /\ link' = [link EXCEPT ![d] = "none"]
  /\ Stop(d, {"poll"})
  /\ overtaken' = IF d \in telling \/ active[d] # "none" \/ recovery[d] # "none"
                  THEN overtaken \cup {d} ELSE overtaken
  /\ current' = [Aged(Ended(d)) EXCEPT ![d] = None]
  /\ timer' = [timer EXCEPT ![d] = None]
  /\ heartbeat' = [heartbeat EXCEPT ![d] = None]
  /\ heartbeatTimer' = [heartbeatTimer EXCEPT ![d] = None]
  /\ latest' = [Silenced(Ended(d)) EXCEPT ![d] = Silent]
  /\ UNCHANGED <<clock, telling, active, recovery>>

(***************************************************************************)
(* Time                                                                    *)
(***************************************************************************)
\* The event loop is prompt: no instant passes while a timer is due or a new task has to run.
Tick ==
  /\ now < MaxTime /\ telling = {}
  /\ \A d \in Devices : ~Due(timer, d) /\ ~Due(heartbeatTimer, d)
  /\ now' = now + 1
  /\ wall' = wall + 1
  /\ UNCHANGED <<settings, desired, tasks, reading, ageing, beating, latest>>

\* The wall clock is set by one instant; a larger jump is several settings.
SetClock ==
  /\ settings < MaxSettings
  /\ settings' = settings + 1
  /\ wall' \in (0..MaxTime) \cap {wall - 1, wall + 1}
  /\ UNCHANGED <<now, desired, tasks, reading, ageing, beating, latest>>

Next ==
  \/ \E d \in Devices :
       \/ Register(d) \/ RegisterHeartbeat(d) \/ Connect(d) \/ Disconnect(d)
       \/ StartsWithoutRow(d) \/ FindsConnected(d) \/ RecoveryWakes(d) \/ Initialised(d)
       \/ DisconnectStarts(d) \/ Disconnected(d) \/ Delete(d) \/ Remove(d)
       \/ HeartbeatExpires(d) \/ SnapshotExpires(d)
       \/ \E reconnects \in BOOLEAN : ConnectStarts(d, reconnects)
       \/ \E by \in Readers : BeginRead(d, by) \/ GivesUp(d, by)
  \/ \E available, battery, cached \in BOOLEAN, success \in {"none", "first", "last"} :
       Record(available, battery, cached, success)
  \/ ReadFails \/ Tick \/ SetClock

Spec == Init /\ [][Next]_vars

(***************************************************************************)
(* Properties                                                              *)
(***************************************************************************)
Timers == [at : Int, due : Nat] \cup {None}
Snapshots ==
  [at : Int, seen : Nat, available : BOOLEAN, battery : BOOLEAN, stale : BOOLEAN] \cup {None}
Beats == [status : Statuses, at : Int, seen : Nat \cup {Never}] \cup {None}
Events == [availability : BOOLEAN \cup {None}, battery : BOOLEAN \cup {None},
           heartbeat : Statuses \cup {None}]

\* Every variable keeps its type.
TypeOK ==
  /\ now \in Nat /\ wall \in Int /\ settings \in Nat
  /\ desired \in [Devices -> Desires \cup {None}]
  /\ active \in [Devices -> {"none", "connect", "expected", "disconnect", "disconnecting"}]
  /\ recovery \in [Devices -> {"none", "asleep", "trying"}]
  /\ link \in [Devices -> {"none", "connected", "polling"}]
  /\ telling \subseteq Devices /\ deleting \subseteq Devices /\ overtaken \subseteq Devices
  /\ reading \in [device : Devices, at : Int, seen : Nat, by : Readers] \cup {None}
  /\ current \in [Devices -> Snapshots] /\ timer \in [Devices -> Timers]
  /\ heartbeat \in [Devices -> Beats] /\ heartbeatTimer \in [Devices -> Timers]
  /\ latest \in [Devices -> Events]

\* No reading is reported as fresh once it is older than the threshold: a reading that was
\* recorded late is marked in the same instant (docs/api.md:85).
FreshAlways ==
  \A d \in Devices : Fresh(d) => now <= current[d].seen + StaleAfter \/ Due(timer, d)
\* So it is while nobody has set the wall clock.
FreshBounded == settings = 0 => FreshAlways

\* While nobody has set the wall clock, the heartbeat is healthy only if the thermometer has
\* answered within the threshold (docs/thermometer-heartbeat.md:37).
HeartbeatBounded ==
  settings = 0 =>
    \A d \in Devices : Beat(heartbeat, d) = "healthy" =>
      now <= heartbeat[d].seen + HeartbeatStaleAfter \/ Due(heartbeatTimer, d)

\* The heartbeat that REST reports of device d (telemetry.py:344): the desired state counts
\* before what telemetry was told.
Rest(d) ==
  IF desired[d] = "disconnected" THEN "disconnected"
  ELSE IF Beat(heartbeat, d) = "disconnected" THEN Awaited(d)
  ELSE Beat(heartbeat, d)

\* Telemetry has been told everything the service has accepted for device d: no registration
\* or request waits to start, and no disconnect to end.
Settled(d) == d \notin telling /\ active[d] \in {"none", "expected"}

\* What the broker is told to retain is what REST reports, whatever the order of requests,
\* recoveries, polls, late readings and timers: of a registered device that is settled the
\* heartbeat, of a removed one nothing (both unless requests overtook its removal), and of
\* every snapshot the availability and the battery (docs/mqtt.md:71-86).
RetainedAgrees ==
  \A d \in Devices :
    /\ d \notin overtaken =>
         IF desired[d] = None THEN latest[d] = Silent
         ELSE Settled(d) => latest[d].heartbeat = Rest(d)
    /\ IF current[d] = None
       THEN latest[d].availability = None /\ latest[d].battery = None
       ELSE /\ latest[d].availability = (Fresh(d) /\ current[d].available)
            /\ latest[d].battery = (Fresh(d) /\ current[d].battery)

=============================================================================
