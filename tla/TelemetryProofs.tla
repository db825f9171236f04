--------------------------- MODULE TelemetryProofs ---------------------------
(* While nobody has set the wall clock, nothing is called fresh or healthy beyond *)
(* its threshold; and whatever is done, what is retained is what REST reports:    *)
(* for every set of devices, thresholds and length of time.                       *)
EXTENDS Telemetry, TLAPS

\* Timed with a clock that shows real time: a fresh snapshot has the timer of that snapshot,
\* which is not overdue and ends at the threshold, or now if that is past.
Timed(timers, d, at, after) ==
  /\ timers[d] # None /\ timers[d].at = at
  /\ now <= timers[d].due
  /\ at + after <= timers[d].due
  /\ timers[d].due = now \/ timers[d].due = at + after

Held(d) ==
  Fresh(d) => /\ current[d].at = current[d].seen
              /\ Timed(timer, d, current[d].at, StaleAfter)
Lively(d) ==
  Beat(heartbeat, d) = "healthy" =>
    /\ heartbeat[d].at = heartbeat[d].seen
    /\ Timed(heartbeatTimer, d, heartbeat[d].at, HeartbeatStaleAfter)
Ageing ==
  /\ wall = now
  /\ reading # None => reading.at = reading.seen
  /\ \A d \in Devices : Held(d) /\ Lively(d)

(***************************************************************************)
(* Every variable keeps its type.                                          *)
(***************************************************************************)
LEMMA TimerType ==
  ASSUME TypeOK, NEW at \in Int, NEW after \in Nat
  PROVE  /\ Timer(at, after) \in [at : Int, due : Nat]
         /\ Timer(at, after).at = at
         /\ Timer(at, after).due = now + (IF at + after > wall THEN at + after - wall ELSE 0)
BY DEF TypeOK, Timer

LEMMA BeatType ==
  ASSUME NEW beats \in [Devices -> Beats], NEW d \in Devices
  PROVE  Beat(beats, d) \in Statuses \cup {None}
BY DEF Beat, Beats, Statuses

LEMMA AgedType ==
  ASSUME TypeOK, NEW D, \A d \in D : d \in Devices => current[d] # None
  PROVE  Aged(D) \in [Devices -> Snapshots]
<1>1. SUFFICES ASSUME NEW d \in Devices
      PROVE (IF d \in D THEN [current[d] EXCEPT !.stale = TRUE] ELSE current[d]) \in Snapshots
  BY DEF Aged
<1>2. current[d] \in Snapshots
  BY DEF TypeOK
<1>3. CASE d \in D
  <2>1. current[d] \in [at : Int, seen : Nat, available : BOOLEAN, battery : BOOLEAN,
                        stale : BOOLEAN]
    BY <1>2, <1>3 DEF Snapshots
  <2> QED BY <2>1, <1>3 DEF Snapshots
<1> QED BY <1>2, <1>3

LEMMA SilencedType ==
  ASSUME TypeOK, NEW D
  PROVE  Silenced(D) \in [Devices -> Events]
<1>1. \A d \in Devices : latest[d] \in Events
  BY DEF TypeOK
<1> QED BY <1>1 DEF Silenced, Events

LEMMA SaidType ==
  ASSUME NEW events \in [Devices -> Events], NEW d \in Devices,
         NEW beats \in [Devices -> Beats]
  PROVE  Said(events, beats, d) \in [Devices -> Events]
<1>1. events[d] \in Events
  OBVIOUS
<1>2. [events[d] EXCEPT !.heartbeat = Beat(beats, d)] \in Events
  BY <1>1, BeatType DEF Events
<1> QED BY <1>2 DEF Said

LEMMA CommunicatedType ==
  ASSUME TypeOK, NEW d \in Devices, NEW at \in Int, NEW seen \in Nat, Communicated(d, at, seen)
  PROVE  heartbeat' \in [Devices -> Beats] /\ heartbeatTimer' \in [Devices -> Timers]
<1>1. Timer(at, HeartbeatStaleAfter) \in Timers
  BY TimerType, ThresholdAssumption DEF Timers
<1>2. [status |-> "healthy", at |-> at, seen |-> seen] \in Beats
  BY DEF Beats, Statuses
<1>3. heartbeat \in [Devices -> Beats] /\ heartbeatTimer \in [Devices -> Timers]
  BY DEF TypeOK
<1>4. \/ UNCHANGED beating
      \/ /\ heartbeat' = [heartbeat EXCEPT
                            ![d] = [status |-> "healthy", at |-> at, seen |-> seen]]
         /\ heartbeatTimer' = [heartbeatTimer EXCEPT ![d] = Timer(at, HeartbeatStaleAfter)]
  BY DEF Communicated
<1>5. CASE UNCHANGED beating
  BY <1>3, <1>5 DEF beating
<1> QED BY <1>1, <1>2, <1>3, <1>4, <1>5

LEMMA NoneDistinct ==
  /\ None # "healthy" /\ None # "disconnected" /\ None # "connected"
  /\ \A timing \in [at : Int, due : Nat] : None # timing
BY NoneAssumption DEF Statuses, Desires

\* Only a heartbeat has a status, and it keeps its type if the status changes.
LEMMA StatusType ==
  ASSUME TypeOK, NEW d \in Devices, heartbeat[d] # None, NEW status \in Statuses
  PROVE  /\ heartbeat[d] \in [status : Statuses, at : Int, seen : Nat \cup {Never}]
         /\ [heartbeat EXCEPT ![d].status = status] \in [Devices -> Beats]
         /\ [heartbeat EXCEPT ![d].status = status][d].status = status
<1>1. heartbeat \in [Devices -> Beats]
  BY DEF TypeOK
<1>2. heartbeat[d] \in [status : Statuses, at : Int, seen : Nat \cup {Never}]
  BY <1>1 DEF Beats
<1>3. [heartbeat[d] EXCEPT !.status = status]
        \in [status : Statuses, at : Int, seen : Nat \cup {Never}]
      /\ [heartbeat[d] EXCEPT !.status = status].status = status
  BY <1>2
<1>4. [heartbeat EXCEPT ![d].status = status][d] = [heartbeat[d] EXCEPT !.status = status]
  BY <1>1
<1>5. [heartbeat EXCEPT ![d].status = status] \in [Devices -> Beats]
  BY <1>1, <1>3 DEF Beats
<1> QED BY <1>2, <1>3, <1>4, <1>5

LEMMA HeartbeatThere ==
  ASSUME NEW d \in Devices, Beat(heartbeat, d) \in {"disconnected", "healthy"}
  PROVE  heartbeat[d] # None /\ heartbeat[d].status = Beat(heartbeat, d)
BY NoneDistinct DEF Beat

LEMMA ExpectingType ==
  ASSUME TypeOK, NEW d \in Devices, Expecting(d)
  PROVE  heartbeat' \in [Devices -> Beats] /\ latest' \in [Devices -> Events]
<1>1. heartbeat \in [Devices -> Beats] /\ latest \in [Devices -> Events]
  BY DEF TypeOK
<1>2. CASE Beat(heartbeat, d) # "disconnected"
  BY <1>1, <1>2 DEF Expecting
<1>3. CASE Beat(heartbeat, d) = "disconnected"
  <2>1. heartbeat[d] # None /\ Awaited(d) \in Statuses
    BY <1>3, HeartbeatThere DEF Awaited, Statuses
  <2>2. heartbeat' \in [Devices -> Beats]
    <3>1. heartbeat' = [heartbeat EXCEPT ![d].status = Awaited(d)]
      BY <1>3 DEF Expecting
    <3>2. \A status \in Statuses : [heartbeat EXCEPT ![d].status = status] \in [Devices -> Beats]
      BY <2>1, StatusType
    <3> QED BY <2>1, <3>1, <3>2
  <2>3. latest' = Said(latest, heartbeat', d)
    BY <1>3 DEF Expecting
  <2> QED BY <1>1, <2>2, <2>3, SaidType
<1> QED BY <1>2, <1>3

LEMMA DisconnectingType ==
  ASSUME TypeOK, NEW d \in Devices, NEW events \in [Devices -> Events], Disconnecting(d, events)
  PROVE  /\ heartbeat' \in [Devices -> Beats] /\ heartbeatTimer' \in [Devices -> Timers]
         /\ latest' \in [Devices -> Events]
<1>1. heartbeat \in [Devices -> Beats] /\ heartbeatTimer \in [Devices -> Timers]
  BY DEF TypeOK
<1>2. CASE heartbeat[d] = None
  BY <1>1, <1>2 DEF Disconnecting, beating
<1>3. CASE heartbeat[d] # None
  <2>1. heartbeat' \in [Devices -> Beats]
    <3>1. heartbeat' = [heartbeat EXCEPT ![d].status = "disconnected"]
      BY <1>3 DEF Disconnecting
    <3>2. \A status \in Statuses : [heartbeat EXCEPT ![d].status = status] \in [Devices -> Beats]
      BY <1>3, StatusType
    <3> QED BY <3>1, <3>2 DEF Statuses
  <2>2. heartbeatTimer' \in [Devices -> Timers]
    BY <1>1, <1>3 DEF Disconnecting, Timers
  <2>3. Said(events, heartbeat', d) \in [Devices -> Events]
    BY <2>1, SaidType
  <2> QED BY <1>3, <2>1, <2>2, <2>3 DEF Disconnecting
<1> QED BY <1>2, <1>3

\* What the requests and tasks of a device change.
LEMMA StopType ==
  ASSUME TypeOK, NEW d, NEW who, Stop(d, who)
  PROVE  /\ reading' \in [device : Devices, at : Int, seen : Nat, by : Readers] \cup {None}
         /\ reading' # None => reading' = reading
BY DEF Stop, TypeOK

LEMMA UnpolledType ==
  ASSUME TypeOK, NEW d \in Devices
  PROVE  /\ Unpolled(d) \in [Devices -> {"none", "connected", "polling"}]
         /\ \A e \in Devices \ {d} : Unpolled(d)[e] = link[e]
         /\ Unpolled(d)[d] # "polling"
         /\ Unpolled(d)[d] # "none" => link[d] # "none"
BY DEF Unpolled, TypeOK

LEMMA WrittenType ==
  ASSUME TypeOK, NEW d \in Devices, NEW state \in Desires
  PROVE  /\ Written(d, state) \in [Devices -> Desires \cup {None}]
         /\ \A e \in Devices \ {d} : Written(d, state)[e] = desired[e]
         /\ Written(d, state)[d] = (IF desired[d] = None THEN None ELSE state)
BY DEF Written, TypeOK

LEMMA InitAgeing == Init => TypeOK /\ Ageing
<1> SUFFICES ASSUME Init PROVE TypeOK /\ Ageing
  OBVIOUS
<1>1. Unknown \in Beats /\ [Unknown EXCEPT !.status = "disconnected"] \in Beats /\ None \in Beats
  BY DEF Unknown, Never, Beats, Statuses
<1>2. heartbeat \in [Devices -> Beats]
  BY <1>1 DEF Init
<1>3. Silent \in Events
  BY DEF Silent, Events
<1>4. latest \in [Devices -> Events]
  <2>1. ASSUME NEW d \in Devices PROVE [Silent EXCEPT !.heartbeat = Beat(heartbeat, d)] \in Events
    <3>1. Beat(heartbeat, d) \in Statuses \cup {None}
      BY <1>2, BeatType
    <3> QED BY <1>3, <3>1 DEF Events
  <2> QED BY <2>1 DEF Init
<1>5. TypeOK
  <2>1. current \in [Devices -> Snapshots]
    BY DEF Init, Snapshots
  <2>2. timer \in [Devices -> Timers] /\ heartbeatTimer \in [Devices -> Timers]
    BY DEF Init, Timers
  <2>3. /\ desired \in [Devices -> Desires \cup {None}]
        /\ active
             \in [Devices -> {"none", "connect", "expected", "disconnect", "disconnecting"}]
        /\ recovery \in [Devices -> {"none", "asleep", "trying"}]
        /\ link \in [Devices -> {"none", "connected", "polling"}]
    BY DEF Init
  <2>4. now = 0 /\ wall = 0 /\ settings = 0
    BY DEF Init
  <2>5. telling = {} /\ deleting = {} /\ overtaken = {} /\ reading = None
    BY DEF Init
  <2> QED BY <1>2, <1>4, <2>1, <2>2, <2>3, <2>4, <2>5 DEF TypeOK
<1>6. ASSUME NEW d \in Devices PROVE Held(d) /\ Lively(d)
  <2>1. Held(d)
    BY DEF Init, Held, Fresh
  <2>2. Beat(heartbeat, d) # "healthy"
    BY NoneDistinct DEF Init, Beat, Unknown
  <2> QED BY <2>1, <2>2 DEF Lively
<1>7. Ageing
  BY <1>6 DEF Init, Ageing
<1> QED BY <1>5, <1>7

\* One step keeps the types.
LEMMA StepType == ASSUME TypeOK, [Next]_vars PROVE TypeOK'
<1> USE DEF clock, tasks, ageing, beating
<1>t. /\ now \in Nat /\ wall \in Int /\ settings \in Nat
      /\ desired \in [Devices -> Desires \cup {None}]
      /\ active \in [Devices -> {"none", "connect", "expected", "disconnect", "disconnecting"}]
      /\ recovery \in [Devices -> {"none", "asleep", "trying"}]
      /\ link \in [Devices -> {"none", "connected", "polling"}]
      /\ telling \subseteq Devices /\ deleting \subseteq Devices /\ overtaken \subseteq Devices
      /\ reading \in [device : Devices, at : Int, seen : Nat, by : Readers] \cup {None}
      /\ current \in [Devices -> Snapshots] /\ timer \in [Devices -> Timers]
      /\ heartbeat \in [Devices -> Beats] /\ heartbeatTimer \in [Devices -> Timers]
      /\ latest \in [Devices -> Events]
  BY DEF TypeOK
<1>n. None \in Snapshots /\ None \in Timers /\ None \in Beats
  BY DEF Snapshots, Timers, Beats
<1>1. CASE UNCHANGED vars
  BY <1>1, <1>t DEF vars, TypeOK
<1>2. ASSUME NEW d \in Devices, Register(d) PROVE TypeOK'
  <2>1. Unknown \in Beats
    BY DEF Unknown, Never, Beats, Statuses
  <2>2. heartbeat' \in [Devices -> Beats]
    BY <1>2, <1>t, <2>1 DEF Register
  <2>3. desired' \in [Devices -> Desires \cup {None}] /\ telling' \subseteq Devices
    BY <1>2, <1>t DEF Register, Desires
  <2> QED BY <1>2, <1>t, <2>2, <2>3 DEF Register, TypeOK
<1>3. ASSUME NEW d \in Devices, RegisterHeartbeat(d) PROVE TypeOK'
  <2> DEFINE beat == IF heartbeat[d] = None THEN Unknown ELSE heartbeat[d]
  <2>1. beat \in [status : Statuses, at : Int, seen : Nat \cup {Never}]
    BY <1>t DEF Unknown, Never, Beats, Statuses
  <2>2. [beat EXCEPT !.status = "disconnected"] \in Beats
    BY <2>1 DEF Beats, Statuses
  <2>3. heartbeat' \in [Devices -> Beats]
    <3> HIDE DEF beat
    <3>1. heartbeat' = [heartbeat EXCEPT ![d] = [beat EXCEPT !.status = "disconnected"]]
      BY <1>3 DEF RegisterHeartbeat, beat
    <3> QED BY <3>1, <2>2, <1>t
  <2>4. latest' \in [Devices -> Events]
    <3>1. latest' = latest \/ latest' = Said(latest, heartbeat', d)
      BY <1>3 DEF RegisterHeartbeat
    <3> QED BY <3>1, <2>3, <1>t, SaidType
  <2>5. heartbeatTimer' \in [Devices -> Timers] /\ telling' \subseteq Devices
    BY <1>3, <1>t, <1>n DEF RegisterHeartbeat
  <2> QED BY <1>3, <1>t, <2>3, <2>4, <2>5 DEF RegisterHeartbeat, TypeOK
<1>4. ASSUME NEW d \in Devices, Connect(d) \/ Disconnect(d) PROVE TypeOK'
  <2>1. PICK request \in {"connect", "disconnect"}, state \in Desires : Accept(d, request, state)
    BY <1>4 DEF Connect, Disconnect, Desires
  <2>2. desired' \in [Devices -> Desires \cup {None}]
    BY <2>1, WrittenType DEF Accept
  <2>3. active'
          \in [Devices -> {"none", "connect", "expected", "disconnect", "disconnecting"}]
    BY <2>1, <1>t DEF Accept
  <2> QED BY <2>1, <2>2, <2>3, <1>t DEF Accept, TypeOK
<1>5. ASSUME NEW d \in Devices, StartsWithoutRow(d) PROVE TypeOK'
  BY <1>5, <1>t DEF StartsWithoutRow, TypeOK
<1>6. ASSUME NEW d \in Devices, FindsConnected(d) PROVE TypeOK'
  <2>1. reading' \in [device : Devices, at : Int, seen : Nat, by : Readers] \cup {None}
    BY <1>6, StopType DEF FindsConnected
  <2> QED BY <1>6, <1>t, <2>1 DEF FindsConnected, TypeOK
<1>7. ASSUME NEW d \in Devices, NEW reconnects \in BOOLEAN, ConnectStarts(d, reconnects)
      PROVE  TypeOK'
  <2>1. reading' \in [device : Devices, at : Int, seen : Nat, by : Readers] \cup {None}
    BY <1>7, StopType DEF ConnectStarts
  <2>2. heartbeat' \in [Devices -> Beats] /\ latest' \in [Devices -> Events]
    BY <1>7, ExpectingType DEF ConnectStarts
  <2>3. link' \in [Devices -> {"none", "connected", "polling"}]
    BY <1>7, <1>t, UnpolledType DEF ConnectStarts
  <2>4. /\ active'
             \in [Devices -> {"none", "connect", "expected", "disconnect", "disconnecting"}]
        /\ recovery' \in [Devices -> {"none", "asleep", "trying"}]
    BY <1>7, <1>t DEF ConnectStarts
  <2> QED BY <1>7, <1>t, <2>1, <2>2, <2>3, <2>4 DEF ConnectStarts, TypeOK
<1>8. ASSUME NEW d \in Devices, RecoveryWakes(d) PROVE TypeOK'
  <2>1. CASE desired[d] = None
    BY <1>8, <2>1, <1>t DEF RecoveryWakes, TypeOK
  <2>2. CASE desired[d] # None
    <3>1. reading' \in [device : Devices, at : Int, seen : Nat, by : Readers] \cup {None}
      BY <1>8, <2>2, StopType DEF RecoveryWakes
    <3>2. heartbeat' \in [Devices -> Beats] /\ latest' \in [Devices -> Events]
      BY <1>8, <2>2, ExpectingType DEF RecoveryWakes
    <3>3. link' \in [Devices -> {"none", "connected", "polling"}]
      BY <1>8, <2>2, UnpolledType DEF RecoveryWakes
    <3>4. recovery' \in [Devices -> {"none", "asleep", "trying"}]
      BY <1>8, <1>t DEF RecoveryWakes
    <3> QED BY <1>8, <1>t, <3>1, <3>2, <3>3, <3>4 DEF RecoveryWakes, TypeOK
  <2> QED BY <2>1, <2>2
<1>9. ASSUME NEW d \in Devices, Initialised(d) PROVE TypeOK'
  <2>1. heartbeat' \in [Devices -> Beats] /\ heartbeatTimer' \in [Devices -> Timers]
    BY <1>9, <1>t, CommunicatedType DEF Initialised
  <2>2. latest' \in [Devices -> Events]
    <3>1. latest' = latest \/ latest' = Said(latest, heartbeat', d)
      BY <1>9 DEF Initialised
    <3> QED BY <3>1, <2>1, <1>t, SaidType
  <2> QED BY <1>9, <1>t, <2>1, <2>2 DEF Initialised, TypeOK
<1>10. ASSUME NEW d \in Devices, HeartbeatExpires(d) PROVE TypeOK'
  <2>1. heartbeatTimer' \in [Devices -> Timers]
    BY <1>10, <1>t, <1>n DEF HeartbeatExpires
  <2>2. heartbeat' \in [Devices -> Beats] /\ latest' \in [Devices -> Events]
    <3>1. CASE UNCHANGED <<heartbeat, latest>>
      BY <3>1, <1>t
    <3>2. CASE ~UNCHANGED <<heartbeat, latest>>
      <4>1. /\ Beat(heartbeat, d) = "healthy"
            /\ heartbeat' = [heartbeat EXCEPT ![d].status = "stale"]
            /\ latest' = Said(latest, heartbeat', d)
        BY <1>10, <3>2 DEF HeartbeatExpires
      <4>2. heartbeat[d] # None
        BY <4>1, HeartbeatThere
      <4>3. [heartbeat EXCEPT ![d].status = "stale"] \in [Devices -> Beats]
        <5>1. "stale" \in Statuses
          BY DEF Statuses
        <5> QED BY <4>2, <5>1, StatusType
      <4> QED BY <4>1, <4>3, <1>t, SaidType
    <3> QED BY <3>1, <3>2
  <2> QED BY <1>10, <1>t, <2>1, <2>2 DEF HeartbeatExpires, TypeOK
<1>11. ASSUME NEW d \in Devices, NEW by \in Readers, BeginRead(d, by) PROVE TypeOK'
  BY <1>11, <1>t DEF BeginRead, TypeOK
<1>12. ASSUME NEW d \in Devices, NEW by \in Readers, GivesUp(d, by) PROVE TypeOK'
  <2>1. reading' \in [device : Devices, at : Int, seen : Nat, by : Readers] \cup {None}
    BY <1>12, StopType DEF GivesUp
  <2>2. link' \in [Devices -> {"none", "connected", "polling"}]
    BY <1>12, <1>t, UnpolledType DEF GivesUp
  <2>3. active'
          \in [Devices -> {"none", "connect", "expected", "disconnect", "disconnecting"}]
    BY <1>12, <1>t DEF GivesUp
  <2>4. recovery' \in [Devices -> {"none", "asleep", "trying"}]
    <3>1. PICK next \in {"none", "asleep"} :
            recovery' = [recovery EXCEPT
                           ![d] = IF by # "recovery" /\ @ # "none" THEN @ ELSE next]
      BY <1>12 DEF GivesUp
    <3> QED BY <3>1, <1>t
  <2> QED BY <1>12, <1>t, <2>1, <2>2, <2>3, <2>4 DEF GivesUp, TypeOK
<1>13. ASSUME NEW d \in Devices, SnapshotExpires(d) PROVE TypeOK'
  <2>1. PICK D \in {Expired, {}} : Marked(D)
    BY <1>13 DEF SnapshotExpires
  <2>2. current' \in [Devices -> Snapshots] /\ latest' \in [Devices -> Events]
    BY <2>1, AgedType, SilencedType DEF Marked, Expired, Fresh
  <2> QED BY <1>13, <1>t, <1>n, <2>2 DEF SnapshotExpires, TypeOK
<1>14. ASSUME NEW d \in Devices, DisconnectStarts(d) PROVE TypeOK'
  <2>1. reading' \in [device : Devices, at : Int, seen : Nat, by : Readers] \cup {None}
    BY <1>14, StopType DEF DisconnectStarts
  <2>2. link' \in [Devices -> {"none", "connected", "polling"}]
    BY <1>14, UnpolledType DEF DisconnectStarts
  <2>3. /\ active'
             \in [Devices -> {"none", "connect", "expected", "disconnect", "disconnecting"}]
        /\ recovery' \in [Devices -> {"none", "asleep", "trying"}]
    BY <1>14, <1>t DEF DisconnectStarts
  <2> QED BY <1>14, <1>t, <2>1, <2>2, <2>3 DEF DisconnectStarts, TypeOK
<1>15. ASSUME NEW d \in Devices, Disconnected(d) PROVE TypeOK'
  <2>1. Silenced(Ended(d)) \in [Devices -> Events]
    BY SilencedType
  <2>2. /\ heartbeat' \in [Devices -> Beats] /\ heartbeatTimer' \in [Devices -> Timers]
        /\ latest' \in [Devices -> Events]
    BY <1>15, <2>1, DisconnectingType DEF Disconnected
  <2>3. current' \in [Devices -> Snapshots]
    BY <1>15, AgedType DEF Disconnected, Ended, Expired, Fresh
  <2>4. desired' \in [Devices -> Desires \cup {None}]
    BY <1>15, WrittenType DEF Disconnected, Desires
  <2>5. /\ active'
             \in [Devices -> {"none", "connect", "expected", "disconnect", "disconnecting"}]
        /\ link' \in [Devices -> {"none", "connected", "polling"}]
    BY <1>15, <1>t DEF Disconnected
  <2> QED BY <1>15, <1>t, <2>2, <2>3, <2>4, <2>5 DEF Disconnected, TypeOK
<1>16. ASSUME NEW d \in Devices, Delete(d) PROVE TypeOK'
  <2>1. reading' \in [device : Devices, at : Int, seen : Nat, by : Readers] \cup {None}
    BY <1>16, StopType DEF Delete
  <2> QED BY <1>16, <1>t, <2>1 DEF Delete, TypeOK
<1>17. ASSUME NEW d \in Devices, Remove(d) PROVE TypeOK'
  <2>1. Aged(Ended(d)) \in [Devices -> Snapshots]
    BY AgedType DEF Ended, Expired, Fresh
  <2>2. Silenced(Ended(d)) \in [Devices -> Events] /\ Silent \in Events
    BY SilencedType DEF Silent, Events
  <2>3. reading' \in [device : Devices, at : Int, seen : Nat, by : Readers] \cup {None}
    BY <1>17, StopType DEF Remove
  <2>4. /\ current' \in [Devices -> Snapshots] /\ timer' \in [Devices -> Timers]
        /\ heartbeat' \in [Devices -> Beats] /\ heartbeatTimer' \in [Devices -> Timers]
        /\ latest' \in [Devices -> Events]
    BY <1>17, <1>t, <1>n, <2>1, <2>2 DEF Remove
  <2>5. /\ deleting' \subseteq Devices /\ overtaken' \subseteq Devices
        /\ desired' \in [Devices -> Desires \cup {None}]
        /\ link' \in [Devices -> {"none", "connected", "polling"}]
    BY <1>17, <1>t DEF Remove
  <2> QED BY <1>17, <1>t, <2>3, <2>4, <2>5 DEF Remove, TypeOK
<1>18. ASSUME NEW available \in BOOLEAN, NEW battery \in BOOLEAN, NEW cached \in BOOLEAN,
              NEW success \in {"none", "first", "last"},
              Record(available, battery, cached, success)
       PROVE  TypeOK'
  <2>1. reading \in [device : Devices, at : Int, seen : Nat, by : Readers]
    BY <1>18, <1>t DEF Record
  <2>d. PICK d \in Devices : d = reading.device
    BY <2>1
  <2>2. /\ desired' \in [Devices -> Desires \cup {None}]
        /\ active'
             \in [Devices -> {"none", "connect", "expected", "disconnect", "disconnecting"}]
        /\ recovery' \in [Devices -> {"none", "asleep", "trying"}]
        /\ link' \in [Devices -> {"none", "connected", "polling"}]
    <3>1. Completed(d, reading.by)
      BY <1>18, <2>d DEF Record
    <3>2. Written(d, "connected") \in [Devices -> Desires \cup {None}]
      BY WrittenType DEF Desires
    <3> QED BY <3>1, <3>2, <1>t DEF Completed
  <2>3. CASE Marked(Expired) /\ UNCHANGED <<timer, beating>>
    <3>1. current' \in [Devices -> Snapshots] /\ latest' \in [Devices -> Events]
      BY <2>3, AgedType, SilencedType DEF Marked, Expired, Fresh
    <3> QED BY <1>18, <1>t, <2>2, <2>3, <3>1 DEF Record, TypeOK
  <2>4. CASE ~(Marked(Expired) /\ UNCHANGED <<timer, beating>>)
    <3>1. PICK events \in {latest, Said(latest, heartbeat', d)} :
            latest' = [events EXCEPT ![d].availability = available,
              ![d].battery = IF current[d] = None \/ current[d].stale \/ ~cached
                             THEN battery ELSE @]
      BY <1>18, <2>4, <2>d DEF Record
    <3>2. heartbeat' \in [Devices -> Beats] /\ heartbeatTimer' \in [Devices -> Timers]
      <4>1. \/ UNCHANGED beating
            \/ Communicated(d, reading.at, reading.seen)
            \/ Communicated(d, wall, now)
        BY <1>18, <2>4, <2>d DEF Record
      <4> QED BY <4>1, <2>1, <1>t, CommunicatedType
    <3>3. [at |-> reading.at, seen |-> reading.seen, available |-> available,
           battery |-> battery, stale |-> FALSE] \in Snapshots
      BY <2>1 DEF Snapshots
    <3>4. current' \in [Devices -> Snapshots]
      BY <1>18, <1>t, <2>4, <3>3 DEF Record
    <3>5. Timer(reading.at, StaleAfter) \in Timers
      BY <2>1, TimerType, ThresholdAssumption DEF Timers
    <3>6. timer' \in [Devices -> Timers]
      BY <1>18, <1>t, <2>4, <3>5 DEF Record
    <3>7. latest' \in [Devices -> Events]
      <4>1. events \in [Devices -> Events]
        BY <3>1, <3>2, <1>t, SaidType
      <4>2. events[d] \in Events
        BY <4>1
      <4>3. \A spoken \in {battery, events[d].battery} :
              [events[d] EXCEPT !.availability = available, !.battery = spoken] \in Events
        BY <4>2 DEF Events
      <4> QED BY <3>1, <4>1, <4>3
    <3> QED BY <1>18, <1>t, <1>n, <2>2, <3>2, <3>4, <3>6, <3>7 DEF Record, TypeOK
  <2> QED BY <2>3, <2>4
<1>19. CASE ReadFails
  BY <1>19, <1>t DEF ReadFails, TypeOK
<1>20. CASE Tick
  BY <1>20, <1>t DEF Tick, TypeOK
<1>21. CASE SetClock
  BY <1>21, <1>t, BoundAssumption DEF SetClock, TypeOK
<1> QED BY <1>1, <1>2, <1>3, <1>4, <1>5, <1>6, <1>7, <1>8, <1>9, <1>10, <1>11, <1>12, <1>13,
           <1>14, <1>15, <1>16, <1>17, <1>18, <1>19, <1>20, <1>21
        DEF Next

\* Every reachable state has its type (TypeOK).
THEOREM TelemetryTypeCorrect == Spec => []TypeOK
<1>1. Init => TypeOK
  BY InitAgeing
<1>2. TypeOK /\ [Next]_vars => TypeOK'
  BY StepType
<1> QED BY <1>1, <1>2, PTL DEF Spec

(***************************************************************************)
(* With a clock that shows real time, every fresh snapshot has its timer   *)
(* and every healthy heartbeat has its timer (Ageing).                     *)
(***************************************************************************)
\* What a step leaves alone stays held.
LEMMA StillHeld ==
  ASSUME NEW d \in Devices, Held(d), now' = now,
         current'[d] = current[d], timer'[d] = timer[d]
  PROVE  Held(d)'
BY DEF Held, Fresh, Timed

LEMMA StillLively ==
  ASSUME NEW d \in Devices, Lively(d), now' = now,
         heartbeat'[d] = heartbeat[d], heartbeatTimer'[d] = heartbeatTimer[d]
  PROVE  Lively(d)'
BY DEF Lively, Beat, Timed

\* Marking leaves nothing fresh that was not fresh before.
LEMMA MarkedHeld ==
  ASSUME TypeOK, NEW d \in Devices, NEW D, \A e \in D : e \in Devices => current[e] # None,
         current'[d] = Aged(D)[d]
  PROVE  Fresh(d)' => d \notin D /\ Fresh(d) /\ current'[d] = current[d]
<1>1. CASE d \in D
  <2>1. current[d] \in [at : Int, seen : Nat, available : BOOLEAN, battery : BOOLEAN,
                        stale : BOOLEAN]
    BY <1>1 DEF TypeOK, Snapshots
  <2>2. current'[d] = [current[d] EXCEPT !.stale = TRUE]
    BY <1>1 DEF Aged
  <2> QED BY <2>1, <2>2 DEF Fresh
<1>2. CASE d \notin D
  BY <1>2 DEF Aged, Fresh
<1> QED BY <1>1, <1>2

\* The timer of something seen at `at`, started now.
LEMMA TimedAnew ==
  ASSUME TypeOK, wall = now, now' = now, NEW d \in Devices, NEW at \in Int, NEW after \in Nat,
         NEW timers, timers[d] = Timer(at, after)
  PROVE  Timed(timers, d, at, after)
<1>1. timers[d] \in [at : Int, due : Nat] /\ timers[d] # None
  BY TimerType, NoneDistinct
<1>2. now \in Nat /\ timers[d].at = at
  BY TimerType DEF TypeOK
<1>3. timers[d].due = now + (IF at + after > now THEN at + after - now ELSE 0)
  <2>1. Timer(at, after).due = now + (IF at + after > wall THEN at + after - wall ELSE 0)
    BY TimerType
  <2> QED BY <2>1
<1> QED BY <1>1, <1>2, <1>3 DEF Timed

LEMMA CommunicatedLively ==
  ASSUME TypeOK, Ageing, UNCHANGED clock, NEW d \in Devices, NEW at \in Int, NEW seen \in Nat,
         at = seen, Communicated(d, at, seen), NEW e \in Devices
  PROVE  Lively(e)'
<1>1. heartbeat \in [Devices -> Beats] /\ heartbeatTimer \in [Devices -> Timers] /\ now' = now
  BY DEF TypeOK, clock
<1>2. CASE UNCHANGED beating
  BY <1>1, <1>2, StillLively DEF beating, Ageing
<1>3. CASE ~UNCHANGED beating
  <2>1. /\ heartbeat' = [heartbeat EXCEPT
                           ![d] = [status |-> "healthy", at |-> at, seen |-> seen]]
        /\ heartbeatTimer' = [heartbeatTimer EXCEPT ![d] = Timer(at, HeartbeatStaleAfter)]
    BY <1>3 DEF Communicated
  <2>2. CASE e # d
    BY <2>1, <2>2, <1>1, StillLively DEF Ageing
  <2>3. CASE e = d
    <3>1. heartbeatTimer'[d] = Timer(at, HeartbeatStaleAfter)
          /\ heartbeat'[d] = [status |-> "healthy", at |-> at, seen |-> seen]
      BY <2>1, <1>1
    <3>2. HeartbeatStaleAfter \in Nat /\ wall = now
      BY ThresholdAssumption DEF Ageing
    <3>3. Timed(heartbeatTimer', d, at, HeartbeatStaleAfter)
      BY <3>1, <3>2, <1>1, TimedAnew
    <3> QED BY <3>1, <3>3, <2>3, <1>1 DEF Lively, Timed
  <2> QED BY <2>2, <2>3
<1> QED BY <1>2, <1>3

LEMMA BeatDistinct ==
  \A b \in [status : Statuses, at : Int, seen : Nat \cup {Never}] : b # None
BY NoneAssumption DEF Never

\* A step that leaves snapshots, heartbeats and timers alone, and brings no reading.
LEMMA StillAgeing ==
  ASSUME Ageing, UNCHANGED <<now, wall, ageing, beating>>,
         reading' # None => reading' = reading
  PROVE  Ageing'
<1>1. \A e \in Devices : Held(e)' /\ Lively(e)'
  BY StillHeld, StillLively DEF Ageing, ageing, beating
<1> QED BY <1>1 DEF Ageing

\* A step that makes at most one heartbeat something other than healthy.
LEMMA QuietAgeing ==
  ASSUME Ageing, UNCHANGED <<now, wall, ageing>>, reading' # None => reading' = reading,
         NEW d \in Devices,
         \A e \in Devices \ {d} : heartbeat'[e] = heartbeat[e]
                                  /\ heartbeatTimer'[e] = heartbeatTimer[e],
         Beat(heartbeat', d) # "healthy"
  PROVE  Ageing'
<1>1. \A e \in Devices : Held(e)'
  BY StillHeld DEF Ageing, ageing
<1>2. ASSUME NEW e \in Devices PROVE Lively(e)'
  <2>1. CASE e = d
    BY <2>1 DEF Lively, Beat
  <2>2. CASE e # d
    BY <2>2, StillLively DEF Ageing
  <2> QED BY <2>1, <2>2
<1> QED BY <1>1, <1>2 DEF Ageing

LEMMA ExpectingQuiet ==
  ASSUME TypeOK, NEW d \in Devices, Expecting(d)
  PROVE  /\ \A e \in Devices \ {d} : heartbeat'[e] = heartbeat[e]
         /\ Beat(heartbeat', d) # "disconnected"
         /\ Beat(heartbeat', d) = "healthy" => heartbeat' = heartbeat
<1>1. CASE Beat(heartbeat, d) # "disconnected"
  BY <1>1 DEF Expecting, Beat
<1>2. CASE Beat(heartbeat, d) = "disconnected"
  <2>1. heartbeat[d] # None /\ Awaited(d) \in {"unknown", "stale"}
    BY <1>2, HeartbeatThere DEF Awaited
  <2>2. heartbeat' = [heartbeat EXCEPT ![d].status = Awaited(d)]
    BY <1>2 DEF Expecting
  <2>3. \A e \in Devices \ {d} : heartbeat'[e] = heartbeat[e]
    BY <2>2 DEF TypeOK
  <2>4. \A status \in Statuses : [heartbeat EXCEPT ![d].status = status][d].status = status
    BY <2>1, StatusType
  <2>5. heartbeat'[d].status \in {"unknown", "stale"}
    BY <2>1, <2>2, <2>4 DEF Statuses
  <2>6. Beat(heartbeat', d) \notin {"healthy", "disconnected"}
    BY <2>5, NoneDistinct DEF Beat
  <2> QED BY <2>3, <2>6
<1> QED BY <1>1, <1>2

LEMMA DisconnectingQuiet ==
  ASSUME TypeOK, NEW d \in Devices, NEW events, Disconnecting(d, events)
  PROVE  /\ \A e \in Devices \ {d} : heartbeat'[e] = heartbeat[e]
                                     /\ heartbeatTimer'[e] = heartbeatTimer[e]
         /\ heartbeat[d] = None => heartbeat'[d] = None
         /\ heartbeat[d] # None => heartbeat'[d] # None /\ heartbeat'[d].status = "disconnected"
         /\ Beat(heartbeat', d) # "healthy"
<1>1. CASE heartbeat[d] = None
  BY <1>1, NoneDistinct DEF Disconnecting, beating, Beat
<1>2. CASE heartbeat[d] # None
  <2>1. /\ heartbeat' = [heartbeat EXCEPT ![d].status = "disconnected"]
        /\ heartbeatTimer' = [heartbeatTimer EXCEPT ![d] = None]
    BY <1>2 DEF Disconnecting
  <2>2. \A e \in Devices \ {d} : heartbeat'[e] = heartbeat[e]
                                 /\ heartbeatTimer'[e] = heartbeatTimer[e]
    BY <2>1 DEF TypeOK
  <2>3. heartbeat'[d].status = "disconnected" /\ heartbeat'[d] # None
    <3>1. heartbeat[d] \in [status : Statuses, at : Int, seen : Nat \cup {Never}]
      BY <1>2, StatusType DEF Statuses
    <3>2. heartbeat'[d] = [heartbeat[d] EXCEPT !.status = "disconnected"]
      BY <2>1 DEF TypeOK
    <3>3. heartbeat'[d] \in [status : Statuses, at : Int, seen : Nat \cup {Never}]
          /\ heartbeat'[d].status = "disconnected"
      BY <3>1, <3>2 DEF Statuses
    <3> QED BY <3>3, BeatDistinct
  <2> QED BY <1>2, <2>2, <2>3 DEF Beat
<1> QED BY <1>1, <1>2

\* After the task of a registration its heartbeat is disconnected.
LEMMA RegisteredQuiet ==
  ASSUME TypeOK, NEW d \in Devices, RegisterHeartbeat(d)
  PROVE  /\ \A e \in Devices \ {d} : heartbeat'[e] = heartbeat[e]
                                     /\ heartbeatTimer'[e] = heartbeatTimer[e]
         /\ heartbeat'[d] # None /\ heartbeat'[d].status = "disconnected"
         /\ Beat(heartbeat', d) = "disconnected"
<1> DEFINE beat == IF heartbeat[d] = None THEN Unknown ELSE heartbeat[d]
<1>1. beat \in [status : Statuses, at : Int, seen : Nat \cup {Never}]
  BY DEF TypeOK, Unknown, Never, Beats, Statuses
<1>2. heartbeat' = [heartbeat EXCEPT ![d] = [beat EXCEPT !.status = "disconnected"]]
      /\ heartbeatTimer' = [heartbeatTimer EXCEPT ![d] = None]
  BY DEF RegisterHeartbeat
<1> HIDE DEF beat
<1>3. [beat EXCEPT !.status = "disconnected"]
        \in [status : Statuses, at : Int, seen : Nat \cup {Never}]
      /\ [beat EXCEPT !.status = "disconnected"].status = "disconnected"
  BY <1>1 DEF Statuses
<1>4. heartbeat'[d] = [beat EXCEPT !.status = "disconnected"]
      /\ \A e \in Devices \ {d} : heartbeat'[e] = heartbeat[e]
                                  /\ heartbeatTimer'[e] = heartbeatTimer[e]
  BY <1>2 DEF TypeOK
<1>5. heartbeat'[d] # None /\ heartbeat'[d].status = "disconnected"
  BY <1>3, <1>4, BeatDistinct
<1> QED BY <1>4, <1>5 DEF Beat

\* One step keeps them.
LEMMA StepAgeing ==
  ASSUME TypeOK, settings = 0 => Ageing, [Next]_vars, settings' = 0
  PROVE  Ageing'
<1> USE DEF clock, tasks, ageing, beating
<1>s. settings \in Nat
  BY DEF TypeOK
<1>a. Ageing
  <2>1. ASSUME NEW d \in Devices,
               \/ Register(d) \/ RegisterHeartbeat(d) \/ Connect(d) \/ Disconnect(d)
               \/ StartsWithoutRow(d) \/ FindsConnected(d) \/ RecoveryWakes(d)
               \/ Initialised(d) \/ DisconnectStarts(d) \/ Disconnected(d) \/ Delete(d)
               \/ Remove(d) \/ HeartbeatExpires(d) \/ SnapshotExpires(d)
               \/ \E reconnects \in BOOLEAN : ConnectStarts(d, reconnects)
               \/ \E by \in Readers : BeginRead(d, by) \/ GivesUp(d, by)
        PROVE  settings' = settings
    <3>1. CASE \/ Register(d) \/ RegisterHeartbeat(d) \/ Connect(d) \/ Disconnect(d)
               \/ StartsWithoutRow(d) \/ FindsConnected(d) \/ RecoveryWakes(d)
      BY <3>1 DEF Register, RegisterHeartbeat, Connect, Disconnect, Accept, StartsWithoutRow,
                  FindsConnected, RecoveryWakes
    <3>2. CASE \/ Initialised(d) \/ DisconnectStarts(d) \/ Disconnected(d) \/ Delete(d)
               \/ Remove(d) \/ HeartbeatExpires(d) \/ SnapshotExpires(d)
      BY <3>2 DEF Initialised, DisconnectStarts, Disconnected, Delete, Remove, HeartbeatExpires,
                  SnapshotExpires
    <3>3. CASE \/ \E reconnects \in BOOLEAN : ConnectStarts(d, reconnects)
               \/ \E by \in Readers : BeginRead(d, by) \/ GivesUp(d, by)
      BY <3>3 DEF ConnectStarts, BeginRead, GivesUp
    <3> QED BY <2>1, <3>1, <3>2, <3>3
  <2>2. ASSUME NEW available, NEW battery, NEW cached, NEW success,
               Record(available, battery, cached, success)
        PROVE  settings' = settings
    BY <2>2 DEF Record
  <2>3. ASSUME ReadFails \/ Tick \/ SetClock \/ UNCHANGED vars PROVE settings' = settings
    BY <2>3, <1>s DEF ReadFails, Tick, SetClock, vars
  <2>4. settings = 0
    BY <2>1, <2>2, <2>3 DEF Next
  <2> QED BY <2>4
<1>t. /\ now \in Nat /\ wall = now
      /\ reading \in [device : Devices, at : Int, seen : Nat, by : Readers] \cup {None}
      /\ current \in [Devices -> Snapshots] /\ timer \in [Devices -> Timers]
      /\ heartbeat \in [Devices -> Beats] /\ heartbeatTimer \in [Devices -> Timers]
      /\ \A e \in Devices : Held(e) /\ Lively(e)
      /\ reading # None => reading.at = reading.seen
  BY <1>a DEF TypeOK, Ageing
<1>1. CASE UNCHANGED vars
  BY <1>1, <1>t, StillHeld, StillLively DEF vars, Ageing
<1>2. ASSUME NEW d \in Devices, Register(d) PROVE Ageing'
  <2>1. \A e \in Devices \ {d} : heartbeat'[e] = heartbeat[e]
    BY <1>2, <1>t DEF Register
  <2>2. CASE heartbeat[d] = None
    <3>1. heartbeat'[d] = Unknown
      BY <1>2, <1>t, <2>2 DEF Register
    <3>2. Beat(heartbeat', d) # "healthy"
      BY <3>1, NoneDistinct DEF Beat, Unknown
    <3> QED BY <1>2, <1>a, <2>1, <3>2, QuietAgeing DEF Register
  <2>3. CASE heartbeat[d] # None
    <3>1. heartbeat' = heartbeat
      BY <1>2, <1>t, <2>3 DEF Register
    <3> QED BY <1>2, <1>a, <3>1, StillAgeing DEF Register
  <2> QED BY <2>2, <2>3
<1>3. ASSUME NEW d \in Devices, RegisterHeartbeat(d) PROVE Ageing'
  <2>1. Beat(heartbeat', d) # "healthy"
    BY <1>3, RegisteredQuiet
  <2> QED BY <1>3, <1>a, <2>1, RegisteredQuiet, QuietAgeing DEF RegisterHeartbeat
<1>4. ASSUME NEW d \in Devices, Connect(d) \/ Disconnect(d) PROVE Ageing'
  BY <1>4, <1>a, StillAgeing DEF Connect, Disconnect, Accept
<1>5. ASSUME NEW d \in Devices, StartsWithoutRow(d) PROVE Ageing'
  BY <1>5, <1>a, StillAgeing DEF StartsWithoutRow
<1>6. ASSUME NEW d \in Devices, FindsConnected(d) PROVE Ageing'
  BY <1>6, <1>a, StopType, StillAgeing DEF FindsConnected
<1>e. ASSUME NEW d \in Devices, Expecting(d), UNCHANGED <<now, wall, ageing, heartbeatTimer>>,
             reading' # None => reading' = reading
      PROVE  Ageing'
  <2>1. CASE heartbeat' = heartbeat
    BY <1>e, <2>1, <1>a, StillAgeing
  <2>2. CASE heartbeat' # heartbeat
    <3>1. Beat(heartbeat', d) # "healthy"
      BY <1>e, <2>2, ExpectingQuiet
    <3>2. \A e \in Devices \ {d} : heartbeat'[e] = heartbeat[e]
      BY <1>e, ExpectingQuiet
    <3> QED BY <1>e, <1>a, <3>1, <3>2, QuietAgeing
  <2> QED BY <2>1, <2>2
<1>7. ASSUME NEW d \in Devices, NEW reconnects \in BOOLEAN, ConnectStarts(d, reconnects)
      PROVE  Ageing'
  BY <1>7, <1>e, StopType DEF ConnectStarts
<1>8. ASSUME NEW d \in Devices, RecoveryWakes(d) PROVE Ageing'
  <2>1. CASE desired[d] = None
    BY <1>8, <2>1, <1>a, StillAgeing DEF RecoveryWakes
  <2>2. CASE desired[d] # None
    <3>1. reading' # None => reading' = reading
      BY <1>8, <2>2, StopType DEF RecoveryWakes
    <3> QED BY <1>8, <1>e, <2>2, <3>1 DEF RecoveryWakes
  <2> QED BY <2>1, <2>2
<1>9. ASSUME NEW d \in Devices, Initialised(d) PROVE Ageing'
  <2>1. \A e \in Devices : Held(e)'
    BY <1>9, <1>t, StillHeld DEF Initialised
  <2>2. \A e \in Devices : Lively(e)'
    BY <1>9, <1>a, <1>t, CommunicatedLively DEF Initialised
  <2> QED BY <1>9, <1>t, <2>1, <2>2 DEF Initialised, Ageing
<1>10. ASSUME NEW d \in Devices, HeartbeatExpires(d) PROVE Ageing'
  <2>1. \A e \in Devices : Held(e)'
    BY <1>10, <1>t, StillHeld DEF HeartbeatExpires
  <2>2. ASSUME NEW e \in Devices PROVE Lively(e)'
    <3>1. CASE e # d
      BY <3>1, <1>10, <1>t, StillLively DEF HeartbeatExpires
    <3>2. CASE e = d /\ Beat(heartbeat, d) = "healthy"
      <4>1. heartbeatTimer[d].at = heartbeat[d].at
        BY <3>2, <1>t DEF Lively, Timed
      <4>2. heartbeat[d] # None /\ heartbeat' = [heartbeat EXCEPT ![d].status = "stale"]
        BY <4>1, <3>2, <1>10, NoneDistinct DEF HeartbeatExpires, Beat
      <4>3. heartbeat[d] \in [status : Statuses, at : Int, seen : Nat \cup {Never}]
        BY <4>2, <1>t DEF Beats
      <4>4. heartbeat'[d].status = "stale"
        BY <4>2, <4>3, <1>t
      <4> QED BY <4>4, <3>2, NoneDistinct DEF Lively, Beat
    <3>3. CASE e = d /\ Beat(heartbeat, d) # "healthy"
      BY <3>3, <1>10 DEF HeartbeatExpires, Lively, Beat
    <3> QED BY <3>1, <3>2, <3>3
  <2> QED BY <1>10, <1>t, <2>1, <2>2 DEF HeartbeatExpires, Ageing
<1>11. ASSUME NEW d \in Devices, NEW by \in Readers, BeginRead(d, by) PROVE Ageing'
  BY <1>11, <1>t, StillHeld, StillLively DEF BeginRead, Ageing
<1>12. ASSUME NEW d \in Devices, NEW by \in Readers, GivesUp(d, by) PROVE Ageing'
  BY <1>12, <1>a, StopType, StillAgeing DEF GivesUp
<1>13. ASSUME NEW d \in Devices, SnapshotExpires(d) PROVE Ageing'
  <2> DEFINE D == IF current[d] # None /\ current[d].at = timer[d].at THEN Expired ELSE {}
  <2>1. \A e \in Devices : current'[e] = Aged(D)[e]
    BY <1>13 DEF SnapshotExpires, Marked
  <2>2. \A e \in Devices : Lively(e)'
    BY <1>13, <1>t, StillLively DEF SnapshotExpires
  <2>3. ASSUME NEW e \in Devices, Fresh(e)' PROVE Held(e)'
    <3>1. \A f \in D : f \in Devices => current[f] # None
      BY DEF Expired, Fresh
    <3>2. e \notin D /\ Fresh(e) /\ current'[e] = current[e]
      <4> HIDE DEF D
      <4> QED BY <2>1, <2>3, <3>1, MarkedHeld
    <3>3. CASE e = d
      <4>1. timer[d].at = current[d].at /\ current[d].at + StaleAfter <= timer[d].due
        BY <3>2, <3>3, <1>t DEF Held, Timed
      <4>2. current[d].at \in Int /\ timer[d].due \in Nat /\ timer[d].due <= now
        BY <1>13, <1>t, <3>2, <3>3 DEF SnapshotExpires, Due, Snapshots, Timers, Fresh
      <4>3. d \in Expired /\ current[d] # None
        BY <4>1, <4>2, <3>2, <3>3, <1>t, ThresholdAssumption DEF Expired, Fresh
      <4> QED BY <4>1, <4>3, <3>2, <3>3
    <3>4. CASE e # d
      BY <3>2, <3>4, <1>13, <1>t, StillHeld DEF SnapshotExpires
    <3> QED BY <3>3, <3>4
  <2> QED BY <1>13, <1>t, <2>2, <2>3 DEF SnapshotExpires, Ageing, Held
<1>14. ASSUME NEW d \in Devices, DisconnectStarts(d) PROVE Ageing'
  BY <1>14, <1>a, StopType, StillAgeing DEF DisconnectStarts
<1>15. ASSUME NEW d \in Devices, Disconnected(d) PROVE Ageing'
  <2>0. Disconnecting(d, Silenced(Ended(d)))
    BY <1>15 DEF Disconnected
  <2>1. ASSUME NEW e \in Devices PROVE Lively(e)'
    <3>1. CASE e # d
      BY <3>1, <1>15, <2>0, <1>t, DisconnectingQuiet, StillLively DEF Disconnected
    <3>2. CASE e = d
      <4>1. Beat(heartbeat', d) # "healthy"
        BY <2>0, DisconnectingQuiet
      <4> QED BY <4>1, <3>2 DEF Lively, Beat
    <3> QED BY <3>1, <3>2
  <2>2. \A e \in Devices : Held(e)'
    <3>1. \A e \in Ended(d) : e \in Devices => current[e] # None
      BY DEF Ended, Expired, Fresh
    <3>2. \A e \in Devices : Fresh(e)' => Fresh(e) /\ current'[e] = current[e]
      BY <1>15, <3>1, MarkedHeld DEF Disconnected
    <3> QED BY <3>2, <1>15, <1>t, StillHeld DEF Disconnected, Held
  <2> QED BY <1>15, <1>t, <2>1, <2>2 DEF Disconnected, Ageing
<1>16. ASSUME NEW d \in Devices, Delete(d) PROVE Ageing'
  BY <1>16, <1>a, StopType, StillAgeing DEF Delete
<1>17. ASSUME NEW d \in Devices, Remove(d) PROVE Ageing'
  <2>1. ASSUME NEW e \in Devices PROVE Lively(e)'
    <3>1. CASE e # d
      BY <3>1, <1>17, <1>t, StillLively DEF Remove
    <3>2. CASE e = d
      BY <3>2, <1>17, <1>t, NoneDistinct DEF Remove, Lively, Beat
    <3> QED BY <3>1, <3>2
  <2>2. ASSUME NEW e \in Devices PROVE Held(e)'
    <3>1. Aged(Ended(d)) \in [Devices -> Snapshots]
      BY AgedType DEF Ended, Expired, Fresh
    <3>2. CASE e = d
      BY <3>1, <3>2, <1>17 DEF Remove, Held, Fresh
    <3>3. CASE e # d
      <4>1. current'[e] = Aged(Ended(d))[e] /\ timer'[e] = timer[e]
        BY <3>1, <3>3, <1>17, <1>t DEF Remove
      <4>2. \A f \in Ended(d) : f \in Devices => current[f] # None
        BY DEF Ended, Expired, Fresh
      <4>3. Fresh(e)' => current'[e] = current[e]
        BY <4>1, <4>2, MarkedHeld
      <4> QED BY <4>1, <4>3, <1>17, <1>t, StillHeld DEF Remove, Held
    <3> QED BY <3>2, <3>3
  <2>3. reading' # None => reading' = reading
    BY <1>17 DEF Remove, Stop
  <2> QED BY <1>17, <1>t, <2>1, <2>2, <2>3 DEF Remove, Ageing
<1>18. ASSUME NEW available \in BOOLEAN, NEW battery \in BOOLEAN, NEW cached \in BOOLEAN,
              NEW success \in {"none", "first", "last"},
              Record(available, battery, cached, success)
       PROVE  Ageing'
  <2> DEFINE d == reading.device
  <2>1. reading \in [device : Devices, at : Int, seen : Nat, by : Readers]
        /\ reading.at = reading.seen
    BY <1>18, <1>t DEF Record
  <2>2. CASE Marked(Expired) /\ UNCHANGED <<timer, beating>>
    <3>1. \A e \in Devices : Lively(e)'
      BY <2>2, <1>18, <1>t, StillLively DEF Record
    <3>2. \A e \in Devices : Fresh(e)' => current'[e] = current[e]
      BY <2>2, MarkedHeld DEF Marked, Expired, Fresh
    <3>3. \A e \in Devices : Held(e)'
      BY <3>2, <2>2, <1>18, <1>t, StillHeld DEF Record, Held
    <3> QED BY <1>18, <1>t, <2>2, <3>1, <3>3 DEF Record, Ageing
  <2>3. CASE ~(Marked(Expired) /\ UNCHANGED <<timer, beating>>)
    <3>1. \A e \in Devices : Lively(e)'
      <4>1. \/ UNCHANGED beating
            \/ Communicated(d, reading.at, reading.seen)
            \/ Communicated(d, wall, now)
        BY <1>18, <2>3 DEF Record
      <4>2. UNCHANGED clock
        BY <1>18 DEF Record
      <4>3. CASE UNCHANGED beating
        BY <4>2, <4>3, <1>t, StillLively
      <4> QED BY <4>1, <4>2, <4>3, <2>1, <1>t, CommunicatedLively
    <3>2. timer' = [timer EXCEPT ![d] = Timer(reading.at, StaleAfter)]
      BY <1>18, <2>3 DEF Record
    <3>3. current' = [current EXCEPT ![d] = [at |-> reading.at, seen |-> reading.seen,
                        available |-> available, battery |-> battery, stale |-> FALSE]]
      BY <1>18, <2>3 DEF Record
    <3>4. now' = now /\ wall' = wall /\ reading' = None
      BY <1>18 DEF Record
    <3>5. ASSUME NEW e \in Devices PROVE Held(e)'
      <4>1. CASE e # d
        BY <4>1, <3>2, <3>3, <3>4, <1>t, StillHeld
      <4>2. CASE e = d
        <5>1. timer'[d] = Timer(reading.at, StaleAfter)
          BY <2>1, <3>2, <1>t
        <5>2. StaleAfter \in Nat /\ d \in Devices
          BY <2>1, ThresholdAssumption
        <5>3. Timed(timer', d, reading.at, StaleAfter)
          BY <5>1, <5>2, <2>1, <3>4, <1>t, TimedAnew
        <5>4. current'[d].at = reading.at /\ current'[d].seen = reading.seen
          BY <2>1, <3>3, <1>t
        <5> QED BY <5>3, <5>4, <4>2, <2>1, <3>4 DEF Held, Timed
      <4> QED BY <4>1, <4>2
    <3> QED BY <3>1, <3>4, <3>5, <1>t DEF Ageing
  <2> QED BY <2>2, <2>3
<1>19. CASE ReadFails
  BY <1>19, <1>a, StillAgeing DEF ReadFails
<1>20. CASE Tick
  <2>1. ASSUME NEW e \in Devices PROVE Held(e)' /\ Lively(e)'
    <3>1. /\ timer[e] # None => timer[e].due \in Nat /\ timer[e].due > now
          /\ heartbeatTimer[e] # None =>
               heartbeatTimer[e].due \in Nat /\ heartbeatTimer[e].due > now
      BY <1>20, <1>t DEF Tick, Due, Timers
    <3>2. now' = now + 1 /\ UNCHANGED <<current, timer, heartbeat, heartbeatTimer>>
      BY <1>20 DEF Tick
    <3>3. Held(e)'
      BY <3>1, <3>2, <1>t DEF Held, Fresh, Timed
    <3>4. Lively(e)'
      BY <3>1, <3>2, <1>t DEF Lively, Beat, Timed
    <3> QED BY <3>3, <3>4
  <2> QED BY <2>1, <1>20, <1>t DEF Tick, Ageing
<1>21. CASE SetClock
  BY <1>21, <1>s DEF SetClock
<1> QED BY <1>1, <1>2, <1>3, <1>4, <1>5, <1>6, <1>7, <1>8, <1>9, <1>10, <1>11, <1>12, <1>13,
           <1>14, <1>15, <1>16, <1>17, <1>18, <1>19, <1>20, <1>21
        DEF Next

\* In an ageing state nothing is called fresh or healthy beyond its threshold.
LEMMA AgeingBounds ==
  ASSUME TypeOK, settings = 0 => Ageing PROVE FreshBounded /\ HeartbeatBounded
<1> SUFFICES ASSUME settings = 0 PROVE FreshBounded /\ HeartbeatBounded
  BY DEF FreshBounded, HeartbeatBounded
<1>t. /\ now \in Nat /\ timer \in [Devices -> Timers]
      /\ heartbeatTimer \in [Devices -> Timers]
      /\ \A e \in Devices : Held(e) /\ Lively(e)
  BY DEF TypeOK, Ageing
<1>1. FreshBounded
  BY <1>t DEF FreshBounded, FreshAlways, Held, Timed, Due
<1>2. HeartbeatBounded
  BY <1>t DEF HeartbeatBounded, Lively, Timed, Due
<1> QED BY <1>1, <1>2

\* Until the clock is set, every state is an ageing one: the inductive invariant.
THEOREM AgeingHolds == Spec => [](TypeOK /\ (settings = 0 => Ageing))
<1>1. Init => TypeOK /\ (settings = 0 => Ageing)
  BY InitAgeing
<1>2. TypeOK /\ (settings = 0 => Ageing) /\ [Next]_vars
        => (TypeOK /\ (settings = 0 => Ageing))'
  BY StepType, StepAgeing
<1> QED BY <1>1, <1>2, PTL DEF Spec

\* While nobody has set the clock, no reading is called fresh beyond the threshold
\* (FreshBounded: record, mark_stale and the timer of telemetry.py).
THEOREM FreshnessHolds == Spec => []FreshBounded
<1>1. TypeOK /\ (settings = 0 => Ageing) => FreshBounded
  BY AgeingBounds
<1> QED BY <1>1, AgeingHolds, PTL

\* While nobody has set the clock, no heartbeat is healthy beyond its threshold
\* (HeartbeatBounded: communication_succeeded and its timer).
THEOREM HeartbeatHolds == Spec => []HeartbeatBounded
<1>1. TypeOK /\ (settings = 0 => Ageing) => HeartbeatBounded
  BY AgeingBounds
<1> QED BY <1>1, AgeingHolds, PTL


(***************************************************************************)
(* The availability and battery events show the current snapshots.         *)
(***************************************************************************)
Shown(d) ==
  IF current[d] = None
  THEN latest[d].availability = None /\ latest[d].battery = None
  ELSE /\ latest[d].availability = (Fresh(d) /\ current[d].available)
       /\ latest[d].battery = (Fresh(d) /\ current[d].battery)

LEMMA SnapshotDistinct ==
  \A s \in [at : Int, seen : Nat, available : BOOLEAN, battery : BOOLEAN, stale : BOOLEAN] :
    s # None
BY NoneAssumption

LEMMA StillShown ==
  ASSUME NEW d \in Devices, Shown(d), current'[d] = current[d],
         latest'[d].availability = latest[d].availability, latest'[d].battery = latest[d].battery
  PROVE  Shown(d)'
BY DEF Shown, Fresh

\* Publishing a heartbeat changes no other event.
LEMMA SaidEvent ==
  ASSUME NEW events \in [Devices -> Events], NEW beats, NEW d \in Devices, NEW e \in Devices
  PROVE  /\ Said(events, beats, d)[e].availability = events[e].availability
         /\ Said(events, beats, d)[e].battery = events[e].battery
         /\ e # d => Said(events, beats, d)[e] = events[e]
         /\ e = d => Said(events, beats, d)[e].heartbeat = Beat(beats, d)
<1>1. events[e] \in [availability : BOOLEAN \cup {None}, battery : BOOLEAN \cup {None},
                     heartbeat : Statuses \cup {None}]
  BY DEF Events
<1> QED BY <1>1 DEF Said

\* Marking says of each snapshot that ages that it is not available, and leaves the heartbeat.
LEMMA SilencedEvent ==
  ASSUME TypeOK, NEW D, NEW d \in Devices
  PROVE  /\ Silenced(D)[d].heartbeat = latest[d].heartbeat
         /\ d \in D => Silenced(D)[d].availability = FALSE /\ Silenced(D)[d].battery = FALSE
         /\ d \notin D => Silenced(D)[d] = latest[d]
<1>1. latest[d] \in [availability : BOOLEAN \cup {None}, battery : BOOLEAN \cup {None},
                    heartbeat : Statuses \cup {None}]
  BY DEF TypeOK, Events
<1> QED BY <1>1 DEF Silenced

LEMMA MarkedShown ==
  ASSUME TypeOK, NEW d \in Devices, Shown(d),
         NEW D, \A e \in D : e \in Devices => current[e] # None,
         current'[d] = Aged(D)[d],
         latest'[d].availability = Silenced(D)[d].availability,
         latest'[d].battery = Silenced(D)[d].battery
  PROVE  Shown(d)'
<1>1. CASE d \in D
  <2>1. current[d] \in [at : Int, seen : Nat, available : BOOLEAN, battery : BOOLEAN,
                        stale : BOOLEAN]
    BY <1>1 DEF TypeOK, Snapshots
  <2>2. current'[d] = [current[d] EXCEPT !.stale = TRUE]
    BY <1>1 DEF Aged
  <2>3. current'[d] \in [at : Int, seen : Nat, available : BOOLEAN, battery : BOOLEAN,
                         stale : BOOLEAN] /\ current'[d].stale = TRUE
    BY <2>1, <2>2
  <2>4. current'[d] # None /\ ~Fresh(d)'
    BY <2>3, SnapshotDistinct DEF Fresh
  <2>5. latest'[d].availability = FALSE /\ latest'[d].battery = FALSE
    BY <1>1, SilencedEvent
  <2> QED BY <2>4, <2>5 DEF Shown
<1>2. CASE d \notin D
  <2>1. current'[d] = current[d]
    BY <1>2 DEF Aged
  <2> QED BY <1>2, <2>1, SilencedEvent, StillShown
<1> QED BY <1>1, <1>2

LEMMA MarkingShown ==
  ASSUME TypeOK, \A d \in Devices : Shown(d), Marked(Expired) \/ Marked({})
  PROVE  \A d \in Devices : Shown(d)'
<1>1. PICK D : D \in {Expired, {}} /\ Marked(D)
  OBVIOUS
<1>2. \A e \in D : e \in Devices => current[e] # None
  BY <1>1 DEF Expired, Fresh
<1> QED BY <1>1, <1>2, MarkedShown DEF Marked

\* A snapshot that has just been recorded is fresh, and said to be.
LEMMA RecordedShown ==
  ASSUME NEW d \in Devices, NEW at \in Int, NEW seen \in Nat,
         NEW available \in BOOLEAN, NEW battery \in BOOLEAN,
         current'[d] = [at |-> at, seen |-> seen, available |-> available,
                        battery |-> battery, stale |-> FALSE],
         latest'[d].availability = available, latest'[d].battery = battery
  PROVE  Shown(d)'
<1>1. [at |-> at, seen |-> seen, available |-> available, battery |-> battery, stale |-> FALSE]
        \in [at : Int, seen : Nat, available : BOOLEAN, battery : BOOLEAN, stale : BOOLEAN]
  OBVIOUS
<1>2. current'[d] # None
  BY <1>1, SnapshotDistinct
<1>3. Fresh(d)' = TRUE
  BY <1>2 DEF Fresh
<1>4. current'[d].available = available /\ current'[d].battery = battery
  OBVIOUS
<1>5. latest'[d].availability = (Fresh(d)' /\ current'[d].available)
  <2>1. (TRUE /\ available) = available
    OBVIOUS
  <2> QED BY <1>3, <1>4, <2>1
<1>6. latest'[d].battery = (Fresh(d)' /\ current'[d].battery)
  <2>1. (TRUE /\ battery) = battery
    OBVIOUS
  <2> QED BY <1>3, <1>4, <2>1
<1> QED BY <1>2, <1>5, <1>6 DEF Shown

\* A step that leaves the snapshots alone and publishes at most a heartbeat.
LEMMA SaidShown ==
  ASSUME TypeOK, \A d \in Devices : Shown(d), current' = current, NEW f \in Devices,
         latest' = latest \/ latest' = Said(latest, heartbeat', f)
  PROVE  \A d \in Devices : Shown(d)'
<1> SUFFICES ASSUME NEW d \in Devices PROVE Shown(d)'
  OBVIOUS
<1>1. latest \in [Devices -> Events]
  BY DEF TypeOK
<1>2. /\ latest'[d].availability = latest[d].availability
      /\ latest'[d].battery = latest[d].battery
  BY <1>1, SaidEvent
<1> QED BY <1>2, StillShown

\* A success that counts makes its own heartbeat healthy, and no other.
LEMMA CommunicatedOwn ==
  ASSUME TypeOK, NEW d \in Devices, NEW at \in Int, NEW seen \in Nat, Communicated(d, at, seen)
  PROVE  /\ \A e \in Devices \ {d} : heartbeat'[e] = heartbeat[e]
         /\ ~Newer(d, at) => heartbeat' = heartbeat
         /\ Newer(d, at) => heartbeat'[d] # None /\ heartbeat'[d].status = "healthy"
<1>1. heartbeat \in [Devices -> Beats]
  BY DEF TypeOK
<1>2. CASE ~Newer(d, at)
  BY <1>2 DEF Communicated, beating
<1>3. CASE Newer(d, at)
  <2>1. heartbeat' = [heartbeat EXCEPT ![d] = [status |-> "healthy", at |-> at, seen |-> seen]]
    BY <1>3 DEF Communicated
  <2>2. heartbeat'[d] = [status |-> "healthy", at |-> at, seen |-> seen]
        /\ \A e \in Devices \ {d} : heartbeat'[e] = heartbeat[e]
    BY <1>1, <2>1
  <2>3. heartbeat'[d] \in [status : Statuses, at : Int, seen : Nat \cup {Never}]
        /\ heartbeat'[d].status = "healthy"
    BY <2>2 DEF Statuses
  <2> QED BY <1>3, <2>2, <2>3, BeatDistinct
<1> QED BY <1>2, <1>3

\* What is told of a new snapshot of device d, and of its last success if that counts.
Tells(d, available, battery, cached) ==
  /\ current' = [current EXCEPT ![d] = [at |-> reading.at, seen |-> reading.seen,
                   available |-> available, battery |-> battery, stale |-> FALSE]]
  /\ \A e \in Devices \ {d} : latest'[e] = latest[e] /\ heartbeat'[e] = heartbeat[e]
  /\ latest'[d].availability = available
  /\ latest'[d].battery = IF current[d] = None \/ current[d].stale \/ ~cached
                          THEN battery ELSE latest[d].battery
  /\ \/ heartbeat' = heartbeat /\ latest'[d].heartbeat = latest[d].heartbeat
     \/ /\ heartbeat'[d] # None /\ heartbeat'[d].status = "healthy"
        /\ latest'[d].heartbeat = "healthy"

\* A record only lets old snapshots age, or it tells a new one.
LEMMA RecordSays ==
  ASSUME TypeOK, NEW available \in BOOLEAN, NEW battery \in BOOLEAN, NEW cached \in BOOLEAN,
         NEW success \in {"none", "first", "last"},
         Record(available, battery, cached, success), NEW d \in Devices, d = reading.device
  PROVE  (Marked(Expired) /\ heartbeat' = heartbeat) \/ Tells(d, available, battery, cached)
<1> USE DEF beating
<1>1. /\ reading \in [device : Devices, at : Int, seen : Nat, by : Readers]
      /\ wall \in Int /\ now \in Nat /\ latest \in [Devices -> Events]
  BY DEF Record, TypeOK
<1>2. CASE Marked(Expired) /\ UNCHANGED <<timer, beating>>
  BY <1>2
<1>3. CASE ~(Marked(Expired) /\ UNCHANGED <<timer, beating>>)
  <2> DEFINE at == IF success = "first" THEN reading.at ELSE wall
             seen == IF success = "first" THEN reading.seen ELSE now
             said == IF success # "none" /\ Newer(d, at) THEN Said(latest, heartbeat', d)
                     ELSE latest
             spoken == IF current[d] = None \/ current[d].stale \/ ~cached
                       THEN battery ELSE latest[d].battery
  <2>1. /\ IF success = "none" THEN UNCHANGED beating ELSE Communicated(d, at, seen)
        /\ current' = [current EXCEPT ![d] = [at |-> reading.at, seen |-> reading.seen,
                         available |-> available, battery |-> battery, stale |-> FALSE]]
        /\ latest' = [said EXCEPT ![d].availability = available,
             ![d].battery = IF current[d] = None \/ current[d].stale \/ ~cached
                            THEN battery ELSE @]
    BY <1>3 DEF Record
  <2>2. at \in Int /\ seen \in Nat
    BY <1>1
  <2>3. \/ said = latest /\ heartbeat' = heartbeat
        \/ /\ said = Said(latest, heartbeat', d)
           /\ heartbeat'[d] # None /\ heartbeat'[d].status = "healthy"
           /\ \A e \in Devices \ {d} : heartbeat'[e] = heartbeat[e]
    <3> HIDE DEF at, seen
    <3>1. CASE success = "none"
      BY <2>1, <3>1
    <3>2. CASE success # "none" /\ Newer(d, at)
      BY <2>1, <2>2, <3>2, CommunicatedOwn
    <3>3. CASE success # "none" /\ ~Newer(d, at)
      BY <2>1, <2>2, <3>3, CommunicatedOwn
    <3> QED BY <3>1, <3>2, <3>3
  <2> HIDE DEF at, seen, said
  <2>4. \A e \in Devices : /\ said[e].battery = latest[e].battery
                           /\ e # d => said[e] = latest[e]
    BY <1>1, <2>3, SaidEvent
  <2>5. said \in [Devices -> Events]
    <3>1. CASE said = latest
      BY <1>1, <3>1
    <3>2. CASE said # latest
      <4>1. DOMAIN said = Devices /\ \A e \in Devices \ {d} : said[e] \in Events
        BY <1>1, <2>3, <2>4, <3>2 DEF Said
      <4>2. said[d] = [latest[d] EXCEPT !.heartbeat = Beat(heartbeat', d)]
        BY <1>1, <2>3, <3>2 DEF Said
      <4>3. Beat(heartbeat', d) = "healthy" /\ latest[d] \in Events
        BY <1>1, <2>3, <3>2 DEF Beat
      <4>4. said[d] \in Events
        BY <4>2, <4>3 DEF Events, Statuses
      <4>5. said = [e \in Devices |-> said[e]]
        BY <1>1, <2>3, <3>2 DEF Said
      <4> QED BY <4>1, <4>4, <4>5
    <3> QED BY <3>1, <3>2
  <2>6. /\ \A e \in Devices \ {d} : latest'[e] = said[e]
        /\ latest'[d] = [said[d] EXCEPT !.availability = available,
             !.battery = IF current[d] = None \/ current[d].stale \/ ~cached
                         THEN battery ELSE @]
    BY <2>1, <2>5
  <2>7. said[d] \in [availability : BOOLEAN \cup {None}, battery : BOOLEAN \cup {None},
                     heartbeat : Statuses \cup {None}]
    BY <2>5 DEF Events
  <2>8. /\ latest'[d].availability = available
        /\ latest'[d].heartbeat = said[d].heartbeat
        /\ latest'[d].battery = IF current[d] = None \/ current[d].stale \/ ~cached
                                THEN battery ELSE said[d].battery
    BY <2>6, <2>7
  <2>9. latest'[d].battery = IF current[d] = None \/ current[d].stale \/ ~cached
                             THEN battery ELSE latest[d].battery
    BY <2>8, <2>4
  <2>10. CASE said = latest /\ heartbeat' = heartbeat
    BY <2>1, <2>4, <2>6, <2>8, <2>9, <2>10 DEF Tells
  <2>11. CASE /\ said = Said(latest, heartbeat', d)
              /\ heartbeat'[d] # None /\ heartbeat'[d].status = "healthy"
              /\ \A e \in Devices \ {d} : heartbeat'[e] = heartbeat[e]
    <3>1. said[d].heartbeat = "healthy"
      <4>1. said[d].heartbeat = Beat(heartbeat', d)
        BY <1>1, <2>11, SaidEvent
      <4> QED BY <4>1, <2>11 DEF Beat
    <3> QED BY <2>1, <2>4, <2>6, <2>8, <2>9, <2>11, <3>1 DEF Tells
  <2> QED BY <2>3, <2>10, <2>11
<1> QED BY <1>2, <1>3

LEMMA RecordShows ==
  ASSUME TypeOK, \A e \in Devices : Shown(e),
         NEW available \in BOOLEAN, NEW battery \in BOOLEAN, NEW cached \in BOOLEAN,
         NEW success \in {"none", "first", "last"},
         Record(available, battery, cached, success)
  PROVE  \A e \in Devices : Shown(e)'
<1>1. reading \in [device : Devices, at : Int, seen : Nat, by : Readers]
  BY DEF Record, TypeOK
<1>d. PICK d \in Devices : d = reading.device
  BY <1>1
<1>2. CASE Marked(Expired)
  BY <1>2, MarkingShown
<1>3. CASE ~Marked(Expired)
  <2>1. /\ current' = [current EXCEPT ![d] = [at |-> reading.at, seen |-> reading.seen,
                         available |-> available, battery |-> battery, stale |-> FALSE]]
        /\ \A e \in Devices \ {d} : latest'[e] = latest[e]
        /\ latest'[d].availability = available
        /\ latest'[d].battery = IF current[d] = None \/ current[d].stale \/ ~cached
                                THEN battery ELSE latest[d].battery
    <3>1. Tells(d, available, battery, cached)
      BY <1>3, <1>d, RecordSays
    <3> QED BY <3>1 DEF Tells
  <2>2. current \in [Devices -> Snapshots]
    BY DEF TypeOK
  <2>3. ASSUME NEW e \in Devices \ {d} PROVE Shown(e)'
    BY <2>1, <2>2, StillShown
  <2>4. latest'[d].battery = battery
    <3>1. CASE current[d] = None \/ current[d].stale \/ ~cached
      BY <2>1, <3>1
    <3>2. CASE ~(current[d] = None \/ current[d].stale \/ ~cached)
      <4>1. current[d].battery /\ battery
        BY <3>2, <1>d DEF Record
      <4>2. latest[d].battery = (Fresh(d) /\ current[d].battery)
        BY <3>2 DEF Shown
      <4>3. Fresh(d)
        BY <3>2 DEF Fresh
      <4> QED BY <2>1, <3>2, <4>1, <4>2, <4>3
    <3> QED BY <3>1, <3>2
  <2>5. current'[d] = [at |-> reading.at, seen |-> reading.seen, available |-> available,
                       battery |-> battery, stale |-> FALSE]
    BY <2>1, <2>2
  <2>6. reading.at \in Int /\ reading.seen \in Nat
    BY <1>1
  <2>7. Shown(d)'
    BY <2>1, <2>4, <2>5, <2>6, RecordedShown
  <2> QED BY <2>3, <2>7
<1> QED BY <1>2, <1>3

LEMMA StepShown ==
  ASSUME TypeOK, \A e \in Devices : Shown(e), [Next]_vars
  PROVE  \A e \in Devices : Shown(e)'
<1> USE DEF clock, tasks, ageing, beating
<1>1. ASSUME UNCHANGED <<current, latest>> PROVE \A e \in Devices : Shown(e)'
  BY <1>1, StillShown
<1>2. ASSUME NEW d \in Devices,
             \/ Register(d) \/ Connect(d) \/ Disconnect(d) \/ StartsWithoutRow(d)
             \/ FindsConnected(d) \/ DisconnectStarts(d) \/ Delete(d)
             \/ \E by \in Readers : BeginRead(d, by) \/ GivesUp(d, by)
      PROVE  \A e \in Devices : Shown(e)'
  <2>1. UNCHANGED <<current, latest>>
    BY <1>2 DEF Register, Connect, Disconnect, Accept, StartsWithoutRow, FindsConnected,
                DisconnectStarts, Delete, BeginRead, GivesUp
  <2> QED BY <2>1, <1>1
<1>3. ASSUME NEW d \in Devices,
             \/ RegisterHeartbeat(d) \/ RecoveryWakes(d) \/ Initialised(d) \/ HeartbeatExpires(d)
             \/ \E reconnects \in BOOLEAN : ConnectStarts(d, reconnects)
      PROVE  \A e \in Devices : Shown(e)'
  <2>1. current' = current
    BY <1>3 DEF RegisterHeartbeat, RecoveryWakes, Initialised, HeartbeatExpires, ConnectStarts
  <2>2. latest' = latest \/ latest' = Said(latest, heartbeat', d)
    <3>1. CASE RegisterHeartbeat(d) \/ Initialised(d) \/ HeartbeatExpires(d)
      BY <3>1 DEF RegisterHeartbeat, Initialised, HeartbeatExpires
    <3>2. CASE RecoveryWakes(d) \/ \E reconnects \in BOOLEAN : ConnectStarts(d, reconnects)
      BY <3>2 DEF RecoveryWakes, ConnectStarts, Expecting
    <3> QED BY <1>3, <3>1, <3>2
  <2> QED BY <2>1, <2>2, SaidShown
<1>4. ASSUME NEW d \in Devices, SnapshotExpires(d) PROVE \A e \in Devices : Shown(e)'
  BY <1>4, MarkingShown DEF SnapshotExpires
<1>m. ASSUME NEW d \in Devices
      PROVE  /\ \A e \in Ended(d) : e \in Devices => current[e] # None
             /\ Silenced(Ended(d)) \in [Devices -> Events]
             /\ Aged(Ended(d)) \in [Devices -> Snapshots]
  <2>1. \A e \in Ended(d) : e \in Devices => current[e] # None
    BY DEF Ended, Expired, Fresh
  <2> QED BY <2>1, SilencedType, AgedType
<1>5. ASSUME NEW d \in Devices, Disconnected(d), NEW e \in Devices PROVE Shown(e)'
  <2>1. current'[e] = Aged(Ended(d))[e]
    BY <1>5 DEF Disconnected
  <2>2. latest' = Silenced(Ended(d)) \/ latest' = Said(Silenced(Ended(d)), heartbeat', d)
    BY <1>5 DEF Disconnected, Disconnecting
  <2>3. /\ latest'[e].availability = Silenced(Ended(d))[e].availability
        /\ latest'[e].battery = Silenced(Ended(d))[e].battery
    BY <2>2, <1>m, SaidEvent
  <2> QED BY <2>1, <2>3, <1>m, MarkedShown
<1>6. ASSUME NEW d \in Devices, Remove(d), NEW e \in Devices PROVE Shown(e)'
  <2>1. CASE e = d
    <3>1. current'[d] = None /\ latest'[d] = Silent
      BY <1>6, <1>m DEF Remove
    <3> QED BY <2>1, <3>1 DEF Shown, Silent
  <2>2. CASE e # d
    <3>1. current'[e] = Aged(Ended(d))[e] /\ latest'[e] = Silenced(Ended(d))[e]
      BY <1>6, <1>m, <2>2 DEF Remove
    <3> QED BY <3>1, <1>m, MarkedShown
  <2> QED BY <2>1, <2>2
<1>7. ASSUME NEW available \in BOOLEAN, NEW battery \in BOOLEAN, NEW cached \in BOOLEAN,
             NEW success \in {"none", "first", "last"},
             Record(available, battery, cached, success)
      PROVE  \A e \in Devices : Shown(e)'
  BY <1>7, RecordShows
<1>8. CASE ReadFails \/ Tick \/ SetClock \/ UNCHANGED vars
  BY <1>1, <1>8 DEF ReadFails, Tick, SetClock, vars
<1> QED BY <1>2, <1>3, <1>4, <1>5, <1>6, <1>7, <1>8 DEF Next

(***************************************************************************)
(* Requests, recoveries and polls keep the heartbeat in step with what was *)
(* accepted.                                                               *)
(***************************************************************************)
\* Whoever reads still works on the device: what stops it stops its reading.
ReadFor == reading # None => Reads(reading.device, reading.by)

\* While a disconnect takes the link down nothing connects its device again.
Stopped(d) == active[d] = "disconnecting" => recovery[d] = "none" /\ link[d] # "polling"

\* The retained heartbeat is the last one, or none before its registration publishes it.
Kept(d) ==
  IF heartbeat[d] = None THEN latest[d].heartbeat = None
  ELSE \/ latest[d].heartbeat = heartbeat[d].status
       \/ latest[d].heartbeat = None /\ heartbeat[d].status = "unknown" /\ d \in telling

\* Someone has expected an answer of device d and not ended the connection since.
Working(d) == recovery[d] # "none" \/ link[d] # "none" \/ active[d] = "expected"

\* Nothing is known of a device without a row and nothing works on it.
Absent(d) ==
  /\ active[d] = "none" /\ ~Working(d) /\ d \notin telling /\ d \notin deleting
  /\ heartbeat[d] = None /\ current[d] = None /\ latest[d] = Silent
\* The registration of device d is still to be told: no request has started.
Arriving(d) ==
  /\ ~Working(d) /\ active[d] # "disconnecting"
  /\ active[d] = "none" => desired[d] = "disconnected"
  /\ active[d] = "connect" => desired[d] = "connected"
\* The heartbeat of device d follows what the accepted requests have done.
Present(d) ==
  /\ Working(d) => Beat(heartbeat, d) # "disconnected"
  /\ active[d] = "none" => (desired[d] = "disconnected" <=> Beat(heartbeat, d) = "disconnected")
  /\ active[d] \in {"connect", "expected"} => desired[d] = "connected"

Orderly(d) ==
  IF desired[d] = None THEN Absent(d)
  ELSE heartbeat[d] # None /\ IF d \in telling THEN Arriving(d) ELSE Present(d)

Local(d) == Stopped(d) /\ Kept(d) /\ (d \notin overtaken => Orderly(d))

\* The inductive invariant.
Telling == ReadFor /\ \A d \in Devices : Shown(d) /\ Local(d)

LEMMA TellingAgrees == ASSUME TypeOK, Telling PROVE RetainedAgrees
<1> SUFFICES ASSUME NEW d \in Devices
    PROVE /\ d \notin overtaken =>
               IF desired[d] = None THEN latest[d] = Silent
               ELSE Settled(d) => latest[d].heartbeat = Rest(d)
          /\ Shown(d)
  BY DEF RetainedAgrees, Shown
<1>1. Shown(d) /\ Kept(d) /\ (d \notin overtaken => Orderly(d))
  BY DEF Telling, Local
<1>2. ASSUME d \notin overtaken, desired[d] = None PROVE latest[d] = Silent
  BY <1>1, <1>2 DEF Orderly, Absent
<1>3. ASSUME d \notin overtaken, desired[d] # None, Settled(d)
      PROVE  latest[d].heartbeat = Rest(d)
  <2>1. heartbeat[d] # None /\ Present(d) /\ d \notin telling /\ active[d] \in {"none", "expected"}
    BY <1>1, <1>3 DEF Orderly, Settled
  <2>2. latest[d].heartbeat = Beat(heartbeat, d)
    BY <2>1, <1>1 DEF Kept, Beat
  <2>3. desired[d] = "disconnected" <=> Beat(heartbeat, d) = "disconnected"
    BY <2>1 DEF Present, Working
  <2> QED BY <2>2, <2>3 DEF Rest
<1> QED BY <1>1, <1>2, <1>3

(***************************************************************************)
(* Who reads.                                                              *)
(***************************************************************************)
LEMMA StopReads ==
  ASSUME NEW d, NEW who, Stop(d, who), reading' # None
  PROVE  reading' = reading /\ (reading.device = d => reading.by \notin who)
BY DEF Stop

LEMMA StepReads ==
  ASSUME TypeOK, ReadFor, \A d \in Devices : Stopped(d), [Next]_vars
  PROVE  ReadFor'
<1> USE DEF clock, tasks, ageing, beating
<1>t. /\ active \in [Devices -> {"none", "connect", "expected", "disconnect", "disconnecting"}]
      /\ recovery \in [Devices -> {"none", "asleep", "trying"}]
      /\ link \in [Devices -> {"none", "connected", "polling"}]
      /\ reading \in [device : Devices, at : Int, seen : Nat, by : Readers] \cup {None}
  BY DEF TypeOK
<1>1. ASSUME UNCHANGED <<active, recovery, link, reading>> PROVE ReadFor'
  BY <1>1 DEF ReadFor, Reads, Attempts
<1>2. ASSUME NEW d \in Devices,
             \/ Register(d) \/ RegisterHeartbeat(d) \/ Initialised(d) \/ HeartbeatExpires(d)
             \/ SnapshotExpires(d)
      PROVE  ReadFor'
  BY <1>2, <1>1 DEF Register, RegisterHeartbeat, Initialised, HeartbeatExpires, SnapshotExpires
<1>3. ASSUME NEW d \in Devices, NEW who,
             Stop(d, who) \/ (reading' = reading /\ who = {}),
             \A e \in Devices \ {d} : /\ active'[e] = active[e] /\ recovery'[e] = recovery[e]
                                      /\ link'[e] = link[e],
             "connect" \notin who => (active[d] = "expected" => active'[d] = "expected"),
             "recovery" \notin who => (recovery[d] = "trying" => recovery'[d] = "trying"),
             "poll" \notin who => (link[d] = "polling" => link'[d] = "polling")
      PROVE  ReadFor'
  <2>1. CASE reading' = None
    BY <2>1 DEF ReadFor
  <2>2. CASE reading' # None
    <3>1. reading' = reading /\ (reading.device = d => reading.by \notin who)
      BY <1>3, <2>2, StopReads
    <3>d. PICK f, by : f = reading.device /\ by = reading.by
      OBVIOUS
    <3>2. Reads(f, by) /\ f \in Devices /\ by \in Readers
      BY <3>1, <3>d, <2>2, <1>t DEF ReadFor
    <3>3. CASE f = d
      <4>1. by \notin who
        BY <3>1, <3>d, <3>3
      <4>2. active'[d] = "expected" \/ by # "connect"
        BY <1>3, <3>2, <3>3, <4>1 DEF Reads, Attempts
      <4>3. recovery'[d] = "trying" \/ by # "recovery"
        BY <1>3, <3>2, <3>3, <4>1 DEF Reads, Attempts
      <4>4. link'[d] = "polling" \/ by # "poll"
        BY <1>3, <3>2, <3>3, <4>1 DEF Reads, Attempts
      <4>5. Reads(f, by)'
        BY <3>2, <3>3, <4>2, <4>3, <4>4 DEF Reads, Attempts, Readers
      <4> QED BY <3>1, <3>d, <4>5 DEF ReadFor
    <3>4. CASE f # d
      <4>1. active'[f] = active[f] /\ recovery'[f] = recovery[f] /\ link'[f] = link[f]
        BY <1>3, <3>2, <3>4
      <4>2. Reads(f, by)'
        BY <3>2, <4>1 DEF Reads, Attempts
      <4> QED BY <3>1, <3>d, <4>2 DEF ReadFor
    <3> QED BY <3>3, <3>4
  <2> QED BY <2>1, <2>2
<1>4. ASSUME NEW d \in Devices, Connect(d) \/ Disconnect(d) \/ StartsWithoutRow(d)
      PROVE  ReadFor'
  <2>1. /\ reading' = reading /\ UNCHANGED <<recovery, link>> /\ active[d] # "expected"
        /\ \A e \in Devices \ {d} : active'[e] = active[e]
    BY <1>4, <1>t DEF Connect, Disconnect, Accept, StartsWithoutRow, Started
  <2> QED BY <2>1, <1>3
<1>5. ASSUME NEW d \in Devices, FindsConnected(d) PROVE ReadFor'
  <2>1. /\ Stop(d, {"recovery"}) /\ UNCHANGED link /\ active[d] # "expected"
        /\ \A e \in Devices \ {d} : active'[e] = active[e] /\ recovery'[e] = recovery[e]
    BY <1>5, <1>t DEF FindsConnected, Started
  <2> QED BY <2>1, <1>3
<1>6. ASSUME NEW d \in Devices, NEW reconnects \in BOOLEAN, ConnectStarts(d, reconnects)
      PROVE  ReadFor'
  <2> DEFINE who == IF reconnects THEN {"recovery", "poll"} ELSE {"recovery"}
  <2>1. /\ Stop(d, who) /\ active'[d] = "expected"
        /\ \A e \in Devices \ {d} : active'[e] = active[e] /\ recovery'[e] = recovery[e]
    BY <1>6, <1>t DEF ConnectStarts
  <2>2. \A e \in Devices \ {d} : link'[e] = link[e]
    BY <1>6, UnpolledType DEF ConnectStarts
  <2>3. "recovery" \in who /\ "connect" \notin who
        /\ ("poll" \notin who => (link[d] = "polling" => link'[d] = "polling"))
    BY <1>6 DEF ConnectStarts
  <2> HIDE DEF who
  <2> QED BY <2>1, <2>2, <2>3, <1>3
<1>7. ASSUME NEW d \in Devices, RecoveryWakes(d) PROVE ReadFor'
  <2>1. /\ active' = active /\ recovery[d] = "asleep"
        /\ \A e \in Devices \ {d} : recovery'[e] = recovery[e]
    BY <1>7, <1>t DEF RecoveryWakes
  <2>2. CASE desired[d] = None
    <3>1. reading' = reading /\ link' = link
      BY <1>7, <2>2 DEF RecoveryWakes
    <3> QED BY <2>1, <3>1, <1>3
  <2>3. CASE desired[d] # None
    <3>1. Stop(d, {"poll"}) /\ link' = Unpolled(d)
      BY <1>7, <2>3 DEF RecoveryWakes
    <3>2. \A e \in Devices \ {d} : link'[e] = link[e]
      BY <3>1, UnpolledType
    <3> QED BY <2>1, <3>1, <3>2, <1>3
  <2> QED BY <2>2, <2>3
<1>8. ASSUME NEW d \in Devices, NEW by \in Readers, BeginRead(d, by) PROVE ReadFor'
  <2>1. reading' = [device |-> d, at |-> wall, seen |-> now, by |-> by]
        /\ Reads(d, by) /\ UNCHANGED <<active, recovery, link>>
    BY <1>8 DEF BeginRead
  <2>2. reading'.device = d /\ reading'.by = by
    BY <2>1
  <2> QED BY <2>1, <2>2 DEF ReadFor, Reads, Attempts
<1>9. ASSUME NEW d \in Devices, NEW by \in Readers, GivesUp(d, by) PROVE ReadFor'
  <2>1. Stop(d, {by})
    BY <1>9 DEF GivesUp
  <2>2. /\ \A e \in Devices \ {d} : active'[e] = active[e]
        /\ by # "connect" => active' = active
    BY <1>9, <1>t DEF GivesUp
  <2>3. /\ \A e \in Devices \ {d} : link'[e] = link[e]
        /\ by # "poll" => link' = link
    BY <1>9, UnpolledType DEF GivesUp
  <2>4. /\ \A e \in Devices \ {d} : recovery'[e] = recovery[e]
        /\ by # "recovery" => (recovery[d] = "trying" => recovery'[d] = "trying")
    <3>1. PICK next \in {"none", "asleep"} :
            recovery' = [recovery EXCEPT
                           ![d] = IF by # "recovery" /\ @ # "none" THEN @ ELSE next]
      BY <1>9 DEF GivesUp
    <3> QED BY <3>1, <1>t
  <2> QED BY <2>1, <2>2, <2>3, <2>4, <1>3
<1>10. ASSUME NEW d \in Devices, DisconnectStarts(d) PROVE ReadFor'
  <2>1. /\ Stop(d, {"recovery", "poll"}) /\ active[d] = "disconnect"
        /\ \A e \in Devices \ {d} : active'[e] = active[e] /\ recovery'[e] = recovery[e]
    BY <1>10, <1>t DEF DisconnectStarts, Started
  <2>2. \A e \in Devices \ {d} : link'[e] = link[e]
    BY <1>10, UnpolledType DEF DisconnectStarts
  <2> QED BY <2>1, <2>2, <1>3
<1>11. ASSUME NEW d \in Devices, Disconnected(d) PROVE ReadFor'
  <2>1. /\ reading' = reading /\ recovery' = recovery /\ active[d] = "disconnecting"
        /\ \A e \in Devices \ {d} : active'[e] = active[e] /\ link'[e] = link[e]
    BY <1>11, <1>t DEF Disconnected
  <2>2. link[d] # "polling"
    BY <2>1 DEF Stopped
  <2> QED BY <2>1, <2>2, <1>3
<1>12. ASSUME NEW d \in Devices, Delete(d) PROVE ReadFor'
  <2>1. /\ Stop(d, {"recovery"}) /\ UNCHANGED <<active, link>>
        /\ \A e \in Devices \ {d} : recovery'[e] = recovery[e]
    BY <1>12, <1>t DEF Delete
  <2> QED BY <2>1, <1>3
<1>13. ASSUME NEW d \in Devices, Remove(d) PROVE ReadFor'
  <2>1. /\ Stop(d, {"poll"}) /\ UNCHANGED <<active, recovery>>
        /\ \A e \in Devices \ {d} : link'[e] = link[e]
    BY <1>13, <1>t DEF Remove
  <2> QED BY <2>1, <1>3
<1>14. ASSUME NEW available \in BOOLEAN, NEW battery \in BOOLEAN, NEW cached \in BOOLEAN,
              NEW success \in {"none", "first", "last"},
              Record(available, battery, cached, success)
       PROVE  ReadFor'
  BY <1>14 DEF Record, ReadFor
<1>15. CASE ReadFails
  BY <1>15 DEF ReadFails, ReadFor
<1>16. CASE Tick \/ SetClock \/ UNCHANGED vars
  BY <1>1, <1>16 DEF Tick, SetClock, vars
<1> QED BY <1>2, <1>4, <1>5, <1>6, <1>7, <1>8, <1>9, <1>10, <1>11, <1>12, <1>13, <1>14, <1>15,
           <1>16
        DEF Next

(***************************************************************************)
(* What happens to one device.                                             *)
(***************************************************************************)
\* A step leaves the requests, tasks and heartbeat of device e alone.
Still(e) ==
  /\ desired'[e] = desired[e] /\ active'[e] = active[e] /\ recovery'[e] = recovery[e]
  /\ link'[e] = link[e] /\ heartbeat'[e] = heartbeat[e]
  /\ (e \in telling' <=> e \in telling) /\ (e \in deleting' <=> e \in deleting)
  /\ e \notin overtaken' => e \notin overtaken
  /\ latest'[e].heartbeat = latest[e].heartbeat
  /\ current[e] = None => current'[e] = None /\ latest'[e] = latest[e]

LEMMA StillLocal ==
  ASSUME NEW e \in Devices, Local(e), Still(e) PROVE Local(e)'
<1>1. Stopped(e)'
  BY DEF Local, Still, Stopped
<1>2. Kept(e)'
  BY DEF Local, Still, Kept
<1>3. ASSUME e \notin overtaken' PROVE Orderly(e)'
  <2>1. Orderly(e)
    BY <1>3 DEF Local, Still
  <2>2. CASE desired[e] = None
    BY <2>1, <2>2 DEF Still, Orderly, Absent, Working
  <2>3. CASE desired[e] # None
    BY <2>1, <2>3 DEF Still, Orderly, Arriving, Present, Working, Beat
  <2> QED BY <2>2, <2>3
<1> QED BY <1>1, <1>2, <1>3 DEF Local

\* Marking leaves what is not known unknown, and the heartbeat as it is.
LEMMA MarkedStill ==
  ASSUME TypeOK, NEW D, NEW e \in Devices, e \in D => current[e] # None
  PROVE  /\ Silenced(D)[e].heartbeat = latest[e].heartbeat
         /\ current[e] = None => Aged(D)[e] = None /\ Silenced(D)[e] = latest[e]
<1>1. Silenced(D)[e].heartbeat = latest[e].heartbeat
  BY SilencedEvent
<1>2. current[e] = None => Silenced(D)[e] = latest[e]
  BY SilencedEvent
<1>3. current[e] = None => Aged(D)[e] = None
  BY DEF Aged
<1> QED BY <1>1, <1>2, <1>3

\* After an expected answer the heartbeat is said, and not disconnected.
LEMMA ExpectingOwn ==
  ASSUME TypeOK, NEW d \in Devices, heartbeat[d] # None, Expecting(d)
  PROVE  /\ heartbeat'[d] # None
         /\ \/ heartbeat' = heartbeat /\ latest' = latest
            \/ latest'[d].heartbeat = heartbeat'[d].status
<1>1. CASE Beat(heartbeat, d) # "disconnected"
  BY <1>1 DEF Expecting
<1>2. CASE Beat(heartbeat, d) = "disconnected"
  <2>1. heartbeat' = [heartbeat EXCEPT ![d].status = Awaited(d)]
        /\ latest' = Said(latest, heartbeat', d)
    BY <1>2 DEF Expecting
  <2>2. \A status \in Statuses : [heartbeat EXCEPT ![d].status = status] \in [Devices -> Beats]
                                 /\ [heartbeat EXCEPT ![d].status = status][d].status = status
                                 /\ [heartbeat EXCEPT ![d].status = status][d] # None
    <3>1. \A status \in Statuses : [heartbeat EXCEPT ![d].status = status] \in [Devices -> Beats]
                                   /\ [heartbeat EXCEPT ![d].status = status][d].status = status
      BY StatusType
    <3>2. heartbeat[d] \in [status : Statuses, at : Int, seen : Nat \cup {Never}]
      BY StatusType DEF Statuses
    <3>3. ASSUME NEW status \in Statuses
          PROVE  [heartbeat EXCEPT ![d].status = status][d] # None
      <4>1. [heartbeat EXCEPT ![d].status = status][d] = [heartbeat[d] EXCEPT !.status = status]
        BY DEF TypeOK
      <4>2. [heartbeat[d] EXCEPT !.status = status]
              \in [status : Statuses, at : Int, seen : Nat \cup {Never}]
        BY <3>2
      <4> QED BY <4>1, <4>2, BeatDistinct
    <3> QED BY <3>1, <3>3
  <2>3. heartbeat'[d] # None
    <3>1. Awaited(d) \in Statuses
      BY DEF Awaited, Statuses
    <3> QED BY <2>1, <2>2, <3>1
  <2>4. latest'[d].heartbeat = Beat(heartbeat', d)
    BY <2>1, SaidEvent DEF TypeOK
  <2> QED BY <2>3, <2>4 DEF Beat
<1> QED BY <1>1, <1>2

LEMMA ExpectingStill ==
  ASSUME TypeOK, NEW d \in Devices, Expecting(d), NEW e \in Devices \ {d}
  PROVE  heartbeat'[e] = heartbeat[e] /\ latest'[e] = latest[e]
<1>1. heartbeat'[e] = heartbeat[e]
  BY ExpectingQuiet
<1>2. latest' = latest \/ latest' = Said(latest, heartbeat', d)
  BY DEF Expecting
<1> QED BY <1>1, <1>2, SaidEvent DEF TypeOK

\* Whoever works on a device finds it present.
LEMMA WorkingPresent ==
  ASSUME NEW d \in Devices, Orderly(d), Working(d) \/ active[d] = "disconnecting"
  PROVE  desired[d] # None /\ heartbeat[d] # None /\ d \notin telling /\ Present(d)
BY DEF Orderly, Absent, Arriving

LEMMA StartedPresent ==
  ASSUME NEW d \in Devices, Orderly(d), NEW request, Started(d, request), desired[d] # None
  PROVE  heartbeat[d] # None /\ d \notin telling /\ Present(d)
BY DEF Orderly, Started

\* Each step leaves the other devices alone and keeps its own in order.
LEMMA RequestLocal ==
  ASSUME TypeOK, NEW d \in Devices, \A e \in Devices : Local(e),
         Register(d) \/ RegisterHeartbeat(d) \/ Connect(d) \/ Disconnect(d) \/ StartsWithoutRow(d)
  PROVE  \A e \in Devices : Local(e)'
<1> USE DEF tasks
<1>t. /\ active \in [Devices -> {"none", "connect", "expected", "disconnect", "disconnecting"}]
      /\ desired \in [Devices -> Desires \cup {None}] /\ heartbeat \in [Devices -> Beats]
      /\ latest \in [Devices -> Events] /\ telling \subseteq Devices
      /\ Stopped(d) /\ Kept(d) /\ (d \notin overtaken => Orderly(d))
  BY DEF TypeOK, Local
<1>1. CASE Register(d)
  <2>1. \A e \in Devices \ {d} : Still(e)
    BY <1>1, <1>t DEF Register, Still, ageing
  <2>2. /\ active'[d] = active[d] /\ recovery'[d] = recovery[d] /\ link'[d] = link[d]
        /\ desired[d] = None /\ desired'[d] = "disconnected" /\ d \in telling'
        /\ heartbeat'[d] = (IF heartbeat[d] = None THEN Unknown ELSE heartbeat[d])
        /\ latest'[d] = latest[d] /\ overtaken' = overtaken
    BY <1>1, <1>t DEF Register
  <2>3. Unknown # None /\ Unknown.status = "unknown"
    <3>1. Unknown \in [status : Statuses, at : Int, seen : Nat \cup {Never}]
      BY DEF Unknown, Never, Statuses
    <3> QED BY <3>1, BeatDistinct DEF Unknown
  <2>4. Stopped(d)'
    BY <2>2, <1>t DEF Stopped
  <2>5. Kept(d)'
    BY <2>2, <2>3, <1>t DEF Kept
  <2>6. ASSUME d \notin overtaken' PROVE Orderly(d)'
    <3>1. Absent(d)
      BY <2>2, <2>6, <1>t DEF Orderly
    <3>2. Arriving(d)' /\ heartbeat'[d] # None
      BY <2>2, <2>3, <3>1 DEF Absent, Arriving, Working
    <3> QED BY <2>2, <3>2, NoneDistinct DEF Orderly
  <2> QED BY <2>1, <2>4, <2>5, <2>6, StillLocal DEF Local
<1>2. CASE RegisterHeartbeat(d)
  <2> DEFINE beat == IF heartbeat[d] = None THEN Unknown ELSE heartbeat[d]
  <2>1. /\ \A e \in Devices \ {d} : heartbeat'[e] = heartbeat[e]
        /\ heartbeat'[d] # None /\ heartbeat'[d].status = "disconnected"
        /\ Beat(heartbeat', d) = "disconnected"
    BY <1>2, RegisteredQuiet
  <2>2. latest' = IF beat.status = "disconnected" /\ latest[d].heartbeat # None
                  THEN latest ELSE Said(latest, heartbeat', d)
    BY <1>2 DEF RegisterHeartbeat
  <2>3. /\ UNCHANGED <<desired, active, recovery, link, deleting, overtaken, current>>
        /\ telling' = telling \ {d} /\ d \in telling
    BY <1>2 DEF RegisterHeartbeat, ageing
  <2>4. \A e \in Devices \ {d} : latest'[e] = latest[e]
    BY <2>2, <1>t, SaidEvent
  <2>5. \A e \in Devices \ {d} : Still(e)
    BY <2>1, <2>3, <2>4 DEF Still
  <2>6. latest'[d].heartbeat = "disconnected"
    <3>1. CASE beat.status = "disconnected" /\ latest[d].heartbeat # None
      <4>1. heartbeat[d] # None
        BY <3>1 DEF Unknown
      <4>2. latest[d].heartbeat = heartbeat[d].status
        BY <3>1, <4>1, <1>t DEF Kept
      <4> QED BY <2>2, <3>1, <4>1, <4>2
    <3>2. CASE ~(beat.status = "disconnected" /\ latest[d].heartbeat # None)
      <4>1. latest' = Said(latest, heartbeat', d)
        BY <2>2, <3>2
      <4> QED BY <4>1, <2>1, <1>t, SaidEvent
    <3> QED BY <3>1, <3>2
  <2> HIDE DEF beat
  <2>7. Stopped(d)' /\ Kept(d)'
    BY <2>1, <2>3, <2>6, <1>t DEF Stopped, Kept
  <2>8. ASSUME d \notin overtaken' PROVE Orderly(d)'
    <3>1. desired[d] # None /\ Arriving(d)
      BY <2>3, <2>8, <1>t DEF Orderly, Absent
    <3>2. Present(d)'
      BY <2>1, <2>3, <3>1, <1>t DEF Arriving, Present, Working
    <3> QED BY <2>1, <2>3, <3>1, <3>2 DEF Orderly
  <2> QED BY <2>5, <2>7, <2>8, StillLocal DEF Local
<1>3. CASE Connect(d) \/ Disconnect(d)
  <2>1. PICK request \in {"connect", "disconnect"}, state \in Desires :
          /\ Accept(d, request, state)
          /\ request = "connect" => state = "connected"
    BY <1>3 DEF Connect, Disconnect, Desires
  <2>2. /\ desired[d] # None /\ desired' = Written(d, state)
        /\ active[d] = "none" /\ active' = [active EXCEPT ![d] = request]
        /\ UNCHANGED <<telling, recovery, link, deleting, overtaken, current, heartbeat, latest>>
    BY <2>1 DEF Accept, ageing, beating
  <2>3. desired'[d] = state /\ \A e \in Devices \ {d} : desired'[e] = desired[e]
    BY <2>2, WrittenType
  <2>4. \A e \in Devices \ {d} : Still(e)
    BY <2>2, <2>3, <1>t DEF Still
  <2>5. active'[d] = request
    BY <2>2, <1>t
  <2>6. Stopped(d)' /\ Kept(d)'
    BY <2>2, <2>5, <1>t DEF Stopped, Kept
  <2>7. ASSUME d \notin overtaken' PROVE Orderly(d)'
    <3>1. Orderly(d) /\ desired'[d] # None
      BY <2>2, <2>3, <2>7, <1>t, NoneDistinct, NoneAssumption DEF Desires
    <3>2. heartbeat'[d] # None
      BY <2>2, <3>1 DEF Orderly
    <3>3. CASE d \in telling
      <4>1. Arriving(d)
        BY <2>2, <3>1, <3>3 DEF Orderly
      <4>2. Arriving(d)'
        BY <2>1, <2>2, <2>3, <2>5, <4>1 DEF Arriving, Working
      <4> QED BY <2>2, <3>1, <3>2, <3>3, <4>2 DEF Orderly
    <3>4. CASE d \notin telling
      <4>1. Present(d)
        BY <2>2, <3>1, <3>4 DEF Orderly
      <4>2. Present(d)'
        BY <2>1, <2>2, <2>3, <2>5, <4>1 DEF Present, Working, Beat
      <4> QED BY <2>2, <3>1, <3>2, <3>4, <4>2 DEF Orderly
    <3> QED BY <3>3, <3>4
  <2> QED BY <2>4, <2>6, <2>7, StillLocal DEF Local
<1>4. CASE StartsWithoutRow(d)
  <2>1. /\ active[d] \in {"connect", "disconnect"} /\ desired[d] = None
        /\ active' = [active EXCEPT ![d] = "none"]
        /\ UNCHANGED <<desired, telling, recovery, link, deleting, overtaken, current, heartbeat,
                       latest>>
    BY <1>4 DEF StartsWithoutRow, Started, ageing, beating
  <2>2. \A e \in Devices \ {d} : Still(e)
    BY <2>1, <1>t DEF Still
  <2>3. active'[d] = "none"
    BY <2>1, <1>t
  <2>4. Stopped(d)' /\ Kept(d)'
    BY <2>1, <2>3, <1>t DEF Stopped, Kept
  <2>5. d \in overtaken'
    BY <2>1, <1>t DEF Orderly, Absent
  <2> QED BY <2>2, <2>4, <2>5, StillLocal DEF Local
<1> QED BY <1>1, <1>2, <1>3, <1>4

LEMMA AttemptLocal ==
  ASSUME TypeOK, NEW d \in Devices, \A e \in Devices : Local(e),
         \/ FindsConnected(d) \/ \E reconnects \in BOOLEAN : ConnectStarts(d, reconnects)
         \/ RecoveryWakes(d) \/ Initialised(d) \/ \E by \in Readers : GivesUp(d, by)
  PROVE  \A e \in Devices : Local(e)'
<1> USE DEF tasks
<1>t. /\ active \in [Devices -> {"none", "connect", "expected", "disconnect", "disconnecting"}]
      /\ recovery \in [Devices -> {"none", "asleep", "trying"}]
      /\ link \in [Devices -> {"none", "connected", "polling"}]
      /\ desired \in [Devices -> Desires \cup {None}] /\ heartbeat \in [Devices -> Beats]
      /\ latest \in [Devices -> Events]
      /\ Stopped(d) /\ Kept(d) /\ (d \notin overtaken => Orderly(d))
  BY DEF TypeOK, Local
<1>1. CASE FindsConnected(d)
  <2>1. /\ Started(d, "connect") /\ active[d] = "connect" /\ desired[d] # None /\ link[d] # "none"
        /\ active' = [active EXCEPT ![d] = "none"]
        /\ recovery' = [recovery EXCEPT ![d] = "none"]
        /\ UNCHANGED <<desired, telling, link, deleting, overtaken, current, heartbeat, latest>>
    BY <1>1 DEF FindsConnected, Started, ageing, beating
  <2>2. \A e \in Devices \ {d} : Still(e)
    BY <2>1, <1>t DEF Still
  <2>3. active'[d] = "none" /\ recovery'[d] = "none"
    BY <2>1, <1>t
  <2>4. Stopped(d)' /\ Kept(d)'
    BY <2>1, <2>3, <1>t DEF Stopped, Kept
  <2>5. ASSUME d \notin overtaken' PROVE Orderly(d)'
    <3>1. heartbeat[d] # None /\ d \notin telling /\ Present(d)
      BY <2>1, <2>5, <1>t, StartedPresent
    <3>2. Present(d)'
      BY <2>1, <2>3, <3>1, NoneDistinct DEF Present, Working, Beat
    <3> QED BY <2>1, <3>1, <3>2 DEF Orderly
  <2> QED BY <2>2, <2>4, <2>5, StillLocal DEF Local
<1>2. ASSUME NEW reconnects \in BOOLEAN, ConnectStarts(d, reconnects)
      PROVE  \A e \in Devices : Local(e)'
  <2>1. /\ Started(d, "connect") /\ active[d] = "connect" /\ desired[d] # None
        /\ active' = [active EXCEPT ![d] = "expected"]
        /\ recovery' = [recovery EXCEPT ![d] = "none"]
        /\ link' = Unpolled(d) \/ link' = link
        /\ Expecting(d)
        /\ UNCHANGED <<desired, telling, deleting, overtaken, current>>
    BY <1>2 DEF ConnectStarts, Started, ageing
  <2>2. \A e \in Devices \ {d} : Still(e)
    <3>1. \A e \in Devices \ {d} : link'[e] = link[e]
      BY <2>1, UnpolledType
    <3>2. \A e \in Devices \ {d} : heartbeat'[e] = heartbeat[e] /\ latest'[e] = latest[e]
      BY <2>1, ExpectingStill
    <3>3. \A e \in Devices \ {d} : active'[e] = active[e] /\ recovery'[e] = recovery[e]
      BY <2>1, <1>t
    <3> QED BY <2>1, <3>1, <3>2, <3>3 DEF Still
  <2>3. active'[d] = "expected" /\ recovery'[d] = "none"
    BY <2>1, <1>t
  <2>4. Beat(heartbeat', d) # "disconnected"
    BY <2>1, ExpectingQuiet
  <2>5. Kept(d)'
    <3>1. CASE heartbeat[d] = None
      <4>1. heartbeat' = heartbeat /\ latest' = latest
        BY <2>1, <3>1, NoneDistinct DEF Expecting, Beat
      <4> QED BY <4>1, <2>1, <1>t DEF Kept
    <3>2. CASE heartbeat[d] # None
      BY <3>2, <2>1, <1>t, ExpectingOwn DEF Kept
    <3> QED BY <3>1, <3>2
  <2>6. Stopped(d)'
    BY <2>3 DEF Stopped
  <2>7. ASSUME d \notin overtaken' PROVE Orderly(d)'
    <3>1. heartbeat[d] # None /\ d \notin telling /\ Present(d)
      BY <2>1, <2>7, <1>t, StartedPresent
    <3>2. desired'[d] = "connected"
      BY <2>1, <3>1 DEF Present
    <3>3. Present(d)'
      BY <2>3, <2>4, <3>2 DEF Present
    <3>4. heartbeat'[d] # None
      BY <2>1, <3>1, ExpectingOwn
    <3> QED BY <2>1, <3>1, <3>3, <3>4 DEF Orderly
  <2> QED BY <2>2, <2>5, <2>6, <2>7, StillLocal DEF Local
<1>3. CASE RecoveryWakes(d)
  <2>1. /\ recovery[d] = "asleep"
        /\ UNCHANGED <<desired, telling, active, deleting, overtaken, current>>
    BY <1>3 DEF RecoveryWakes, ageing
  <2>s. active[d] # "disconnecting"
    BY <2>1, <1>t DEF Stopped
  <2>2. CASE desired[d] = None
    <3>1. /\ recovery' = [recovery EXCEPT ![d] = "none"]
          /\ UNCHANGED <<link, heartbeat, latest>>
      BY <1>3, <2>2 DEF RecoveryWakes
    <3>2. \A e \in Devices \ {d} : Still(e)
      BY <2>1, <3>1, <1>t DEF Still
    <3>3. Stopped(d)' /\ Kept(d)'
      BY <2>1, <2>s, <3>1, <1>t DEF Stopped, Kept
    <3>4. d \in overtaken'
      BY <2>1, <2>2, <1>t DEF Orderly, Absent, Working
    <3> QED BY <3>2, <3>3, <3>4, StillLocal DEF Local
  <2>3. CASE desired[d] # None
    <3>1. /\ recovery' = [recovery EXCEPT ![d] = "trying"]
          /\ link' = Unpolled(d) /\ Expecting(d)
      BY <1>3, <2>3 DEF RecoveryWakes
    <3>2. \A e \in Devices \ {d} : Still(e)
      <4>1. \A e \in Devices \ {d} : link'[e] = link[e]
        BY <3>1, UnpolledType
      <4>2. \A e \in Devices \ {d} : heartbeat'[e] = heartbeat[e] /\ latest'[e] = latest[e]
        BY <3>1, ExpectingStill
      <4>3. \A e \in Devices \ {d} : recovery'[e] = recovery[e]
        BY <3>1, <1>t
      <4> QED BY <2>1, <4>1, <4>2, <4>3 DEF Still
    <3>3. Stopped(d)'
      BY <2>1, <2>s DEF Stopped
    <3>4. Kept(d)'
      <4>1. CASE heartbeat[d] = None
        <5>1. heartbeat' = heartbeat /\ latest' = latest
          BY <3>1, <4>1, NoneDistinct DEF Expecting, Beat
        <5> QED BY <5>1, <2>1, <1>t DEF Kept
      <4>2. CASE heartbeat[d] # None
        BY <4>2, <2>1, <3>1, <1>t, ExpectingOwn DEF Kept
      <4> QED BY <4>1, <4>2
    <3>5. ASSUME d \notin overtaken' PROVE Orderly(d)'
      <4>1. heartbeat[d] # None /\ d \notin telling /\ Present(d)
        BY <2>1, <3>5, <1>t, WorkingPresent DEF Working
      <4>2. Beat(heartbeat, d) # "disconnected"
        BY <2>1, <4>1 DEF Present, Working
      <4>3. heartbeat' = heartbeat
        BY <3>1, <4>2 DEF Expecting
      <4>4. Present(d)'
        BY <2>1, <4>1, <4>2, <4>3 DEF Present, Beat
      <4> QED BY <2>1, <2>3, <4>1, <4>3, <4>4 DEF Orderly
    <3> QED BY <3>2, <3>3, <3>4, <3>5, StillLocal DEF Local
  <2> QED BY <2>2, <2>3
<1>4. CASE Initialised(d)
  <2>1. /\ recovery[d] = "trying" \/ active[d] = "expected"
        /\ Communicated(d, wall, now)
        /\ latest' = IF Newer(d, wall) THEN Said(latest, heartbeat', d) ELSE latest
        /\ UNCHANGED <<desired, telling, active, recovery, link, deleting, overtaken, current>>
    BY <1>4 DEF Initialised, Attempts, ageing
  <2>2. wall \in Int /\ now \in Nat
    BY DEF TypeOK
  <2>3. /\ \A e \in Devices \ {d} : heartbeat'[e] = heartbeat[e]
        /\ ~Newer(d, wall) => heartbeat' = heartbeat
        /\ Newer(d, wall) => heartbeat'[d] # None /\ heartbeat'[d].status = "healthy"
    BY <2>1, <2>2, CommunicatedOwn
  <2>4. \A e \in Devices \ {d} : latest'[e] = latest[e]
    BY <2>1, <1>t, SaidEvent
  <2>5. \A e \in Devices \ {d} : Still(e)
    BY <2>1, <2>3, <2>4 DEF Still
  <2>6. Newer(d, wall) => latest'[d].heartbeat = Beat(heartbeat', d)
    BY <2>1, <1>t, SaidEvent
  <2>7. Stopped(d)' /\ Kept(d)'
    <3>1. CASE Newer(d, wall)
      BY <2>1, <2>3, <2>6, <3>1, <1>t DEF Stopped, Kept, Beat
    <3>2. CASE ~Newer(d, wall)
      BY <2>1, <2>3, <3>2, <1>t DEF Stopped, Kept
    <3> QED BY <3>1, <3>2
  <2>8. ASSUME d \notin overtaken' PROVE Orderly(d)'
    <3>1. desired[d] # None /\ heartbeat[d] # None /\ d \notin telling /\ Present(d)
      BY <2>1, <2>8, <1>t, WorkingPresent DEF Working
    <3>2. Beat(heartbeat, d) # "disconnected"
      BY <2>1, <3>1 DEF Present, Working
    <3>3. Beat(heartbeat', d) # "disconnected" /\ heartbeat'[d] # None
      BY <2>3, <3>1, <3>2 DEF Beat
    <3>4. Present(d)'
      BY <2>1, <3>1, <3>2, <3>3 DEF Present
    <3> QED BY <2>1, <3>1, <3>3, <3>4 DEF Orderly
  <2> QED BY <2>5, <2>7, <2>8, StillLocal DEF Local
<1>5. ASSUME NEW by \in Readers, GivesUp(d, by) PROVE \A e \in Devices : Local(e)'
  <2>1. /\ Reads(d, by)
        /\ UNCHANGED <<desired, telling, deleting, overtaken, current, heartbeat, latest>>
    BY <1>5 DEF GivesUp, ageing, beating
  <2>2. /\ \A e \in Devices \ {d} : active'[e] = active[e]
        /\ active'[d] = IF by = "connect" THEN "none" ELSE active[d]
    BY <1>5, <1>t DEF GivesUp
  <2>3. \A e \in Devices \ {d} : link'[e] = link[e] /\ recovery'[e] = recovery[e]
    <3>1. \A e \in Devices \ {d} : link'[e] = link[e]
      BY <1>5, UnpolledType DEF GivesUp
    <3>2. \A e \in Devices \ {d} : recovery'[e] = recovery[e]
      BY <1>5, <1>t DEF GivesUp
    <3> QED BY <3>1, <3>2
  <2>4. \A e \in Devices \ {d} : Still(e)
    BY <2>1, <2>2, <2>3 DEF Still
  <2>5. Working(d) /\ active[d] # "disconnecting"
    BY <2>1, <1>t DEF Reads, Attempts, Working, Stopped
  <2>6. Stopped(d)' /\ Kept(d)'
    BY <2>1, <2>2, <2>5, <1>t DEF Stopped, Kept
  <2>7. ASSUME d \notin overtaken' PROVE Orderly(d)'
    <3>1. desired[d] # None /\ heartbeat[d] # None /\ d \notin telling /\ Present(d)
      BY <2>1, <2>5, <2>7, <1>t, WorkingPresent
    <3>2. Beat(heartbeat, d) # "disconnected"
      BY <2>5, <3>1 DEF Present
    <3>3. active[d] = "expected" => desired[d] = "connected"
      BY <3>1 DEF Present
    <3>4. by = "connect" => active[d] = "expected"
      BY <2>1 DEF Reads, Attempts
    <3>5. Present(d)'
      BY <2>1, <2>2, <3>1, <3>2, <3>3, <3>4 DEF Present, Beat
    <3> QED BY <2>1, <3>1, <3>5 DEF Orderly
  <2> QED BY <2>4, <2>6, <2>7, StillLocal DEF Local
<1> QED BY <1>1, <1>2, <1>3, <1>4, <1>5

LEMMA EndLocal ==
  ASSUME TypeOK, NEW d \in Devices, \A e \in Devices : Local(e),
         \/ DisconnectStarts(d) \/ Disconnected(d) \/ Delete(d) \/ Remove(d)
         \/ HeartbeatExpires(d) \/ SnapshotExpires(d)
  PROVE  \A e \in Devices : Local(e)'
<1> USE DEF tasks
<1>t. /\ active \in [Devices -> {"none", "connect", "expected", "disconnect", "disconnecting"}]
      /\ recovery \in [Devices -> {"none", "asleep", "trying"}]
      /\ link \in [Devices -> {"none", "connected", "polling"}]
      /\ desired \in [Devices -> Desires \cup {None}] /\ heartbeat \in [Devices -> Beats]
      /\ latest \in [Devices -> Events] /\ deleting \subseteq Devices
      /\ Stopped(d) /\ Kept(d) /\ (d \notin overtaken => Orderly(d))
  BY DEF TypeOK, Local
<1>m. /\ \A e \in Devices : e \in Ended(d) => current[e] # None
      /\ \A e \in Devices : e \in Expired => current[e] # None
      /\ Aged(Ended(d)) \in [Devices -> Snapshots]
      /\ Silenced(Ended(d)) \in [Devices -> Events]
  <2>1. \A e \in Devices : e \in Ended(d) => current[e] # None
    BY DEF Ended, Expired, Fresh
  <2>2. \A e \in Devices : e \in Expired => current[e] # None
    BY DEF Expired, Fresh
  <2> QED BY <2>1, <2>2, AgedType, SilencedType
<1>1. CASE DisconnectStarts(d)
  <2>1. /\ Started(d, "disconnect") /\ desired[d] # None
        /\ active' = [active EXCEPT ![d] = "disconnecting"]
        /\ recovery' = [recovery EXCEPT ![d] = "none"]
        /\ link' = Unpolled(d)
        /\ UNCHANGED <<desired, telling, deleting, overtaken, current, heartbeat, latest>>
    BY <1>1 DEF DisconnectStarts, ageing, beating
  <2>2. \A e \in Devices \ {d} : Still(e)
    <3>1. \A e \in Devices \ {d} : link'[e] = link[e]
      BY <2>1, UnpolledType
    <3>2. \A e \in Devices \ {d} : active'[e] = active[e] /\ recovery'[e] = recovery[e]
      BY <2>1, <1>t
    <3> QED BY <2>1, <3>1, <3>2 DEF Still
  <2>3. /\ active'[d] = "disconnecting" /\ recovery'[d] = "none"
        /\ link'[d] # "polling" /\ (link'[d] # "none" => link[d] # "none")
    BY <2>1, <1>t, UnpolledType
  <2>4. Stopped(d)' /\ Kept(d)'
    BY <2>1, <2>3, <1>t DEF Stopped, Kept
  <2>5. ASSUME d \notin overtaken' PROVE Orderly(d)'
    <3>1. heartbeat[d] # None /\ d \notin telling /\ Present(d)
      BY <2>1, <2>5, <1>t, StartedPresent
    <3>2. Present(d)'
      BY <2>1, <2>3, <3>1 DEF Present, Working, Beat
    <3> QED BY <2>1, <3>1, <3>2 DEF Orderly
  <2> QED BY <2>2, <2>4, <2>5, StillLocal DEF Local
<1>2. CASE Disconnected(d)
  <2>1. /\ active[d] = "disconnecting"
        /\ active' = [active EXCEPT ![d] = "none"]
        /\ link' = [link EXCEPT ![d] = "none"]
        /\ current' = Aged(Ended(d))
        /\ Disconnecting(d, Silenced(Ended(d)))
        /\ desired' = Written(d, "disconnected")
        /\ UNCHANGED <<telling, recovery, deleting, overtaken>>
    BY <1>2 DEF Disconnected
  <2>2. \A e \in Devices \ {d} : Still(e)
    <3>1. ASSUME NEW e \in Devices \ {d} PROVE heartbeat'[e] = heartbeat[e]
      BY <2>1, DisconnectingQuiet
    <3>2. ASSUME NEW e \in Devices \ {d} PROVE latest'[e] = Silenced(Ended(d))[e]
      <4>1. \/ latest' = Silenced(Ended(d))
            \/ latest' = Said(Silenced(Ended(d)), heartbeat', d)
        BY <2>1 DEF Disconnecting
      <4> QED BY <4>1, <1>m, SaidEvent
    <3>3. ASSUME NEW e \in Devices \ {d}
          PROVE  active'[e] = active[e] /\ link'[e] = link[e]
      BY <2>1, <1>t
    <3>4. ASSUME NEW e \in Devices \ {d} PROVE desired'[e] = desired[e]
      <4>1. "disconnected" \in Desires
        BY DEF Desires
      <4> QED BY <2>1, <4>1, WrittenType
    <3>5. ASSUME NEW e \in Devices \ {d}
          PROVE  /\ Silenced(Ended(d))[e].heartbeat = latest[e].heartbeat
                 /\ current[e] = None => Aged(Ended(d))[e] = None
                                         /\ Silenced(Ended(d))[e] = latest[e]
      BY <1>m, MarkedStill
    <3> QED BY <2>1, <3>1, <3>2, <3>3, <3>4, <3>5 DEF Still
  <2>3. /\ active'[d] = "none" /\ link'[d] = "none" /\ recovery'[d] = "none"
        /\ desired'[d] = (IF desired[d] = None THEN None ELSE "disconnected")
    <3>1. active'[d] = "none" /\ link'[d] = "none" /\ recovery'[d] = "none"
      BY <2>1, <1>t DEF Stopped
    <3>2. "disconnected" \in Desires
      BY DEF Desires
    <3> QED BY <2>1, <3>1, <3>2, WrittenType
  <2>4. /\ heartbeat[d] = None => heartbeat'[d] = None
        /\ heartbeat[d] # None => heartbeat'[d] # None /\ heartbeat'[d].status = "disconnected"
    BY <2>1, <1>m, DisconnectingQuiet
  <2>5. Kept(d)'
    <3>1. Silenced(Ended(d))[d].heartbeat = latest[d].heartbeat
      BY SilencedEvent
    <3>2. CASE heartbeat[d] = None
      <4>1. latest'[d].heartbeat = None
        BY <2>1, <3>1, <3>2, <1>t DEF Disconnecting, Kept
      <4> QED BY <2>4, <3>2, <4>1 DEF Kept
    <3>3. CASE heartbeat[d] # None /\ heartbeat[d].status = "disconnected"
      <4>1. latest'[d].heartbeat = "disconnected"
        BY <2>1, <3>1, <3>3, <1>t DEF Disconnecting, Kept
      <4> QED BY <2>4, <3>3, <4>1 DEF Kept
    <3>4. CASE heartbeat[d] # None /\ heartbeat[d].status # "disconnected"
      <4>1. latest'[d].heartbeat = Beat(heartbeat', d)
        BY <2>1, <3>4, <1>m, SaidEvent DEF Disconnecting
      <4> QED BY <2>4, <3>4, <4>1 DEF Kept, Beat
    <3> QED BY <3>2, <3>3, <3>4
  <2>6. Stopped(d)'
    BY <2>3 DEF Stopped
  <2>7. ASSUME d \notin overtaken' PROVE Orderly(d)'
    <3>1. desired[d] # None /\ heartbeat[d] # None /\ d \notin telling
      BY <2>1, <2>7, <1>t, WorkingPresent
    <3>2. Present(d)'
      BY <2>3, <2>4, <3>1 DEF Present, Working, Beat
    <3> QED BY <2>1, <2>3, <2>4, <3>1, <3>2, NoneDistinct DEF Orderly
  <2> QED BY <2>2, <2>5, <2>6, <2>7, StillLocal DEF Local
<1>3. CASE Delete(d)
  <2>1. /\ desired[d] # None /\ active[d] = "none"
        /\ deleting' = deleting \cup {d}
        /\ recovery' = [recovery EXCEPT ![d] = "none"]
        /\ UNCHANGED <<desired, telling, active, link, overtaken, current, heartbeat, latest>>
    BY <1>3 DEF Delete, ageing, beating
  <2>2. \A e \in Devices \ {d} : Still(e)
    BY <2>1, <1>t DEF Still
  <2>3. recovery'[d] = "none"
    BY <2>1, <1>t
  <2>4. Stopped(d)' /\ Kept(d)'
    BY <2>1, <1>t DEF Stopped, Kept
  <2>5. ASSUME d \notin overtaken' PROVE Orderly(d)'
    BY <2>1, <2>3, <2>5, <1>t DEF Orderly, Arriving, Present, Working, Beat
  <2> QED BY <2>2, <2>4, <2>5, StillLocal DEF Local
<1>4. CASE Remove(d)
  <2>1. /\ deleting' = deleting \ {d} /\ link' = [link EXCEPT ![d] = "none"]
        /\ desired' = [desired EXCEPT ![d] = None]
        /\ overtaken' = IF d \in telling \/ active[d] # "none" \/ recovery[d] # "none"
                        THEN overtaken \cup {d} ELSE overtaken
        /\ current' = [Aged(Ended(d)) EXCEPT ![d] = None]
        /\ heartbeat' = [heartbeat EXCEPT ![d] = None]
        /\ latest' = [Silenced(Ended(d)) EXCEPT ![d] = Silent]
        /\ UNCHANGED <<telling, active, recovery>>
    BY <1>4 DEF Remove
  <2>2. \A e \in Devices \ {d} : Still(e)
    <3>1. ASSUME NEW e \in Devices \ {d}
          PROVE  current'[e] = Aged(Ended(d))[e] /\ latest'[e] = Silenced(Ended(d))[e]
      BY <2>1, <1>m
    <3>2. ASSUME NEW e \in Devices \ {d}
          PROVE  link'[e] = link[e] /\ desired'[e] = desired[e] /\ heartbeat'[e] = heartbeat[e]
      BY <2>1, <1>t
    <3>3. ASSUME NEW e \in Devices \ {d}
          PROVE  /\ Silenced(Ended(d))[e].heartbeat = latest[e].heartbeat
                 /\ current[e] = None => Aged(Ended(d))[e] = None
                                         /\ Silenced(Ended(d))[e] = latest[e]
      BY <1>m, MarkedStill
    <3>4. ASSUME NEW e \in Devices \ {d}
          PROVE  (e \in deleting' <=> e \in deleting) /\ (e \notin overtaken' => e \notin overtaken)
      BY <2>1
    <3> QED BY <2>1, <3>1, <3>2, <3>3, <3>4 DEF Still
  <2>3. /\ link'[d] = "none" /\ desired'[d] = None /\ heartbeat'[d] = None
        /\ current'[d] = None /\ latest'[d] = Silent /\ d \notin deleting'
    BY <2>1, <1>t, <1>m
  <2>4. Kept(d)'
    BY <2>3 DEF Kept, Silent
  <2>5. Stopped(d)'
    BY <2>1, <2>3, <1>t DEF Stopped
  <2>6. ASSUME d \notin overtaken' PROVE Orderly(d)'
    <3>1. d \notin telling /\ active[d] = "none" /\ recovery[d] = "none"
      BY <2>1, <2>6
    <3> QED BY <2>1, <2>3, <3>1 DEF Orderly, Absent, Working
  <2> QED BY <2>2, <2>4, <2>5, <2>6, StillLocal DEF Local
<1>5. CASE HeartbeatExpires(d)
  <2>1. UNCHANGED <<desired, telling, active, recovery, link, deleting, overtaken, current>>
    BY <1>5 DEF HeartbeatExpires, ageing
  <2>2. CASE UNCHANGED <<heartbeat, latest>>
    <3>1. \A e \in Devices : Still(e)
      BY <2>1, <2>2 DEF Still
    <3> QED BY <3>1, StillLocal
  <2>3. CASE ~UNCHANGED <<heartbeat, latest>>
    <3>1. /\ Beat(heartbeat, d) = "healthy"
          /\ heartbeat' = [heartbeat EXCEPT ![d].status = "stale"]
          /\ latest' = Said(latest, heartbeat', d)
      BY <1>5, <2>3 DEF HeartbeatExpires
    <3>2. heartbeat[d] # None
      BY <3>1, HeartbeatThere
    <3>3. heartbeat'[d] # None /\ heartbeat'[d].status = "stale"
      <4>1. heartbeat[d] \in [status : Statuses, at : Int, seen : Nat \cup {Never}]
        BY <3>2, <1>t DEF Beats
      <4>2. heartbeat'[d] = [heartbeat[d] EXCEPT !.status = "stale"]
        BY <3>1, <1>t
      <4>3. heartbeat'[d] \in [status : Statuses, at : Int, seen : Nat \cup {Never}]
            /\ heartbeat'[d].status = "stale"
        BY <4>1, <4>2 DEF Statuses
      <4> QED BY <4>3, BeatDistinct
    <3>4. \A e \in Devices \ {d} : heartbeat'[e] = heartbeat[e] /\ latest'[e] = latest[e]
      BY <3>1, <1>t, SaidEvent
    <3>5. \A e \in Devices \ {d} : Still(e)
      BY <2>1, <3>4 DEF Still
    <3>6. latest'[d].heartbeat = Beat(heartbeat', d)
      BY <3>1, <1>t, SaidEvent
    <3>7. Stopped(d)' /\ Kept(d)'
      BY <2>1, <3>3, <3>6, <1>t DEF Stopped, Kept, Beat
    <3>8. ASSUME d \notin overtaken' PROVE Orderly(d)'
      <4>1. Orderly(d) /\ desired[d] # None
        BY <2>1, <3>2, <3>8, <1>t DEF Orderly, Absent
      <4>2. Beat(heartbeat', d) # "disconnected" /\ Beat(heartbeat, d) # "disconnected"
        BY <3>1, <3>3 DEF Beat
      <4>3. CASE d \in telling
        <5>1. Arriving(d)'
          BY <2>1, <4>1, <4>3 DEF Orderly, Arriving, Working
        <5> QED BY <2>1, <3>3, <4>1, <4>3, <5>1 DEF Orderly
      <4>4. CASE d \notin telling
        <5>1. Present(d)'
          BY <2>1, <4>1, <4>2, <4>4 DEF Orderly, Present
        <5> QED BY <2>1, <3>3, <4>1, <4>4, <5>1 DEF Orderly
      <4> QED BY <4>3, <4>4
    <3> QED BY <3>5, <3>7, <3>8, StillLocal DEF Local
  <2> QED BY <2>2, <2>3
<1>6. CASE SnapshotExpires(d)
  <2>1. UNCHANGED <<desired, telling, active, recovery, link, deleting, overtaken, heartbeat>>
    BY <1>6 DEF SnapshotExpires, beating
  <2>2. PICK D \in {Expired, {}} : Marked(D)
    BY <1>6 DEF SnapshotExpires
  <2>3. ASSUME NEW e \in Devices PROVE Still(e)
    <3>1. e \in D => current[e] # None
      BY <2>2, <1>m
    <3>2. /\ Silenced(D)[e].heartbeat = latest[e].heartbeat
          /\ current[e] = None => Aged(D)[e] = None /\ Silenced(D)[e] = latest[e]
      BY <3>1, MarkedStill
    <3> QED BY <2>1, <2>2, <3>2 DEF Still, Marked
  <2> QED BY <2>3, StillLocal
<1> QED BY <1>1, <1>2, <1>3, <1>4, <1>5, <1>6

LEMMA RecordLocal ==
  ASSUME TypeOK, ReadFor, \A e \in Devices : Local(e),
         NEW available \in BOOLEAN, NEW battery \in BOOLEAN, NEW cached \in BOOLEAN,
         NEW success \in {"none", "first", "last"},
         Record(available, battery, cached, success)
  PROVE  \A e \in Devices : Local(e)'
<1>1. /\ reading \in [device : Devices, at : Int, seen : Nat, by : Readers] /\ reading # None
      /\ UNCHANGED <<telling, deleting, overtaken>>
  BY DEF Record, TypeOK
<1>d. PICK d \in Devices, by \in Readers : d = reading.device /\ by = reading.by
  BY <1>1
<1>t. /\ active \in [Devices -> {"none", "connect", "expected", "disconnect", "disconnecting"}]
      /\ recovery \in [Devices -> {"none", "asleep", "trying"}]
      /\ link \in [Devices -> {"none", "connected", "polling"}]
      /\ desired \in [Devices -> Desires \cup {None}] /\ current \in [Devices -> Snapshots]
      /\ Stopped(d) /\ Kept(d) /\ (d \notin overtaken => Orderly(d))
  BY DEF TypeOK, Local
<1>2. Reads(d, by) /\ Completed(d, by)
  BY <1>1, <1>d DEF Record, ReadFor
<1>3. Working(d) /\ active[d] # "disconnecting"
  BY <1>2, <1>t DEF Reads, Attempts, Working, Stopped
<1>4. \A e \in Devices \ {d} :
        /\ desired'[e] = desired[e] /\ active'[e] = active[e] /\ recovery'[e] = recovery[e]
        /\ link'[e] = link[e]
  <2>1. \A e \in Devices \ {d} : desired'[e] = desired[e]
    <3>1. "connected" \in Desires
      BY DEF Desires
    <3>2. desired' = desired \/ desired' = Written(d, "connected")
      BY <1>2 DEF Completed
    <3> QED BY <3>1, <3>2, WrittenType
  <2>2. \A e \in Devices \ {d} :
          active'[e] = active[e] /\ recovery'[e] = recovery[e] /\ link'[e] = link[e]
    BY <1>2, <1>t DEF Completed
  <2> QED BY <2>1, <2>2
<1>5. /\ desired'[d] = (IF by = "poll" \/ desired[d] = None THEN desired[d] ELSE "connected")
      /\ active'[d] = (IF by = "connect" THEN "none" ELSE active[d])
  <2>1. "connected" \in Desires
    BY DEF Desires
  <2>2. desired'[d] = (IF by = "poll" \/ desired[d] = None THEN desired[d] ELSE "connected")
    BY <1>2, <2>1, WrittenType DEF Completed
  <2>3. active'[d] = (IF by = "connect" THEN "none" ELSE active[d])
    BY <1>2, <1>t DEF Completed
  <2> QED BY <2>2, <2>3
<1>6. /\ \A e \in Devices \ {d} : heartbeat'[e] = heartbeat[e]
      /\ \A e \in Devices \ {d} : latest'[e].heartbeat = latest[e].heartbeat
      /\ \A e \in Devices \ {d} : current[e] = None => current'[e] = None /\ latest'[e] = latest[e]
      /\ \/ heartbeat'[d] = heartbeat[d] /\ latest'[d].heartbeat = latest[d].heartbeat
         \/ /\ heartbeat'[d] # None /\ heartbeat'[d].status = "healthy"
            /\ latest'[d].heartbeat = "healthy"
  <2>1. CASE Marked(Expired) /\ heartbeat' = heartbeat
    <3>1. ASSUME NEW e \in Devices
          PROVE  /\ latest'[e].heartbeat = latest[e].heartbeat
                 /\ current[e] = None => current'[e] = None /\ latest'[e] = latest[e]
      <4>1. e \in Expired => current[e] # None
        BY DEF Expired, Fresh
      <4>2. /\ Silenced(Expired)[e].heartbeat = latest[e].heartbeat
            /\ current[e] = None => Aged(Expired)[e] = None /\ Silenced(Expired)[e] = latest[e]
        BY <4>1, MarkedStill
      <4> QED BY <2>1, <4>2 DEF Marked
    <3> QED BY <2>1, <3>1
  <2>2. CASE Tells(d, available, battery, cached)
    <3>1. \A e \in Devices \ {d} : current'[e] = current[e]
      BY <2>2, <1>t DEF Tells
    <3> QED BY <2>2, <3>1 DEF Tells
  <2> QED BY <1>d, <2>1, <2>2, RecordSays
<1>7. \A e \in Devices \ {d} : Still(e)
  BY <1>1, <1>4, <1>6 DEF Still
<1>8. Kept(d)'
  BY <1>1, <1>6, <1>t DEF Kept
<1>9. Stopped(d)'
  BY <1>3, <1>5 DEF Stopped
<1>10. ASSUME d \notin overtaken' PROVE Orderly(d)'
  <2>1. desired[d] # None /\ heartbeat[d] # None /\ d \notin telling /\ Present(d)
    BY <1>1, <1>3, <1>10, <1>t, WorkingPresent
  <2>2. Beat(heartbeat, d) # "disconnected"
    BY <1>3, <2>1 DEF Present
  <2>3. Beat(heartbeat', d) # "disconnected" /\ heartbeat'[d] # None
    BY <1>6, <2>1, <2>2 DEF Beat
  <2>4. desired[d] = "connected" \/ active[d] \notin {"none", "connect", "expected"}
    BY <2>1, <2>2, <1>t DEF Present, Desires
  <2>5. by = "connect" => active[d] = "expected"
    BY <1>2 DEF Reads, Attempts
  <2>6. /\ desired'[d] # None
        /\ desired'[d] = "connected" \/ active'[d] \notin {"none", "connect", "expected"}
    BY <1>5, <2>1, <2>4, <2>5, NoneDistinct
  <2>7. Present(d)'
    BY <2>3, <2>6 DEF Present
  <2> QED BY <1>1, <2>1, <2>3, <2>6, <2>7 DEF Orderly
<1> QED BY <1>7, <1>8, <1>9, <1>10, StillLocal DEF Local

LEMMA StepTelling == ASSUME TypeOK, Telling, [Next]_vars PROVE Telling'
<1>1. ReadFor'
  BY StepReads DEF Telling, Local
<1>2. \A e \in Devices : Shown(e)'
  BY StepShown DEF Telling
<1>3. ASSUME UNCHANGED <<desired, tasks, heartbeat, latest, current>>
      PROVE  \A e \in Devices : Local(e)'
  <2>1. \A e \in Devices : Still(e)
    BY <1>3 DEF tasks, Still
  <2> QED BY <2>1, StillLocal DEF Telling
<1>4. \A e \in Devices : Local(e)'
  <2>1. ASSUME NEW d \in Devices,
               \/ Register(d) \/ RegisterHeartbeat(d) \/ Connect(d) \/ Disconnect(d)
               \/ StartsWithoutRow(d)
        PROVE  \A e \in Devices : Local(e)'
    BY <2>1, RequestLocal DEF Telling
  <2>2. ASSUME NEW d \in Devices,
               \/ FindsConnected(d) \/ \E reconnects \in BOOLEAN : ConnectStarts(d, reconnects)
               \/ RecoveryWakes(d) \/ Initialised(d) \/ \E by \in Readers : GivesUp(d, by)
        PROVE  \A e \in Devices : Local(e)'
    BY <2>2, AttemptLocal DEF Telling
  <2>3. ASSUME NEW d \in Devices,
               \/ DisconnectStarts(d) \/ Disconnected(d) \/ Delete(d) \/ Remove(d)
               \/ HeartbeatExpires(d) \/ SnapshotExpires(d)
        PROVE  \A e \in Devices : Local(e)'
    BY <2>3, EndLocal DEF Telling
  <2>4. ASSUME NEW d \in Devices, NEW by \in Readers, BeginRead(d, by)
        PROVE  \A e \in Devices : Local(e)'
    BY <2>4, <1>3 DEF BeginRead, ageing, beating
  <2>5. ASSUME NEW available \in BOOLEAN, NEW battery \in BOOLEAN, NEW cached \in BOOLEAN,
               NEW success \in {"none", "first", "last"},
               Record(available, battery, cached, success)
        PROVE  \A e \in Devices : Local(e)'
    BY <2>5, RecordLocal DEF Telling
  <2>6. CASE ReadFails \/ Tick \/ SetClock \/ UNCHANGED vars
    BY <2>6, <1>3 DEF ReadFails, Tick, SetClock, vars, ageing, beating
  <2> QED BY <2>1, <2>2, <2>3, <2>4, <2>5, <2>6 DEF Next
<1> QED BY <1>1, <1>2, <1>4 DEF Telling

LEMMA InitTelling == ASSUME Init PROVE Telling
<1>1. ReadFor
  BY DEF Init, ReadFor
<1>2. ASSUME NEW d \in Devices PROVE Shown(d) /\ Local(d)
  <2>1. /\ current[d] = None /\ active[d] = "none" /\ link[d] = "none"
        /\ telling = {} /\ deleting = {} /\ overtaken = {}
        /\ recovery[d] \in {"none", "asleep"}
        /\ recovery[d] = "asleep" => desired[d] = "connected"
        /\ desired[d] \in Desires \cup {None}
        /\ latest[d] = [Silent EXCEPT !.heartbeat = Beat(heartbeat, d)]
        /\ heartbeat[d] = IF desired[d] = None THEN None
                          ELSE IF desired[d] = "connected" THEN Unknown
                          ELSE [Unknown EXCEPT !.status = "disconnected"]
    BY DEF Init
  <2>2. /\ latest[d].availability = None /\ latest[d].battery = None
        /\ latest[d].heartbeat = Beat(heartbeat, d)
        /\ Beat(heartbeat, d) = None => latest[d] = Silent
    BY <2>1 DEF Silent
  <2>3. Shown(d) /\ Stopped(d)
    BY <2>1, <2>2 DEF Shown, Stopped
  <2>4. Kept(d)
    BY <2>2 DEF Kept, Beat
  <2>5. CASE desired[d] = None
    <3>1. heartbeat[d] = None /\ recovery[d] = "none" /\ Beat(heartbeat, d) = None
      BY <2>1, <2>5, NoneDistinct DEF Beat
    <3>2. Orderly(d)
      BY <2>1, <2>2, <2>5, <3>1 DEF Orderly, Absent, Working
    <3> QED BY <2>3, <2>4, <3>2 DEF Local
  <2>6. CASE desired[d] # None
    <3>1. /\ Unknown # None /\ Unknown.status = "unknown"
          /\ [Unknown EXCEPT !.status = "disconnected"] # None
          /\ [Unknown EXCEPT !.status = "disconnected"].status = "disconnected"
      <4>1. Unknown \in [status : Statuses, at : Int, seen : Nat \cup {Never}]
            /\ [Unknown EXCEPT !.status = "disconnected"]
                 \in [status : Statuses, at : Int, seen : Nat \cup {Never}]
        BY DEF Unknown, Never, Statuses
      <4>2. Unknown.status = "unknown"
            /\ [Unknown EXCEPT !.status = "disconnected"].status = "disconnected"
        BY DEF Unknown
      <4> QED BY <4>1, <4>2, BeatDistinct
    <3>2. heartbeat[d] # None
          /\ (desired[d] = "connected" => Beat(heartbeat, d) = "unknown")
          /\ (desired[d] # "connected" => Beat(heartbeat, d) = "disconnected")
      BY <2>1, <2>6, <3>1 DEF Beat
    <3>3. Present(d)
      BY <2>1, <2>6, <3>2 DEF Present, Working, Desires
    <3>4. Orderly(d)
      BY <2>1, <2>6, <3>2, <3>3 DEF Orderly
    <3> QED BY <2>3, <2>4, <3>4 DEF Local
  <2> QED BY <2>5, <2>6
<1> QED BY <1>1, <1>2 DEF Telling

\* Whatever the order of requests, recoveries, polls, readings and timers, and whatever is done
\* to the clock, the events kept for the broker say what REST reports of every device that is
\* settled (RetainedAgrees: telemetry.py:108-381 against service.py:268-684).
THEOREM RetainedHolds == Spec => []RetainedAgrees
<1>1. Init => Telling
  BY InitTelling
<1>2. TypeOK /\ Telling /\ [Next]_vars => Telling'
  BY StepTelling
<1>3. TypeOK /\ Telling => RetainedAgrees
  BY TellingAgrees
<1> QED BY <1>1, <1>2, <1>3, TelemetryTypeCorrect, PTL DEF Spec
=============================================================================
