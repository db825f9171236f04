----------------------------- MODULE DeviceProofs -----------------------------
(***************************************************************************)
(* What BleakAdapter and Polling promise for every number of connects,     *)
(* battery interval, polling interval, threshold and schedule of delays,   *)
(* and that the adapter implements DeviceLink.                             *)
(***************************************************************************)
EXTENDS BleakAdapter, Polling, TLAPS

(***************************************************************************)
(* BleakAdapter                                                            *)
(***************************************************************************)
Ring == 1..made

\* A call knows its client; a client is new until it is connected to; and no client is served
\* that another one is being made beside, or while it is taken down.
Calling ==
  /\ call.at \in {"idle", "releasing"} => call.with = NoClient
  /\ call.at \in {"connecting", "initialising", "closing", "battery", "probes"} => call.with \in Ring
  /\ call.at = "connecting" => call.with \notin alive
  /\ call.at \in {"connecting", "initialising"} => client # call.with
  /\ call.at \in {"connecting", "initialising", "closing"} => client \notin alive

\* A reading is of the client served, or of none; the battery is that of the last one served.
ReadingInv ==
  call.at \in {"battery", "probes"} =>
    /\ client \in {call.with, NoClient}
    /\ battery.from \in {call.with, NoClient}
    /\ call.with \in alive => client = call.with \/ abandoned # {}

BatteryInv == client \in alive => battery.from \in {client, NoClient}

BleakIInv ==
  /\ BleakTypeOK
  /\ alive \subseteq Ring /\ client \in Ring \cup {NoClient}
  /\ Calling /\ ReadingInv /\ BatteryInv
  /\ NoLinkForgotten

LEMMA BleakInitial == BleakInit => BleakIInv
BY ClientsAssumption, BatteryAssumption
   DEF BleakInit, BleakIInv, BleakTypeOK, Ring, Calling, ReadingInv, BatteryInv, NoLinkForgotten,
       Clients, Idle, NoBattery, Unread

\* What the invariant says of one state, with the names that a proof needs.
LEMMA Served ==
  ASSUME BleakIInv
  PROVE  /\ made \in Nat /\ alive \subseteq Ring /\ Ring \subseteq Clients
         /\ NoClient \notin Clients /\ NoClient \notin alive
<1>1. made \in 0..MaxClients /\ alive \subseteq Ring
  BY DEF BleakIInv, BleakTypeOK
<1>2. made \in Nat /\ 1..made \subseteq 1..MaxClients
  BY <1>1, ClientsAssumption
<1> QED BY <1>1, <1>2, ClientsAssumption DEF Ring, Clients

LEMMA DialStep == ASSUME BleakIInv, Dial PROVE BleakIInv'
<1>1. /\ made' = made + 1 /\ made < MaxClients /\ call = Idle /\ client \notin alive
      /\ call' = [at |-> "connecting", with |-> made + 1]
      /\ UNCHANGED <<alive, client, battery, abandoned, shown>>
  BY DEF Dial, Calls, IsConnected
<1>2. /\ Ring \subseteq 1..(made + 1) /\ made + 1 \notin Ring /\ made + 1 \in 1..(made + 1)
      /\ made + 1 \in Clients /\ made + 1 \in 0..MaxClients
  BY <1>1, Served, ClientsAssumption DEF Ring, Clients
<1>3. Ring' = 1..(made + 1)
  BY <1>1 DEF Ring
<1>4. BleakTypeOK' /\ alive' \subseteq Ring' /\ client' \in Ring' \cup {NoClient}
  BY <1>1, <1>2, <1>3 DEF BleakIInv, BleakTypeOK
<1>5. Calling'
  BY <1>1, <1>2, <1>3, Served DEF BleakIInv, Calling
<1>6. ReadingInv' /\ BatteryInv'
  BY <1>1 DEF BleakIInv, ReadingInv, BatteryInv
<1>7. NoLinkForgotten'
  BY <1>1, Served DEF BleakIInv, NoLinkForgotten, Idle
<1> QED BY <1>4, <1>5, <1>6, <1>7 DEF BleakIInv

LEMMA LinkUpStep == ASSUME BleakIInv, LinkUp PROVE BleakIInv'
<1> USE Served DEF LinkUp, Calls
<1>1. BleakTypeOK'
  BY BatteryAssumption DEF BleakIInv, BleakTypeOK, Calling
<1>2. alive' \subseteq Ring' /\ client' \in Ring' \cup {NoClient}
  BY DEF BleakIInv, Ring, Calling
<1>3. Calling'
  BY DEF BleakIInv, BleakTypeOK, Ring, Calling
<1>4. ReadingInv' /\ BatteryInv'
  BY DEF BleakIInv, BleakTypeOK, Calling, ReadingInv, BatteryInv
<1>5. NoLinkForgotten'
  BY DEF BleakIInv, BleakTypeOK, Calling, ReadingInv, NoLinkForgotten
<1> QED BY <1>1, <1>2, <1>3, <1>4, <1>5 DEF BleakIInv

LEMMA InitialisedStep == ASSUME BleakIInv, Initialised PROVE BleakIInv'
<1> USE Served DEF Initialised, Idle, Forgotten, NoBattery
<1>1. BleakTypeOK'
  BY BatteryAssumption DEF BleakIInv, BleakTypeOK
<1>2. alive' \subseteq Ring' /\ client' \in Ring' \cup {NoClient}
  BY DEF BleakIInv, Ring, Calling
<1>3. Calling'
  BY DEF BleakIInv, BleakTypeOK, Ring, Calling
<1>4. ReadingInv' /\ BatteryInv'
  BY DEF BleakIInv, BleakTypeOK, Calling, ReadingInv, BatteryInv
<1>5. NoLinkForgotten'
  BY DEF BleakIInv, BleakTypeOK, Calling, ReadingInv, NoLinkForgotten
<1> QED BY <1>1, <1>2, <1>3, <1>4, <1>5 DEF BleakIInv

LEMMA DialFailsStep == ASSUME BleakIInv, DialFails PROVE BleakIInv'
<1> USE Served DEF DialFails, TakesDown, Calls, Idle
<1>1. BleakTypeOK'
  BY BatteryAssumption DEF BleakIInv, BleakTypeOK
<1>2. alive' \subseteq Ring' /\ client' \in Ring' \cup {NoClient}
  BY DEF BleakIInv, Ring, Calling
<1>3. Calling'
  BY DEF BleakIInv, BleakTypeOK, Ring, Calling
<1>4. ReadingInv' /\ BatteryInv'
  BY DEF BleakIInv, BleakTypeOK, Calling, ReadingInv, BatteryInv
<1>5. NoLinkForgotten'
  BY DEF BleakIInv, BleakTypeOK, Calling, ReadingInv, NoLinkForgotten
<1> QED BY <1>1, <1>2, <1>3, <1>4, <1>5 DEF BleakIInv

LEMMA DisconnectStep == ASSUME BleakIInv, Disconnect PROVE BleakIInv'
<1> USE Served DEF Disconnect, IsConnected, Calls, Idle
<1>1. BleakTypeOK'
  BY BatteryAssumption DEF BleakIInv, BleakTypeOK
<1>2. alive' \subseteq Ring' /\ client' \in Ring' \cup {NoClient}
  BY DEF BleakIInv, Ring, Calling
<1>3. Calling'
  BY DEF BleakIInv, BleakTypeOK, Ring, Calling
<1>4. ReadingInv' /\ BatteryInv'
  BY DEF BleakIInv, BleakTypeOK, Calling, ReadingInv, BatteryInv
<1>5. NoLinkForgotten'
  BY DEF BleakIInv, BleakTypeOK, Calling, ReadingInv, NoLinkForgotten
<1> QED BY <1>1, <1>2, <1>3, <1>4, <1>5 DEF BleakIInv

LEMMA ClosedStep == ASSUME BleakIInv, Closed PROVE BleakIInv'
<1> USE Served DEF Closed, GoDown, Idle
<1>1. BleakTypeOK'
  BY BatteryAssumption DEF BleakIInv, BleakTypeOK
<1>2. alive' \subseteq Ring' /\ client' \in Ring' \cup {NoClient}
  BY DEF BleakIInv, Ring, Calling
<1>3. Calling'
  BY DEF BleakIInv, BleakTypeOK, Ring, Calling
<1>4. ReadingInv' /\ BatteryInv'
  BY DEF BleakIInv, BleakTypeOK, Calling, ReadingInv, BatteryInv
<1>5. NoLinkForgotten'
  BY DEF BleakIInv, BleakTypeOK, Calling, ReadingInv, NoLinkForgotten
<1> QED BY <1>1, <1>2, <1>3, <1>4, <1>5 DEF BleakIInv

LEMMA CloseAbandonedStep == ASSUME BleakIInv, CloseAbandoned PROVE BleakIInv'
<1> USE Served DEF CloseAbandoned, Idle
<1>1. BleakTypeOK'
  BY BatteryAssumption DEF BleakIInv, BleakTypeOK
<1>2. alive' \subseteq Ring' /\ client' \in Ring' \cup {NoClient}
  BY DEF BleakIInv, Ring, Calling
<1>3. Calling'
  BY DEF BleakIInv, BleakTypeOK, Ring, Calling
<1>4. ReadingInv' /\ BatteryInv'
  BY DEF BleakIInv, BleakTypeOK, Calling, ReadingInv, BatteryInv
<1>5. NoLinkForgotten'
  BY DEF BleakIInv, BleakTypeOK, Calling, ReadingInv, NoLinkForgotten
<1> QED BY <1>1, <1>2, <1>3, <1>4, <1>5 DEF BleakIInv

LEMMA ReleaseBeginsStep == ASSUME BleakIInv, ReleaseBegins PROVE BleakIInv'
<1> USE Served DEF ReleaseBegins, Calls, Idle
<1>1. BleakTypeOK'
  BY BatteryAssumption DEF BleakIInv, BleakTypeOK
<1>2. alive' \subseteq Ring' /\ client' \in Ring' \cup {NoClient}
  BY DEF BleakIInv, Ring, Calling
<1>3. Calling'
  BY DEF BleakIInv, BleakTypeOK, Ring, Calling
<1>4. ReadingInv' /\ BatteryInv'
  BY DEF BleakIInv, BleakTypeOK, Calling, ReadingInv, BatteryInv
<1>5. NoLinkForgotten'
  BY DEF BleakIInv, BleakTypeOK, Calling, ReadingInv, NoLinkForgotten
<1> QED BY <1>1, <1>2, <1>3, <1>4, <1>5 DEF BleakIInv

LEMMA ReleaseEndsStep == ASSUME BleakIInv, ReleaseEnds PROVE BleakIInv'
<1> USE Served DEF ReleaseEnds, GoDown, Idle
<1>1. BleakTypeOK'
  BY BatteryAssumption DEF BleakIInv, BleakTypeOK
<1>2. alive' \subseteq Ring' /\ client' \in Ring' \cup {NoClient}
  BY DEF BleakIInv, Ring, Calling
<1>3. Calling'
  BY DEF BleakIInv, BleakTypeOK, Ring, Calling
<1>4. ReadingInv' /\ BatteryInv'
  BY DEF BleakIInv, BleakTypeOK, Calling, ReadingInv, BatteryInv
<1>5. NoLinkForgotten'
  BY DEF BleakIInv, BleakTypeOK, Calling, ReadingInv, NoLinkForgotten
<1> QED BY <1>1, <1>2, <1>3, <1>4, <1>5 DEF BleakIInv

LEMMA ReadSnapshotStep == ASSUME BleakIInv, ReadSnapshot PROVE BleakIInv'
<1> USE Served DEF ReadSnapshot, IsConnected, Calls, Idle
<1>1. BleakTypeOK'
  BY BatteryAssumption DEF BleakIInv, BleakTypeOK
<1>2. alive' \subseteq Ring' /\ client' \in Ring' \cup {NoClient}
  BY DEF BleakIInv, Ring, Calling
<1>3. Calling'
  BY DEF BleakIInv, BleakTypeOK, Ring, Calling
<1>4. ReadingInv' /\ BatteryInv'
  BY DEF BleakIInv, BleakTypeOK, Calling, ReadingInv, BatteryInv
<1>5. NoLinkForgotten'
  BY DEF BleakIInv, BleakTypeOK, Calling, ReadingInv, NoLinkForgotten
<1> QED BY <1>1, <1>2, <1>3, <1>4, <1>5 DEF BleakIInv

LEMMA ReadBatteryStep == ASSUME BleakIInv, ReadBattery PROVE BleakIInv'
<1> USE Served DEF ReadBattery, Calls
<1>1. BleakTypeOK'
  BY BatteryAssumption DEF BleakIInv, BleakTypeOK
<1>2. alive' \subseteq Ring' /\ client' \in Ring' \cup {NoClient}
  BY DEF BleakIInv, Ring, Calling
<1>3. Calling'
  BY DEF BleakIInv, BleakTypeOK, Ring, Calling
<1>4. ReadingInv' /\ BatteryInv'
  BY DEF BleakIInv, BleakTypeOK, Calling, ReadingInv, BatteryInv
<1>5. NoLinkForgotten'
  BY DEF BleakIInv, BleakTypeOK, Calling, ReadingInv, NoLinkForgotten
<1> QED BY <1>1, <1>2, <1>3, <1>4, <1>5 DEF BleakIInv

LEMMA ReadProbesStep == ASSUME BleakIInv, ReadProbes PROVE BleakIInv'
<1> USE Served DEF ReadProbes, Idle
<1>1. BleakTypeOK'
  BY BatteryAssumption DEF BleakIInv, BleakTypeOK
<1>2. alive' \subseteq Ring' /\ client' \in Ring' \cup {NoClient}
  BY DEF BleakIInv, Ring, Calling
<1>3. Calling'
  BY DEF BleakIInv, BleakTypeOK, Ring, Calling
<1>4. ReadingInv' /\ BatteryInv'
  BY DEF BleakIInv, BleakTypeOK, Calling, ReadingInv, BatteryInv
<1>5. NoLinkForgotten'
  BY DEF BleakIInv, BleakTypeOK, Calling, ReadingInv, NoLinkForgotten
<1> QED BY <1>1, <1>2, <1>3, <1>4, <1>5 DEF BleakIInv

LEMMA ReadCancelledStep == ASSUME BleakIInv, ReadCancelled PROVE BleakIInv'
<1> USE Served DEF ReadCancelled, Idle
<1>1. BleakTypeOK'
  BY BatteryAssumption DEF BleakIInv, BleakTypeOK
<1>2. alive' \subseteq Ring' /\ client' \in Ring' \cup {NoClient}
  BY DEF BleakIInv, Ring, Calling
<1>3. Calling'
  BY DEF BleakIInv, BleakTypeOK, Ring, Calling
<1>4. ReadingInv' /\ BatteryInv'
  BY DEF BleakIInv, BleakTypeOK, Calling, ReadingInv, BatteryInv
<1>5. NoLinkForgotten'
  BY DEF BleakIInv, BleakTypeOK, Calling, ReadingInv, NoLinkForgotten
<1> QED BY <1>1, <1>2, <1>3, <1>4, <1>5 DEF BleakIInv

LEMMA BatteryAgesStep == ASSUME BleakIInv, BatteryAges PROVE BleakIInv'
<1> USE Served DEF BatteryAges
<1>1. BleakTypeOK'
  <2>1. battery.due \in 0..BatteryInterval /\ battery.from \in Clients \cup {NoClient}
    BY DEF BleakIInv, BleakTypeOK
  <2>2. battery.due - 1 \in 0..BatteryInterval
    BY <2>1, BatteryAssumption
  <2>3. battery' \in [from : Clients \cup {NoClient}, due : 0..BatteryInterval]
    BY <2>1, <2>2 DEF BleakIInv, BleakTypeOK
  <2> QED BY <2>3 DEF BleakIInv, BleakTypeOK
<1>2. alive' \subseteq Ring' /\ client' \in Ring' \cup {NoClient}
  BY DEF BleakIInv, Ring, Calling
<1>3. Calling'
  BY DEF BleakIInv, BleakTypeOK, Ring, Calling
<1>4. ReadingInv' /\ BatteryInv'
  BY DEF BleakIInv, BleakTypeOK, Calling, ReadingInv, BatteryInv
<1>5. NoLinkForgotten'
  BY DEF BleakIInv, BleakTypeOK, Calling, ReadingInv, NoLinkForgotten
<1> QED BY <1>1, <1>2, <1>3, <1>4, <1>5 DEF BleakIInv

LEMMA LinkLostStep == ASSUME BleakIInv, NEW c \in Clients, LinkLost(c) PROVE BleakIInv'
<1> USE Served DEF LinkLost, GoDown
<1>1. BleakTypeOK'
  BY DEF BleakIInv, BleakTypeOK
<1>2. alive' \subseteq Ring' /\ client' \in Ring' \cup {NoClient}
  BY DEF BleakIInv, Ring, Calling
<1>3. Calling'
  BY DEF BleakIInv, BleakTypeOK, Ring, Calling
<1>4. ReadingInv' /\ BatteryInv'
  BY DEF BleakIInv, BleakTypeOK, Calling, ReadingInv, BatteryInv, NoLinkForgotten
<1>5. NoLinkForgotten'
  BY DEF BleakIInv, BleakTypeOK, Calling, ReadingInv, NoLinkForgotten
<1> QED BY <1>1, <1>2, <1>3, <1>4, <1>5 DEF BleakIInv

LEMMA BleakStep == BleakIInv /\ [BleakNext]_bleakVars => BleakIInv'
<1> SUFFICES ASSUME BleakIInv, [BleakNext]_bleakVars PROVE BleakIInv'
  OBVIOUS
<1>1. CASE UNCHANGED bleakVars
  BY <1>1 DEF bleakVars, BleakIInv, BleakTypeOK, Ring, Calling, ReadingInv, BatteryInv,
              NoLinkForgotten
<1>2. CASE BleakNext
  BY <1>2, DialStep, LinkUpStep, InitialisedStep, DialFailsStep, DisconnectStep, ClosedStep,
     CloseAbandonedStep, ReleaseBeginsStep, ReleaseEndsStep, ReadSnapshotStep, ReadBatteryStep,
     ReadProbesStep, ReadCancelledStep, BatteryAgesStep, LinkLostStep DEF BleakNext
<1> QED BY <1>1, <1>2

\* The inductive invariant of the adapter: which client is alive and whose, at every await.
THEOREM BleakHolds == BleakSpec => []BleakIInv
BY BleakInitial, BleakStep, PTL DEF BleakSpec

\* Every variable of the adapter keeps its type.
THEOREM BleakTypeCorrect == BleakSpec => []BleakTypeOK
<1>1. BleakIInv => BleakTypeOK
  BY DEF BleakIInv
<1> QED BY <1>1, BleakHolds, PTL

\* However many connects there are: a link that is up is served or worked on, unless some
\* disconnect was given up before.
THEOREM NoLinkIsForgotten == BleakSpec => []NoLinkForgotten
<1>1. BleakIInv => NoLinkForgotten
  BY DEF BleakIInv
<1> QED BY <1>1, BleakHolds, PTL

(***************************************************************************)
(* The refinement                                                          *)
(***************************************************************************)
Serving == IF IsConnected THEN client ELSE NoClient

Stutter == UNCHANGED <<Serving, Reading, shown>>

LEMMA LinkInitial == BleakInit => Link!LinkInit
BY ClientsAssumption DEF BleakInit, Link!LinkInit, Link!Nothing, Unread, IsConnected, Reading, Idle

LEMMA LinkStep ==
  ASSUME BleakIInv, BleakIInv', [BleakNext]_bleakVars
  PROVE  Link!LinkNext \/ Stutter
<1> USE Served
<1> USE DEF Serving, IsConnected, Reading
<1>1. CASE UNCHANGED bleakVars
  BY <1>1 DEF bleakVars, Stutter
<1>2. ASSUME Dial \/ LinkUp \/ DialFails \/ CloseAbandoned \/ ReleaseBegins \/ ReadBattery \/ BatteryAges
      PROVE  Stutter
  BY <1>2 DEF Stutter, Dial, LinkUp, DialFails, CloseAbandoned, ReleaseBegins, ReadBattery,
              BatteryAges, Calls, Idle, TakesDown, BleakIInv, Calling
<1>3. ASSUME Initialised PROVE Link!Connected \/ Stutter
  BY <1>3 DEF Link!Connected, Stutter, Initialised, Idle, BleakIInv, BleakTypeOK, Calling
<1>4. ASSUME Disconnect \/ Closed \/ ReleaseEnds \/ \E c \in Clients : LinkLost(c)
      PROVE  Link!Gone \/ Stutter
  BY <1>4 DEF Link!Gone, Stutter, Disconnect, Closed, ReleaseEnds, LinkLost, GoDown, Calls, Idle,
              BleakIInv, Calling
<1>5. ASSUME ReadSnapshot PROVE Link!ReadBegins
  BY <1>5 DEF Link!ReadBegins, ReadSnapshot, Calls, Idle
<1>6. ASSUME ReadProbes \/ ReadCancelled PROVE Link!ReadEnds
  BY <1>6 DEF Link!ReadEnds, ReadProbes, ReadCancelled, Idle, BleakIInv, Calling, ReadingInv
<1> QED BY <1>1, <1>2, <1>3, <1>4, <1>5, <1>6 DEF BleakNext, Link!LinkNext

\* The adapter implements the link that the service relies on: nothing that was read over one
\* link is shown for another, and one link is served at a time (DeviceLink).
THEOREM AdapterImplementsLink == BleakSpec => LinkImplemented
<1>1. Stutter => UNCHANGED Link!linkVars
  BY DEF Stutter, Serving, Link!linkVars
<1>2. BleakIInv /\ BleakIInv' /\ [BleakNext]_bleakVars => [Link!LinkNext]_(Link!linkVars)
  BY <1>1, LinkStep
<1> QED BY <1>2, LinkInitial, BleakHolds, PTL DEF BleakSpec, LinkImplemented, Link!LinkSpec

(***************************************************************************)
(* Polling                                                                 *)
(***************************************************************************)
Within(h) == age \in 0..h /\ calm \in 0..h /\ quiet \in 0..h /\ silent \in 0..h

\* The ages that _poll computes are the ages of the link; and they leave room for what is left
\* of the sleep or of the reading.
Counts ==
  /\ left \in Nat /\ failures \in 0..DegradedAfter /\ attempt \in 0..Len(Delays)
  /\ Within(Horizon)
  /\ silent = age /\ quiet = calm
  /\ phase = "sleeping" => age + left < ReconnectAfter + PollInterval
  /\ phase = "reading" => age + left < ReconnectAfter + PollInterval + MaxSlow

Modes ==
  /\ phase \in {"down", "connecting", "sleeping", "reading", "waiting"}
  /\ observed \in {"disconnected", "polling", "degraded", "backoff"}
  /\ linked \in BOOLEAN

PollingIInv == Counts /\ Modes

LEMMA PollingConstants ==
  /\ PollInterval \in Nat \ {0} /\ DegradedAfter \in Nat \ {0}
  /\ ReconnectAfter \in Nat \ {0} /\ StableAfter \in Nat \ {0} /\ MaxSlow \in Nat
  /\ Horizon \in Nat
  /\ Len(Delays) \in Nat /\ Len(Delays) > 0
BY PollingAssumption DEF Horizon

LEMMA HorizonStays == Horizon' = Horizon
BY DEF Horizon

LEMMA PollingInitial == PollingInit => PollingIInv
<1> SUFFICES ASSUME PollingInit PROVE PollingIInv
  OBVIOUS
<1>1. Counts
  <2>1. /\ phase = "down" /\ left = 0 /\ failures = 0 /\ age = 0 /\ calm = 0
        /\ quiet = 0 /\ silent = 0 /\ attempt = 0
    BY DEF PollingInit
  <2> QED BY <2>1, PollingConstants DEF Counts, Within
<1>2. Modes
  BY DEF PollingInit, Modes
<1> QED BY <1>1, <1>2 DEF PollingIInv

LEMMA ModesStep == ASSUME Modes, PollingNext PROVE Modes'
<1>1. linked' \in {linked, TRUE, FALSE}
  <2>1. CASE \E valid \in BOOLEAN : ReadStays(valid) \/ ReadGivesUp(valid)
    BY <2>1 DEF ReadStays, ReadGivesUp
  <2> QED BY <2>1 DEF PollingNext, TimePasses, Forced, DelayOver, Succeeds, Fails, Disconnects,
                      LinkDrops, Wakes
<1>2. phase' \in {phase, "down", "connecting", "sleeping", "reading", "waiting"}
  <2>1. CASE \E valid \in BOOLEAN : ReadStays(valid) \/ ReadGivesUp(valid)
    BY <2>1 DEF ReadStays, ReadGivesUp, Recovers
  <2> QED BY <2>1 DEF PollingNext, TimePasses, Forced, DelayOver, Succeeds, Fails, Disconnects,
                      LinkDrops, Wakes, Recovers
<1>3. observed' \in {observed, "disconnected", "polling", "degraded", "backoff"}
  <2>1. CASE \E valid \in BOOLEAN : ReadStays(valid) \/ ReadGivesUp(valid)
    BY <2>1 DEF ReadStays, ReadGivesUp, Recovers
  <2> QED BY <2>1 DEF PollingNext, TimePasses, Forced, DelayOver, Succeeds, Fails, Disconnects,
                      LinkDrops, Wakes, Recovers
<1>4. linked' \in BOOLEAN
  BY <1>1 DEF Modes
<1> QED BY <1>2, <1>3, <1>4 DEF Modes

LEMMA AnewCounts ==
  ASSUME Anew, NEW l \in Nat, left' = l, NEW a \in 0..Len(Delays), attempt' = a,
         NEW p, phase' = p, p = "sleeping" => l = PollInterval, p # "reading"
  PROVE  Counts'
<1>1. failures' = 0 /\ age' = 0 /\ calm' = 0 /\ quiet' = 0 /\ silent' = 0
  BY DEF Anew, Ages
<1>2. PollInterval \in Nat /\ ReconnectAfter \in Nat \ {0} /\ Horizon \in Nat /\ DegradedAfter \in Nat
  BY PollingConstants
<1>3. p = "sleeping" => 0 + l < ReconnectAfter + PollInterval
  BY <1>2
<1> QED BY <1>1, <1>2, <1>3, HorizonStays DEF Counts, Within

LEMMA RecoversCounts ==
  ASSUME NEW a \in 0..Len(Delays), Recovers(a) PROVE Counts'
<1>1. PICK l \in Nat : left' = l
  BY DEF Recovers, NextDelays
<1>2. Attempted(a) \in 0..Len(Delays)
  BY PollingConstants DEF Attempted
<1>3. attempt' = Attempted(a) /\ phase' = "waiting" /\ Anew
  BY DEF Recovers
<1> QED BY <1>1, <1>2, <1>3, AnewCounts

LEMMA Bystanders ==
  ASSUME Counts, UNCHANGED <<left, failures, age, calm, attempt, quiet, silent>>,
         phase' \in {phase, "connecting"}
  PROVE  Counts'
BY HorizonStays DEF Counts, Within

LEMMA TimePassesCounts == ASSUME Counts, TimePasses PROVE Counts'
<1>1. left' = left - 1 /\ left > 0 /\ failures' = failures /\ attempt' = attempt /\ phase' = phase
  BY DEF TimePasses
<1>2. \A x \in 0..Horizon : Older(x) \in 0..Horizon /\ (Older(x) = x \/ Older(x) = x + 1)
  <2>1. Horizon \in Nat
    BY PollingConstants
  <2> TAKE x \in 0..Horizon
  <2>2. Older(x) = x \/ (x < Horizon /\ Older(x) = x + 1)
    BY DEF Older
  <2> QED BY <2>1, <2>2
<1>3. age' = Older(age) /\ calm' = Older(calm) /\ quiet' = Older(quiet) /\ silent' = Older(silent)
  BY DEF TimePasses
<1>4. age \in 0..Horizon /\ calm \in 0..Horizon /\ silent = age /\ quiet = calm /\ left \in Nat
  BY DEF Counts, Within
<1>5. left - 1 \in Nat /\ Older(age) + (left - 1) <= age + left
  <2>1. \A x, y \in Nat, z \in Nat : z > 0 /\ (y = x \/ y = x + 1) => z - 1 \in Nat /\ y + (z - 1) <= x + z
    OBVIOUS
  <2>2. age \in Nat /\ Older(age) \in Nat /\ (Older(age) = age \/ Older(age) = age + 1)
    BY <1>2, <1>4, PollingConstants
  <2> QED BY <1>1, <1>4, <2>1, <2>2
<1>6. Within(Horizon)'
  BY <1>2, <1>3, <1>4, HorizonStays DEF Within
<1>7. /\ phase = "sleeping" => Older(age) + (left - 1) < ReconnectAfter + PollInterval
      /\ phase = "reading" => Older(age) + (left - 1) < ReconnectAfter + PollInterval + MaxSlow
  <2>1. Older(age) \in Nat
    BY <1>2, <1>4, PollingConstants
  <2> QED BY <1>4, <1>5, <2>1, PollingConstants DEF Counts
<1> QED BY <1>1, <1>3, <1>4, <1>5, <1>6, <1>7, HorizonStays DEF Counts, Within

LEMMA ReadStaysCounts ==
  ASSUME Counts, NEW valid \in BOOLEAN, ReadStays(valid) PROVE Counts'
<1>1. /\ left' = PollInterval /\ phase' = "sleeping"
      /\ age' = Renewed(valid) /\ calm' = Steady(valid)
      /\ Renewed(valid) < ReconnectAfter
      /\ attempt' = Rewarded(valid)
  BY DEF ReadStays, Ages, Stays
<1>2. PICK f \in 0..DegradedAfter : failures' = f
  <2>1. failures \in 0..DegradedAfter
    BY DEF Counts
  <2>2. failures' \in {0, failures} \/ (failures < DegradedAfter /\ failures' = failures + 1)
    BY DEF ReadStays, Ages
  <2> QED BY <2>1, <2>2, PollingConstants
<1>3. Rewarded(valid) \in {0, attempt}
  BY DEF Rewarded
<1>4. silent' = Renewed(valid) /\ quiet' = Steady(valid)
  BY DEF ReadStays, Renewed, Steady, Counts
<1>5. Renewed(valid) \in {0, age} /\ Steady(valid) \in {0, calm}
  BY DEF Renewed, Steady
<1>6. Renewed(valid) \in 0..Horizon /\ Steady(valid) \in 0..Horizon
  BY <1>5, PollingConstants DEF Counts, Within
<1>7. Rewarded(valid) \in 0..Len(Delays)
  BY <1>3, PollingConstants DEF Counts
<1>8. Renewed(valid) + PollInterval < ReconnectAfter + PollInterval /\ PollInterval \in Nat
  BY <1>1, <1>6, PollingConstants
<1> QED BY <1>1, <1>2, <1>4, <1>6, <1>7, <1>8, HorizonStays DEF Counts, Within

LEMMA CountsStep == ASSUME Counts, PollingNext PROVE Counts'
<1>a. attempt \in 0..Len(Delays) /\ left \in Nat /\ PollInterval \in Nat
  BY PollingConstants DEF Counts
<1>1. CASE TimePasses
  BY <1>1, TimePassesCounts
<1>2. CASE Forced
  <2>1. left' = 0 /\ attempt' = attempt /\ phase' = "connecting" /\ Anew
    BY <1>2 DEF Forced
  <2> QED BY <2>1, <1>a, AnewCounts
<1>3. CASE DelayOver
  BY <1>3, Bystanders DEF DelayOver
<1>4. CASE Succeeds
  <2>1. left' = PollInterval /\ attempt' = attempt /\ phase' = "sleeping" /\ Anew
    BY <1>4 DEF Succeeds
  <2> QED BY <2>1, <1>a, AnewCounts
<1>5. CASE Fails
  BY <1>5, <1>a, RecoversCounts DEF Fails
<1>6. CASE Disconnects
  <2>1. left' = 0 /\ attempt' = attempt /\ phase' = "down" /\ Anew
    BY <1>6 DEF Disconnects
  <2> QED BY <2>1, <1>a, AnewCounts
<1>7. CASE LinkDrops
  BY <1>7, Bystanders DEF LinkDrops
<1>8. CASE Wakes
  <2>1. /\ left' = MaxSlow /\ phase' = "reading" /\ phase = "sleeping" /\ left = 0
        /\ UNCHANGED <<failures, age, calm, attempt, quiet, silent>>
    BY <1>8 DEF Wakes
  <2>2. age \in Nat /\ age < ReconnectAfter + PollInterval
    BY <2>1, PollingConstants DEF Counts, Within
  <2>3. age + MaxSlow < ReconnectAfter + PollInterval + MaxSlow /\ MaxSlow \in Nat
    BY <2>2, PollingConstants
  <2> QED BY <2>1, <2>3, HorizonStays DEF Counts, Within
<1>9. ASSUME NEW valid \in BOOLEAN, ReadStays(valid) PROVE Counts'
  BY <1>9, ReadStaysCounts
<1>10. ASSUME NEW valid \in BOOLEAN, ReadGivesUp(valid) PROVE Counts'
  <2>1. Rewarded(valid) \in 0..Len(Delays)
    BY <1>a, PollingConstants DEF Rewarded
  <2> QED BY <1>10, <2>1, RecoversCounts DEF ReadGivesUp
<1> QED BY <1>1, <1>2, <1>3, <1>4, <1>5, <1>6, <1>7, <1>8, <1>9, <1>10 DEF PollingNext

LEMMA PollingStep == PollingIInv /\ [PollingNext]_pollingVars => PollingIInv'
<1> SUFFICES ASSUME PollingIInv, [PollingNext]_pollingVars PROVE PollingIInv'
  OBVIOUS
<1>1. CASE PollingNext
  BY <1>1, CountsStep, ModesStep DEF PollingIInv
<1>2. CASE UNCHANGED pollingVars
  <2>1. Counts'
    BY <1>2, Bystanders DEF pollingVars, PollingIInv
  <2>2. Modes'
    BY <1>2 DEF pollingVars, PollingIInv, Modes
  <2> QED BY <2>1, <2>2 DEF PollingIInv
<1> QED BY <1>1, <1>2

\* The inductive invariant: how the counters of polling and backoff go with the mode.
THEOREM PollingHolds == PollingSpec => []PollingIInv
BY PollingInitial, PollingStep, PTL DEF PollingSpec

\* Every variable of the polling loop keeps its type.
THEOREM PollingTypeCorrect == PollingSpec => []PollingTypeOK
<1>1. PollingIInv => PollingTypeOK
  BY DEF PollingIInv, PollingTypeOK, Counts, Modes, Within
<1> QED BY <1>1, PollingHolds, PTL

\* No device is polled whose last valid reading is older than reconnect_after, one interval and
\* one reading, for all intervals and thresholds and however slow a reading is (_poll).
THEOREM GivingUpHolds == PollingSpec => []GivesUp
<1>1. PollingIInv => GivesUp
  BY PollingConstants DEF PollingIInv, GivesUp, Polled, Counts, Within
<1> QED BY <1>1, PollingHolds, PTL

\* The delays between attempts become shorter only after a stable time without one failed
\* reading, for every schedule of delays (_poll, BackoffPolicy).
THEOREM BackingOffHolds == PollingSpec => FlapsBackOff
<1>1. ASSUME PollingIInv, [PollingNext]_pollingVars
      PROVE  attempt' < attempt => quiet >= StableAfter
  <2>1. attempt \in 0..Len(Delays) /\ quiet = calm /\ Len(Delays) \in Nat
    BY <1>1, PollingConstants DEF PollingIInv, Counts, Within
  <2>2. \A a \in 0..Len(Delays) : ~(Attempted(a) < a) /\ ~(a < a)
    <3> TAKE a \in 0..Len(Delays)
    <3>1. Attempted(a) = a \/ Attempted(a) = a + 1
      BY DEF Attempted
    <3> QED BY <3>1, <2>1
  <2>3. CASE attempt' = attempt
    BY <2>1, <2>2, <2>3
  <2>4. CASE attempt' = Attempted(attempt)
    BY <2>1, <2>2, <2>4
  <2>5. ASSUME NEW valid \in BOOLEAN, attempt' \in {Rewarded(valid), Attempted(Rewarded(valid))}
        PROVE  attempt' < attempt => quiet >= StableAfter
    <3>1. CASE valid /\ Steady(valid) >= StableAfter
      BY <3>1, <2>1 DEF Steady
    <3>2. CASE ~(valid /\ Steady(valid) >= StableAfter)
      <4>1. Rewarded(valid) = attempt
        BY <3>2 DEF Rewarded
      <4>2. attempt' = attempt \/ attempt' = Attempted(attempt)
        BY <4>1, <2>5
      <4> QED BY <4>2, <2>3, <2>4
    <3> QED BY <3>1, <3>2
  <2>6. \/ attempt' = attempt
        \/ attempt' = Attempted(attempt)
        \/ \E valid \in BOOLEAN : attempt' \in {Rewarded(valid), Attempted(Rewarded(valid))}
    <3>1. CASE \E valid \in BOOLEAN : ReadStays(valid) \/ ReadGivesUp(valid)
      BY <3>1 DEF ReadStays, ReadGivesUp, Recovers
    <3> QED BY <1>1, <3>1 DEF PollingNext, TimePasses, Forced, DelayOver, Succeeds, Fails,
                              Disconnects, LinkDrops, Wakes, Recovers, pollingVars
  <2> QED BY <2>3, <2>4, <2>5, <2>6
<1>2. PollingIInv /\ [PollingNext]_pollingVars
        => [attempt' < attempt => quiet >= StableAfter]_pollingVars
  BY <1>1
<1> QED BY <1>2, PollingHolds, PTL DEF PollingSpec, FlapsBackOff
=============================================================================
