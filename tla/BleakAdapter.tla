---------------------------- MODULE BleakAdapter ----------------------------
(***************************************************************************)
(* The adapter for real thermometers (adapters/igrill_v202.py) and the     *)
(* release of a leftover connection (bluez.py).  Each connect makes a new  *)
(* Bleak client, the adapter remembers the one it serves, and a client     *)
(* that goes down calls _on_disconnect whoever is served by then.  Calls   *)
(* come one at a time, which the service's lock guarantees                 *)
(* (Administration: AdapterExclusive); each may fail, time out or be       *)
(* cancelled at any point, and the links go down by themselves.            *)
(*                                                                         *)
(* Clients are numbered as they are made.  Time passes in steps; an        *)
(* interval of the battery schedule is BatteryInterval steps long.         *)
(***************************************************************************)
EXTENDS Naturals

CONSTANTS
  MaxClients,        \* bound: connects attempted
  BatteryInterval,   \* battery_interval
  NoClient           \* Python's None

ASSUME ClientsAssumption == MaxClients \in Nat /\ NoClient \notin 1..MaxClients
ASSUME BatteryAssumption == BatteryInterval \in Nat \ {0}

VARIABLES
  made,       \* the clients made so far
  alive,      \* those whose link is up
  client,     \* _client
  call,       \* the adapter call in progress and the client it works with
  battery,    \* _battery_percent: the client it was read from, and the time until _battery_due
  abandoned,  \* clients whose disconnect was given up while their link was up
  shown       \* the last snapshot returned

bleakVars == <<made, alive, client, call, battery, abandoned, shown>>

Clients == 1..MaxClients
Idle == [at |-> "idle", with |-> NoClient]
NoBattery == [from |-> NoClient, due |-> 0]
Unread == [probes |-> NoClient, battery |-> NoClient]

BleakInit ==
  /\ made = 0
  /\ alive = {}
  /\ client = NoClient
  /\ call = Idle
  /\ battery = NoBattery
  /\ abandoned = {}
  /\ shown = Unread

IsConnected == client \in alive

Calls(at, c) == call' = [at |-> at, with |-> c]

(***************************************************************************)
(* connect: a client is made, connected to, and initialised.  What fails   *)
(* after the link is up takes it down again.                               *)
(***************************************************************************)
Dial ==
  /\ call = Idle
  /\ ~IsConnected
  /\ made < MaxClients
  /\ made' = made + 1
  /\ Calls("connecting", made')
  /\ UNCHANGED <<alive, client, battery, abandoned, shown>>

LinkUp ==
  /\ call.at = "connecting"
  /\ alive' = alive \cup {call.with}
  /\ Calls("initialising", call.with)
  /\ UNCHANGED <<made, client, battery, abandoned, shown>>

\* Fault: the battery of an earlier link is kept.
ForgottenFault == battery
Forgotten == NoBattery

Initialised ==
  /\ call.at = "initialising"
  /\ client' = call.with
  /\ battery' = Forgotten
  /\ call' = Idle
  /\ UNCHANGED <<made, alive, abandoned, shown>>

\* Fault: a failed or cancelled connect leaves its link alone.
TakesDownFault(c) == FALSE
TakesDown(c) == c \in alive

DialFails ==
  /\ call.at \in {"connecting", "initialising"}
  /\ IF TakesDown(call.with) THEN Calls("closing", call.with) ELSE call' = Idle
  /\ UNCHANGED <<made, alive, client, battery, abandoned, shown>>

(***************************************************************************)
(* disconnect: the client is forgotten first.                              *)
(***************************************************************************)
Disconnect ==
  /\ call = Idle
  /\ client' = NoClient
  /\ IF IsConnected THEN Calls("closing", client) ELSE call' = Idle
  /\ UNCHANGED <<made, alive, battery, abandoned, shown>>

\* The links of gone are down: each calls _on_disconnect.
GoDown(gone) ==
  /\ alive' = alive \ gone
  /\ client' = IF gone = {} THEN client ELSE NoClient

Closed ==
  /\ call.at = "closing"
  /\ GoDown({call.with} \cap alive)
  /\ call' = Idle
  /\ UNCHANGED <<made, battery, abandoned, shown>>

\* After five seconds, with an error, or cancelled: nobody asks again.
CloseAbandoned ==
  /\ call.at = "closing"
  /\ abandoned' = abandoned \cup ({call.with} \cap alive)
  /\ call' = Idle
  /\ UNCHANGED <<made, alive, client, battery, shown>>

LinkLost(c) ==
  /\ c \in alive
  /\ GoDown({c})
  /\ UNCHANGED <<made, call, battery, abandoned, shown>>

(***************************************************************************)
(* release_registered_connection: if BlueZ reports a connection of the     *)
(* device, it is disconnected and BlueZ is asked again.                    *)
(***************************************************************************)
ReleaseBegins ==
  /\ call = Idle
  /\ alive # {}
  /\ Calls("releasing", NoClient)
  /\ UNCHANGED <<made, alive, client, battery, abandoned, shown>>

\* The links of other thermometers stay; a command may fail or be too late.
ReleaseEnds ==
  /\ call.at = "releasing"
  /\ \E gone \in SUBSET alive : GoDown(gone)
  /\ call' = Idle
  /\ UNCHANGED <<made, battery, abandoned, shown>>

(***************************************************************************)
(* read_snapshot works with the client it found.                           *)
(***************************************************************************)
BatteryWanted == battery.from = NoClient \/ battery.due = 0

ReadSnapshot ==
  /\ call = Idle
  /\ IsConnected
  /\ Calls(IF BatteryWanted THEN "battery" ELSE "probes", client)
  /\ UNCHANGED <<made, alive, client, battery, abandoned, shown>>

\* A failed battery read leaves none, and the next snapshot tries again.
ReadBattery ==
  /\ call.at = "battery"
  /\ battery' \in {[from |-> c, due |-> BatteryInterval] :
                     c \in {NoClient} \cup ({call.with} \cap alive)}
  /\ Calls("probes", call.with)
  /\ UNCHANGED <<made, alive, client, abandoned, shown>>

ReadProbes ==
  /\ call.at = "probes"
  /\ shown' = [probes |-> call.with, battery |-> battery.from]
  /\ call' = Idle
  /\ UNCHANGED <<made, alive, client, battery, abandoned>>

ReadCancelled ==
  /\ call.at \in {"battery", "probes"}
  /\ call' = Idle
  /\ UNCHANGED <<made, alive, client, battery, abandoned, shown>>

BatteryAges ==
  /\ battery.due > 0
  /\ battery' = [battery EXCEPT !.due = @ - 1]
  /\ UNCHANGED <<made, alive, client, call, abandoned, shown>>

BleakNext ==
  \/ Dial \/ LinkUp \/ Initialised \/ DialFails
  \/ Disconnect \/ Closed \/ CloseAbandoned
  \/ ReleaseBegins \/ ReleaseEnds
  \/ ReadSnapshot \/ ReadBattery \/ ReadProbes \/ ReadCancelled
  \/ BatteryAges
  \/ \E c \in Clients : LinkLost(c)

BleakSpec == BleakInit /\ [][BleakNext]_bleakVars

(***************************************************************************)
(* Properties                                                              *)
(***************************************************************************)
\* Every variable keeps its type.
BleakTypeOK ==
  /\ made \in 0..MaxClients
  /\ alive \subseteq Clients /\ abandoned \subseteq Clients
  /\ client \in Clients \cup {NoClient}
  /\ call \in [at : {"idle", "connecting", "initialising", "closing", "releasing",
                     "battery", "probes"},
               with : Clients \cup {NoClient}]
  /\ battery \in [from : Clients \cup {NoClient}, due : 0..BatteryInterval]
  /\ shown \in [probes : Clients \cup {NoClient}, battery : Clients \cup {NoClient}]

\* A link that is up is the one the adapter serves or is working on, unless some disconnect
\* was given up before: whatever fails, is cancelled or goes down, and when.  After such a
\* disconnect the callback of the old link makes the adapter forget its current one.
NoLinkForgotten ==
  alive \subseteq {client, call.with} \/ abandoned # {}

\* The adapter implements what the service relies on.
Reading == IF call.at \in {"battery", "probes"} THEN call.with ELSE NoClient

Link == INSTANCE DeviceLink WITH
  Links <- Clients, NoLink <- NoClient,
  serving <- IF IsConnected THEN client ELSE NoClient,
  reading <- Reading,
  snapshot <- shown

LinkImplemented == Link!LinkSpec
=============================================================================
