------------------------------ MODULE Register ------------------------------
(***************************************************************************)
(* The register of thermometers: which row stands for which thermometer.   *)
(* Rows are made from discovery results and bound to a hardware identity   *)
(* (service.py: register, patch_device); a discovery id is valid until the *)
(* next discovery, whoever makes it: a background scan, a requested one,   *)
(* or an operation that looks for its device.  An operation works with the *)
(* row as it was when the operation began, while others register, select   *)
(* identities, delete, scan and restart; the guided setup of               *)
(* config_cli.py thinks between a scan and the registration.               *)
(*                                                                         *)
(* A discovery is one step: it holds the adapter lock, and the candidates  *)
(* are replaced when it returns.  A recovery does to the register what a   *)
(* reconnect of the adapter's owner does; when it runs, and that an        *)
(* operation first stops it, is in Administration.                         *)
(***************************************************************************)
EXTENDS Naturals, FiniteSets

CONSTANTS
  Thermometers,   \* the hardware
  Advertised,     \* the names each may show: one advertisement may lack the name
  People,         \* those who go through the guided setup
  NoRow,          \* Python's None
  MaxAtOnce       \* bound: operations, deletions and setups under way

Labels == UNION {Advertised[t] : t \in Thermometers}   \* device ids, made from the names

ASSUME ThermometersAssumption == IsFiniteSet(Thermometers)
ASSUME MaxAtOnceAssumption == MaxAtOnce \in Nat
ASSUME NoRowAssumption == NoRow \notin Labels /\ NoRow \notin Thermometers

VARIABLES
  rows,      \* the devices table: identity and discovery id of each registered device
  seen,      \* _candidates
  holder,    \* _owner
  job,       \* the operation of each device, with the row it has read
  erasing,   \* devices whose DELETE waits
  lost,      \* devices whose operation lost the adapter: see DialsOwn
  setup      \* the guided setups

registerVars == <<rows, seen, holder, job, erasing, lost, setup>>

Stale == 0   \* a discovery id that stands for nothing

NoJob == [kind |-> "none", at |-> "idle", identity |-> NoRow, discovery |-> Stale, candidate |-> NoRow]
NoSetup == [at |-> "idle", id |-> Stale]

\* A row that was registered before identities were stored has none.
RegisterInit ==
  /\ \E legacy \in SUBSET Labels :
       /\ Cardinality(legacy) <= 1
       /\ rows = [d \in legacy |-> [identity |-> NoRow, discovery |-> Stale]]
  /\ seen = <<>>
  /\ holder = NoRow
  /\ job = [d \in Labels |-> NoJob]
  /\ erasing = {} /\ lost = {}
  /\ setup = [p \in People |-> NoSetup]

Registered == DOMAIN rows
Active(d) == job[d].at # "idle"

\* The bound: there is room for one more.
Room == Cardinality({d \in Labels : Active(d)}) + Cardinality(erasing)
          + Cardinality({p \in People : setup[p].at = "chosen"}) < MaxAtOnce

Bind(d, row) == [e \in Registered \cup {d} |-> IF e = d THEN row ELSE rows[e]]

(***************************************************************************)
(* Discovery: the thermometers that are awake get new opaque ids.  Ids are *)
(* never drawn again, so all earlier ones stand for nothing from then on.  *)
(***************************************************************************)
RowsAfter == [d \in Registered |-> [rows[d] EXCEPT !.discovery = Stale]]
JobAfter == [d \in Labels |-> [job[d] EXCEPT !.discovery = Stale]]
SetupAfter == [p \in People |-> [setup[p] EXCEPT !.id = Stale]]

\* The ids are opaque: which thermometer gets which does not matter.
Numbering(found) ==
  CHOOSE n \in [1..Cardinality(found) -> found] : \A t \in found : \E i \in DOMAIN n : n[i] = t

Namings(found) == {n \in [found -> Labels] : \A t \in found : n[t] \in Advertised[t]}

\* discover, and the replacement of the candidates.
Discovered ==
  \E found \in SUBSET Thermometers : \E named \in Namings(found) :
    seen' = [i \in 1..Cardinality(found) |->
               LET t == Numbering(found)[i] IN [identity |-> t, label |-> named[t]]]

\* _discovery_loop
BackgroundScan ==
  /\ Discovered
  /\ rows' = RowsAfter /\ job' = JobAfter /\ setup' = SetupAfter
  /\ UNCHANGED <<holder, erasing, lost>>

(***************************************************************************)
(* Registration                                                            *)
(***************************************************************************)
\* Fault: a device is known by the id made from its name.
TakenFault(t, d) == FALSE
Taken(t, d) == \E e \in Registered \ {d} : rows[e].identity = t

Queued(d, kind) ==
  [job EXCEPT ![d] = [NoJob EXCEPT !.kind = kind, !.at = "queued"]]

\* start_connection_operation: a command that may not be given.
Barred(d, kind) ==
  \/ Active(d) /\ job[d].kind # kind
  \/ ~Active(d) /\ kind # "disconnect" /\ holder \notin {NoRow, d}

\* _scan_and_register: a scan, and a thermometer is chosen from what it found.
ChooseFromScan(p) ==
  /\ setup[p].at = "idle" /\ Room
  /\ Discovered
  /\ rows' = RowsAfter /\ job' = JobAfter
  /\ IF seen' = <<>> THEN setup' = SetupAfter
     ELSE \E i \in DOMAIN seen' :
            setup' = [SetupAfter EXCEPT ![p] = [at |-> "chosen", id |-> i]]
  /\ UNCHANGED <<holder, erasing, lost>>

\* The result is still there, and neither the thermometer nor its name is known.
Registrable(p) ==
  /\ setup[p].id \in DOMAIN seen
  /\ ~Taken(seen[setup[p].id].identity, seen[setup[p].id].label)
  /\ seen[setup[p].id].label \notin Registered

SetupEnds(p) == setup' = [setup EXCEPT ![p] = NoSetup]

\* POST /api/v1/devices is refused, or the setup is given up.
SetupFails(p) ==
  /\ setup[p].at = "chosen"
  /\ SetupEnds(p)
  /\ UNCHANGED <<rows, seen, holder, job, erasing, lost>>

\* POST /api/v1/devices; a connect that was asked for with it may still be refused.
RegisterDevice(p, connect) ==
  /\ setup[p].at = "chosen"
  /\ Registrable(p)
  /\ LET c == seen[setup[p].id]
         d == c.label
         begins == connect /\ ~Barred(d, "connect") /\ ~Active(d)
     IN /\ rows' = Bind(d, [identity |-> c.identity, discovery |-> setup[p].id])
        /\ holder' = IF begins THEN d ELSE holder
        /\ job' = IF begins THEN Queued(d, "connect") ELSE job
  /\ SetupEnds(p)
  /\ UNCHANGED <<seen, erasing, lost>>

\* patch_device with a discovery id.
\* Fault: the owner's identity may be selected, too.
SelectableFault(d) == TRUE
Selectable(d) == holder # d

SelectIdentity(d, i) ==
  /\ Selectable(d)
  /\ i \in DOMAIN seen
  /\ ~Taken(seen[i].identity, d)
  /\ d \in Registered
  /\ rows' = Bind(d, [identity |-> seen[i].identity, discovery |-> i])
  /\ UNCHANGED <<seen, holder, job, erasing, lost, setup>>

(***************************************************************************)
(* Operations                                                              *)
(***************************************************************************)
Request(d, kind) ==
  /\ d \in Registered /\ Room
  /\ ~Active(d)
  /\ ~Barred(d, kind)
  /\ holder' = IF kind = "disconnect" THEN holder ELSE d
  /\ job' = Queued(d, kind)
  /\ UNCHANGED <<rows, seen, erasing, lost, setup>>

Over(d) == job' = [job EXCEPT ![d] = NoJob]

\* _execute_connection reads the row and, to disconnect, asks for the owner.
Begin(d) ==
  /\ job[d].at = "queued"
  /\ IF d \notin Registered \/ (job[d].kind = "disconnect" /\ holder \notin {NoRow, d})
       THEN Over(d)
       ELSE job' = [job EXCEPT ![d] =
                      [@ EXCEPT !.at = IF job[d].kind = "disconnect" THEN "dropping" ELSE "resolving",
                                !.identity = rows[d].identity,
                                !.discovery = rows[d].discovery]]
  /\ UNCHANGED <<rows, seen, holder, erasing, lost, setup>>

\* Disconnected: the candidate may be an obsolete object, and the adapter is free.
Drop(d) ==
  /\ job[d].at = "dropping"
  /\ seen' = [i \in DOMAIN seen \ {job[d].discovery} |-> seen[i]]
  /\ holder' = NoRow
  /\ lost' = lost \cup {e \in Labels \ {d} : holder = e /\ Active(e)}
  /\ Over(d)
  /\ UNCHANGED <<rows, erasing, setup>>

\* A cached candidate serves a connect, and a legacy row's reconnect.
Cached(d) ==
  /\ job[d].kind = "connect" \/ job[d].identity = NoRow
  /\ job[d].discovery \in DOMAIN seen

Dialing(d, t) == [NoJob EXCEPT !.kind = job[d].kind, !.at = "dialing", !.candidate = t]

UseCached(d) ==
  /\ job[d].at = "resolving"
  /\ Cached(d)
  /\ job' = [job EXCEPT ![d] = Dialing(d, seen[job[d].discovery].identity)]
  /\ UNCHANGED <<rows, seen, holder, erasing, lost, setup>>

\* Rediscovery looks for the identity, never for the name; the row learns the new id.
\* Fault: it takes what shows the device's name.
SoughtFault(d, c) == c.label = d
Sought(d, c) == c.identity = job[d].identity

Rediscover(d) ==
  /\ job[d].at = "resolving"
  /\ ~Cached(d)
  /\ Discovered
  /\ setup' = SetupAfter
  /\ LET ids == {i \in DOMAIN seen' : Sought(d, seen'[i])} IN
       IF ids = {} THEN rows' = RowsAfter /\ job' = [JobAfter EXCEPT ![d] = NoJob]
       ELSE \E i \in ids :
              /\ rows' = [e \in Registered |-> IF e = d THEN [RowsAfter[d] EXCEPT !.discovery = i]
                                              ELSE RowsAfter[e]]
              /\ job' = [JobAfter EXCEPT ![d] = Dialing(d, seen'[i].identity)]
  /\ UNCHANGED <<holder, erasing, lost>>

\* The operation succeeds or fails; recovery takes over where it failed.
Finish(d) ==
  /\ job[d].at \in {"resolving", "dialing", "dropping"}
  /\ Over(d)
  /\ UNCHANGED <<rows, seen, holder, erasing, lost, setup>>

(***************************************************************************)
(* Deletion and restart                                                    *)
(***************************************************************************)
\* DELETE is refused while an operation is in progress; then it may wait.
DeleteAsked(d) ==
  /\ d \in Registered \ erasing /\ Room
  /\ ~Active(d)
  /\ erasing' = erasing \cup {d}
  /\ UNCHANGED <<rows, seen, holder, job, lost, setup>>

Erase(d) ==
  /\ d \in erasing
  /\ erasing' = erasing \ {d}
  /\ rows' = [e \in Registered \ {d} |-> rows[e]]
  /\ holder' = IF holder = d THEN NoRow ELSE holder
  /\ lost' = IF Active(d) THEN lost \cup {d} ELSE lost
  /\ UNCHANGED <<seen, job, setup>>

\* A new process starts without candidates; a device that was connected owns the adapter.
Reboot ==
  /\ seen' = <<>>
  /\ holder' \in Registered \cup {NoRow}
  /\ job' = [d \in Labels |-> NoJob]
  /\ erasing' = {}
  /\ UNCHANGED <<rows, lost, setup>>

Guided(p) ==
  \/ ChooseFromScan(p) \/ SetupFails(p)
  \/ \E connect \in BOOLEAN : RegisterDevice(p, connect)

Operated(d) ==
  \/ \E kind \in {"connect", "disconnect", "reconnect"} : Request(d, kind)
  \/ Begin(d) \/ Drop(d) \/ UseCached(d) \/ Rediscover(d) \/ Finish(d)

RegisterNext ==
  \/ BackgroundScan \/ Reboot
  \/ \E p \in People : Guided(p)
  \/ \E d \in Labels :
       \/ Operated(d) \/ DeleteAsked(d) \/ Erase(d)
       \/ \E i \in DOMAIN seen : SelectIdentity(d, i)

RegisterSpec == RegisterInit /\ [][RegisterNext]_registerVars

(***************************************************************************)
(* Properties                                                              *)
(***************************************************************************)
Identities == Thermometers \cup {NoRow}
Ids == 0..Cardinality(Thermometers)

\* Every variable keeps its type.
RegisterTypeOK ==
  /\ Registered \subseteq Labels
  /\ \A d \in Registered : rows[d] \in [identity : Identities, discovery : Ids]
  /\ DOMAIN seen \subseteq Ids
  /\ \A i \in DOMAIN seen : seen[i] \in [identity : Thermometers, label : Labels]
  /\ holder \in Labels \cup {NoRow}
  /\ job \in [Labels -> [kind : {"none", "connect", "disconnect", "reconnect"},
                        at : {"idle", "queued", "dropping", "resolving", "dialing"},
                        identity : Identities, discovery : Ids, candidate : Identities]]
  /\ erasing \subseteq Labels /\ lost \subseteq Labels
  /\ setup \in [People -> [at : {"idle", "chosen"}, id : Ids]]

\* No thermometer is registered twice, whatever names it shows from scan to scan and however
\* registrations and selections of an identity follow one another.
OneRowEach ==
  \A d, e \in Registered :
    d # e /\ rows[d].identity = rows[e].identity => rows[d].identity = NoRow

\* A row whose discovery id is current names its own thermometer, for a connect dials such a
\* candidate without looking at the identity; and an operation dials the thermometer that its
\* row stands for at that moment, not the one it stood for when the operation began.
\* Operations write the ids they have found into rows that others may have changed meanwhile;
\* both hold but for devices whose operation lost the adapter to a delete or to the disconnect
\* of another device.
DialsOwn ==
  \A d \in Registered \ lost :
    /\ rows[d].discovery \in DOMAIN seen => seen[rows[d].discovery].identity = rows[d].identity
    /\ job[d].at = "dialing" => job[d].candidate = rows[d].identity
=============================================================================
