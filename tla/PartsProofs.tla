------------------------------ MODULE PartsProofs ------------------------------
(***************************************************************************)
(* What Register, Streams, OperationLog, Deployment and Throttle promise   *)
(* for any thermometers and names, clients, slots and queue sizes, lengths *)
(* of the log, numbers of operations, restarts, releases and backups, and  *)
(* rates and prices; and that a behaviour of MCParts is one of each part.  *)
(***************************************************************************)
EXTENDS MCParts, DeviceProofs, FiniteSetTheorems, TLAPS

(***************************************************************************)
(* Register                                                                *)
(***************************************************************************)
Row(r) == DOMAIN r = {"identity", "discovery"}

RowsInv == \A d \in Registered : Row(rows[d])

RegisterIInv == RowsInv /\ OneRowEach

LEMMA RegisterInitial == RegisterInit => RegisterIInv
BY DEF RegisterInit, RegisterIInv, RowsInv, Row, OneRowEach, Registered

\* Giving rows other discovery ids, or dropping some, changes no identity.
LEMMA IdentitiesKept ==
  ASSUME RegisterIInv, DOMAIN rows' \subseteq DOMAIN rows,
         \A d \in DOMAIN rows' :
           rows'[d] = rows[d] \/ \E i : rows'[d] = [rows[d] EXCEPT !.discovery = i]
  PROVE  RegisterIInv'
<1>1. \A d \in DOMAIN rows' : Row(rows'[d]) /\ rows'[d].identity = rows[d].identity
  <2> TAKE d \in DOMAIN rows'
  <2>1. Row(rows[d])
    BY DEF RegisterIInv, RowsInv, Registered
  <2>2. \A i : LET r == [rows[d] EXCEPT !.discovery = i] IN Row(r) /\ r.identity = rows[d].identity
    BY <2>1 DEF Row
  <2> QED BY <2>1, <2>2
<1>2. OneRowEach'
  BY <1>1 DEF RegisterIInv, OneRowEach, Registered
<1> QED BY <1>1, <1>2 DEF RegisterIInv, RowsInv, Registered

LEMMA RescanKeeps == ASSUME RegisterIInv, rows' = RowsAfter PROVE RegisterIInv'
<1>1. /\ DOMAIN rows' = DOMAIN rows
      /\ \A d \in DOMAIN rows : rows'[d] = [rows[d] EXCEPT !.discovery = Stale]
  BY DEF RowsAfter, Registered
<1> QED BY <1>1, IdentitiesKept

LEMMA BindKeeps ==
  ASSUME RegisterIInv, NEW d, NEW t, NEW i, ~Taken(t, d),
         rows' = Bind(d, [identity |-> t, discovery |-> i])
  PROVE  RegisterIInv'
<1>1. DOMAIN rows' = DOMAIN rows \cup {d}
  BY DEF Bind, Registered
<1>2. rows'[d] = [identity |-> t, discovery |-> i]
  BY DEF Bind, Registered
<1>3. \A e \in DOMAIN rows \ {d} : rows'[e] = rows[e] /\ rows[e].identity # t
  BY DEF Bind, Registered, Taken
<1>4. Row([identity |-> t, discovery |-> i]) /\ rows'[d].identity = t
  BY <1>2 DEF Row
<1>5. RowsInv'
  BY <1>1, <1>2, <1>3, <1>4 DEF RegisterIInv, RowsInv, Registered
<1>6. OneRowEach'
  BY <1>1, <1>3, <1>4 DEF RegisterIInv, OneRowEach, Registered
<1> QED BY <1>5, <1>6 DEF RegisterIInv

LEMMA RegisterStep == RegisterIInv /\ [RegisterNext]_registerVars => RegisterIInv'
<1> SUFFICES ASSUME RegisterIInv, [RegisterNext]_registerVars PROVE RegisterIInv'
  OBVIOUS
<1>1. CASE UNCHANGED rows
  BY <1>1, IdentitiesKept
<1>2. CASE BackgroundScan
  BY <1>2, RescanKeeps DEF BackgroundScan
<1>3. ASSUME NEW p \in People, Guided(p) PROVE RegisterIInv'
  <2>1. CASE ChooseFromScan(p)
    BY <2>1, RescanKeeps DEF ChooseFromScan
  <2>2. CASE SetupFails(p)
    BY <2>2, <1>1 DEF SetupFails
  <2>3. ASSUME NEW connect \in BOOLEAN, RegisterDevice(p, connect) PROVE RegisterIInv'
    <3>1. /\ rows' = Bind(seen[setup[p].id].label,
                          [identity |-> seen[setup[p].id].identity, discovery |-> setup[p].id])
          /\ ~Taken(seen[setup[p].id].identity, seen[setup[p].id].label)
      BY <2>3 DEF RegisterDevice, Registrable
    <3> QED BY <3>1, BindKeeps
  <2> QED BY <1>3, <2>1, <2>2, <2>3 DEF Guided
<1>4. ASSUME NEW d \in Labels, Operated(d) PROVE RegisterIInv'
  <2>1. CASE Rediscover(d)
    <3>1. CASE rows' = RowsAfter
      BY <3>1, RescanKeeps
    <3>2. CASE rows' # RowsAfter
      <4>1. PICK i : rows' = [e \in Registered |-> IF e = d THEN [RowsAfter[d] EXCEPT !.discovery = i]
                                                  ELSE RowsAfter[e]]
        BY <2>1, <3>2 DEF Rediscover
      <4>2. \A e \in Registered : RowsAfter[e] = [rows[e] EXCEPT !.discovery = Stale]
        BY DEF RowsAfter
      <4>3. d \in Registered =>
              [[rows[d] EXCEPT !.discovery = Stale] EXCEPT !.discovery = i] = [rows[d] EXCEPT !.discovery = i]
        BY DEF RegisterIInv, RowsInv, Row
      <4>4. DOMAIN rows' = DOMAIN rows
        BY <4>1 DEF Registered
      <4>5. \A e \in DOMAIN rows : \E j : rows'[e] = [rows[e] EXCEPT !.discovery = j]
        BY <4>1, <4>2, <4>3 DEF Registered
      <4> QED BY <4>4, <4>5, IdentitiesKept
    <3> QED BY <3>1, <3>2
  <2>2. CASE ~Rediscover(d)
    BY <1>4, <2>2, <1>1 DEF Operated, Request, Begin, Drop, UseCached, Finish
  <2> QED BY <2>1, <2>2
<1>5. ASSUME NEW d \in Labels, DeleteAsked(d) PROVE RegisterIInv'
  BY <1>5, <1>1 DEF DeleteAsked
<1>6. ASSUME NEW d \in Labels, Erase(d) PROVE RegisterIInv'
  <2>1. rows' = [e \in Registered \ {d} |-> rows[e]]
    BY <1>6 DEF Erase
  <2> QED BY <2>1, IdentitiesKept DEF Registered
<1>7. ASSUME NEW d \in Labels, NEW i \in DOMAIN seen, SelectIdentity(d, i) PROVE RegisterIInv'
  BY <1>7, BindKeeps DEF SelectIdentity
<1>8. CASE Reboot
  BY <1>8, <1>1 DEF Reboot
<1>9. CASE UNCHANGED registerVars
  BY <1>9, <1>1 DEF registerVars
<1> QED BY <1>2, <1>3, <1>4, <1>5, <1>6, <1>7, <1>8, <1>9 DEF RegisterNext

\* The inductive invariant: nobody registers a thermometer that has a row (service.py, register).
THEOREM RegisterHolds == RegisterSpec => []RegisterIInv
BY RegisterInitial, RegisterStep, PTL DEF RegisterSpec

\* No thermometer is registered twice: for any number of thermometers, names and people
\* (register, patch_device).
THEOREM NoneRegisteredTwice == RegisterSpec => []OneRowEach
<1>1. RegisterIInv => OneRowEach
  BY DEF RegisterIInv
<1> QED BY <1>1, RegisterHolds, PTL

(***************************************************************************)
(* Which thermometer is dialed                                             *)
(***************************************************************************)
RowType == [identity : Identities, discovery : Nat]
JobType == [kind : {"none", "connect", "disconnect", "reconnect"},
            at : {"idle", "queued", "dropping", "resolving", "dialing"},
            identity : Identities, discovery : Nat, candidate : Identities]

SeenType ==
  /\ DOMAIN seen \subseteq Nat \ {0}
  /\ \A i \in DOMAIN seen : seen[i].identity \in Thermometers /\ seen[i].label \in Labels

RegisterTypes ==
  /\ \A d \in Registered : d \in Labels /\ rows[d] \in RowType
  /\ SeenType
  /\ job \in [Labels -> JobType]

\* Of a device that has not lost the adapter: with an operation it is registered and, but for a
\* disconnect, owns the adapter; so nobody may select another identity for it, and what the
\* operation has read still holds.
Owning(d) ==
  Active(d) => d \in Registered /\ (job[d].kind # "disconnect" => holder = d)

Resolving(d) ==
  /\ job[d].at \in {"resolving", "dialing"} => job[d].kind # "disconnect"
  /\ job[d].at = "resolving" =>
       /\ job[d].identity = rows[d].identity
       /\ job[d].discovery \in DOMAIN seen => seen[job[d].discovery].identity = rows[d].identity

Dialed(d) ==
  d \in Registered =>
    /\ rows[d].discovery \in DOMAIN seen => seen[rows[d].discovery].identity = rows[d].identity
    /\ job[d].at = "dialing" => job[d].candidate = rows[d].identity

Sound(d) == Owning(d) /\ Resolving(d) /\ Dialed(d)

DialsIInv == RegisterTypes /\ \A d \in Labels \ lost : Sound(d)

LEMMA DialsInitial == RegisterInit => DialsIInv
<1> SUFFICES ASSUME RegisterInit PROVE DialsIInv
  OBVIOUS
<1>1. NoJob \in JobType
  BY DEF NoJob, JobType, Identities, Stale
<1>2. RegisterTypes
  BY <1>1 DEF RegisterInit, RegisterTypes, SeenType, RowType, Registered, Identities, Stale
<1>3. \A d \in Labels : job[d].at = "idle" /\ (d \in Registered => rows[d].discovery = 0)
  BY DEF RegisterInit, NoJob, Registered, Stale
<1>4. \A d \in Labels : Sound(d)
  BY <1>2, <1>3 DEF Sound, Owning, Resolving, Dialed, Active, RegisterTypes, SeenType
<1> QED BY <1>2, <1>4 DEF DialsIInv

LEMMA NumberingType ==
  ASSUME NEW found, found \subseteq Thermometers
  PROVE  /\ Cardinality(found) \in Nat
         /\ Numbering(found) \in [1..Cardinality(found) -> found]
<1>1. IsFiniteSet(found)
  BY ThermometersAssumption, FS_Subset
<1>2. Cardinality(found) \in Nat /\ ExistsBijection(1..Cardinality(found), found)
  BY <1>1, FS_CardinalityType
<1>3. \E n \in [1..Cardinality(found) -> found] : \A t \in found : \E i \in DOMAIN n : n[i] = t
  BY <1>2 DEF ExistsBijection, Bijection, Injection, Surjection
<1> QED BY <1>2, <1>3 DEF Numbering

LEMMA DiscoveredType == Discovered => SeenType'
<1> SUFFICES ASSUME Discovered PROVE SeenType'
  OBVIOUS
<1> DEFINE Results(found, named) ==
             [i \in 1..Cardinality(found) |->
                [identity |-> Numbering(found)[i], label |-> named[Numbering(found)[i]]]]
<1>a. PICK found \in SUBSET Thermometers :
        \E named \in Namings(found) : seen' = Results(found, named)
  BY DEF Discovered
<1>1. PICK named \in Namings(found) : seen' = Results(found, named)
  BY <1>a
<1>2. Cardinality(found) \in Nat /\ Numbering(found) \in [1..Cardinality(found) -> found]
  BY NumberingType
<1>3. \A t \in found : t \in Thermometers /\ named[t] \in Labels
  BY DEF Namings, Labels
<1>4. 1..Cardinality(found) \subseteq Nat \ {0}
  BY <1>2
<1>5. \A i \in 1..Cardinality(found) : Numbering(found)[i] \in found
  BY <1>2
<1> QED BY <1>1, <1>3, <1>4, <1>5 DEF SeenType

\* What is known of one device.
LEMMA OfDevice ==
  ASSUME DialsIInv, NEW d \in Labels
  PROVE  /\ job[d] \in JobType
         /\ d \in Registered => rows[d] \in RowType
         /\ d \notin lost => Sound(d)
BY DEF DialsIInv, RegisterTypes

LEMMA NoJobTrue == NoJob \in JobType /\ NoJob.at = "idle" /\ NoJob.discovery = 0
BY DEF NoJob, JobType, Identities, Stale

LEMMA DialingJob ==
  ASSUME NEW d, job[d] \in JobType, NEW t \in Identities
  PROVE  /\ Dialing(d, t) \in JobType
         /\ Dialing(d, t).at = "dialing" /\ Dialing(d, t).kind = job[d].kind
         /\ Dialing(d, t).candidate = t
BY DEF Dialing, NoJob, JobType, Identities, Stale

(***************************************************************************)
(* Steps without a scan: at most the device d changes.                     *)
(***************************************************************************)
LEMMA OneDevice ==
  ASSUME DialsIInv, RegisterTypes', NEW d \in Labels, lost \subseteq lost',
         \A i \in DOMAIN seen' : i \in DOMAIN seen /\ seen'[i] = seen[i],
         \A e \in Labels \ {d} : job'[e] = job[e],
         \A e \in Labels \ {d} : (e \in DOMAIN rows' <=> e \in Registered)
                                 /\ (e \in Registered => rows'[e] = rows[e]),
         \A e \in Labels \ (lost' \cup {d}) : Active(e) /\ job[e].kind # "disconnect" => holder' = holder,
         d \notin lost' => Sound(d)'
  PROVE  DialsIInv'
<1>1. ASSUME NEW e \in Labels \ (lost' \cup {d}) PROVE Sound(e)'
  <2>1. Sound(e)
    BY DEF DialsIInv
  <2>2. Owning(e)'
    BY <2>1 DEF Sound, Owning, Active, Registered
  <2>3. job[e].at = "resolving" => e \in Registered
    BY <2>1 DEF Sound, Owning, Active
  <2>4. Resolving(e)'
    BY <2>1, <2>3 DEF Sound, Resolving
  <2>5. Dialed(e)'
    BY <2>1 DEF Sound, Dialed, Registered
  <2> QED BY <2>2, <2>4, <2>5 DEF Sound
<1> QED BY <1>1 DEF DialsIInv

\* Steps that leave the rows and the candidates alone.
LEMMA OneJob ==
  ASSUME DialsIInv, UNCHANGED <<rows, seen, lost>>, NEW d \in Labels,
         NEW j \in JobType, job' = [job EXCEPT ![d] = j],
         \A e \in Labels \ (lost \cup {d}) : Active(e) /\ job[e].kind # "disconnect" => holder' = holder,
         d \notin lost => Sound(d)'
  PROVE  DialsIInv'
<1>1. RegisterTypes'
  BY DEF DialsIInv, RegisterTypes, SeenType, Registered
<1>2. \A e \in Labels \ {d} : job'[e] = job[e]
  BY DEF DialsIInv, RegisterTypes
<1> QED BY <1>1, <1>2, OneDevice DEF Registered

LEMMA OverStep ==
  ASSUME DialsIInv, UNCHANGED <<rows, seen, holder, lost>>, NEW d \in Labels, Over(d)
  PROVE  DialsIInv'
<1>1. job' = [job EXCEPT ![d] = NoJob] /\ job'[d] = NoJob
  BY DEF Over, DialsIInv, RegisterTypes
<1>2. d \notin lost => Sound(d)'
  BY <1>1, NoJobTrue, OfDevice DEF Sound, Owning, Resolving, Dialed, Active, Registered
<1> QED BY <1>1, <1>2, NoJobTrue, OneJob

LEMMA BystanderStep ==
  ASSUME DialsIInv, UNCHANGED <<rows, seen, holder, job, lost>> PROVE DialsIInv'
BY DEF DialsIInv, RegisterTypes, SeenType, Sound, Owning, Resolving, Dialed, Active, Registered

\* An operation other than a disconnect begins only while nobody else owns the adapter.
LEMMA Unowned ==
  ASSUME DialsIInv, NEW d \in Labels, holder \in {NoRow, d}
  PROVE  \A e \in Labels \ (lost \cup {d}) : ~(Active(e) /\ job[e].kind # "disconnect")
BY NoRowAssumption DEF DialsIInv, Sound, Owning

LEMMA QueuedJob ==
  ASSUME DialsIInv, NEW d \in Labels, NEW kind \in {"connect", "disconnect", "reconnect"}
  PROVE  \E j \in JobType : /\ Queued(d, kind) = [job EXCEPT ![d] = j]
                            /\ Queued(d, kind)[d] = j
                            /\ j.at = "queued" /\ j.kind = kind
<1> DEFINE j == [NoJob EXCEPT !.kind = kind, !.at = "queued"]
<1>1. j \in JobType /\ j.at = "queued" /\ j.kind = kind
  BY DEF NoJob, JobType, Identities, Stale
<1>2. Queued(d, kind) = [job EXCEPT ![d] = j] /\ Queued(d, kind)[d] = j
  BY DEF Queued, DialsIInv, RegisterTypes
<1> QED BY <1>1, <1>2

LEMMA RequestStep ==
  ASSUME DialsIInv, NEW d \in Labels, NEW kind \in {"connect", "disconnect", "reconnect"},
         Request(d, kind)
  PROVE  DialsIInv'
<1>1. PICK j \in JobType : /\ job' = [job EXCEPT ![d] = j] /\ job'[d] = j
                           /\ j.at = "queued" /\ j.kind = kind
  BY QueuedJob DEF Request
<1>2. d \notin lost => Sound(d)'
  BY <1>1, OfDevice DEF Request, Sound, Owning, Resolving, Dialed, Active, Registered
<1>3. \A e \in Labels \ (lost \cup {d}) : Active(e) /\ job[e].kind # "disconnect" => holder' = holder
  BY Unowned DEF Request, Barred
<1>4. UNCHANGED <<rows, seen, lost>>
  BY DEF Request
<1> QED BY <1>1, <1>2, <1>3, <1>4, OneJob

LEMMA BeginStep == ASSUME DialsIInv, NEW d \in Labels, Begin(d) PROVE DialsIInv'
<1>1. UNCHANGED <<rows, seen, holder, lost>>
  BY DEF Begin
<1>2. CASE d \notin Registered \/ (job[d].kind = "disconnect" /\ holder \notin {NoRow, d})
  BY <1>1, <1>2, OverStep DEF Begin
<1>3. CASE ~(d \notin Registered \/ (job[d].kind = "disconnect" /\ holder \notin {NoRow, d}))
  <2>1. PICK at : /\ at = (IF job[d].kind = "disconnect" THEN "dropping" ELSE "resolving")
                  /\ job' = [job EXCEPT ![d] = [job[d] EXCEPT !.at = at, !.identity = rows[d].identity,
                                                             !.discovery = rows[d].discovery]]
    BY <1>3 DEF Begin, DialsIInv, RegisterTypes
  <2>2. /\ job[d] \in JobType /\ rows[d].identity \in Identities /\ rows[d].discovery \in Nat
        /\ d \in Registered /\ job[d].at = "queued"
    BY <1>3, OfDevice DEF RowType, Begin
  <2>3. PICK j \in JobType :
          /\ job' = [job EXCEPT ![d] = j]
          /\ j.kind = job[d].kind /\ j.at = at
          /\ j.identity = rows[d].identity /\ j.discovery = rows[d].discovery
    <3> DEFINE j == [job[d] EXCEPT !.at = at, !.identity = rows[d].identity,
                                   !.discovery = rows[d].discovery]
    <3>1. at \in {"dropping", "resolving"}
      BY <2>1
    <3>2. /\ j \in JobType /\ j.kind = job[d].kind /\ j.at = at
          /\ j.identity = rows[d].identity /\ j.discovery = rows[d].discovery
      BY <2>2, <3>1 DEF JobType
    <3>3. job' = [job EXCEPT ![d] = j]
      BY <2>1
    <3> QED BY <3>2, <3>3
  <2>4. job'[d] = j
    BY <2>3 DEF DialsIInv, RegisterTypes
  <2>5. d \notin lost => Sound(d)'
    BY <1>1, <2>1, <2>2, <2>3, <2>4, OfDevice DEF Sound, Owning, Resolving, Dialed, Active, Registered
  <2> QED BY <1>1, <2>3, <2>5, OneJob
<1> QED BY <1>2, <1>3

LEMMA UseCachedStep == ASSUME DialsIInv, NEW d \in Labels, UseCached(d) PROVE DialsIInv'
<1> DEFINE t == seen[job[d].discovery].identity
<1>1. /\ job' = [job EXCEPT ![d] = Dialing(d, t)] /\ job[d].at = "resolving"
      /\ job[d].discovery \in DOMAIN seen /\ UNCHANGED <<rows, seen, holder, lost>>
  BY DEF UseCached, Cached
<1>2. t \in Identities /\ job[d] \in JobType /\ job \in [Labels -> JobType]
  BY <1>1, OfDevice DEF DialsIInv, RegisterTypes, SeenType, Identities
<1>3. /\ Dialing(d, t) \in JobType /\ job'[d] = Dialing(d, t)
      /\ Dialing(d, t).at = "dialing" /\ Dialing(d, t).kind = job[d].kind
      /\ Dialing(d, t).candidate = t
  BY <1>1, <1>2, DialingJob
<1>4. d \notin lost => Sound(d)'
  BY <1>1, <1>3, OfDevice DEF Sound, Owning, Resolving, Dialed, Active, Registered
<1> QED BY <1>1, <1>3, <1>4, OneJob

LEMMA DropStep == ASSUME DialsIInv, NEW d \in Labels, Drop(d) PROVE DialsIInv'
<1>1. /\ seen' = [i \in DOMAIN seen \ {job[d].discovery} |-> seen[i]]
      /\ lost' = lost \cup {e \in Labels \ {d} : holder = e /\ Active(e)}
      /\ job' = [job EXCEPT ![d] = NoJob] /\ rows' = rows
  BY DEF Drop, Over
<1>2. job \in [Labels -> JobType] /\ job' \in [Labels -> JobType] /\ job'[d] = NoJob
      /\ \A e \in Labels \ {d} : job'[e] = job[e]
  BY <1>1, NoJobTrue DEF DialsIInv, RegisterTypes
<1>3. \A i \in DOMAIN seen' : i \in DOMAIN seen /\ seen'[i] = seen[i]
  BY <1>1
<1>4. RegisterTypes'
  BY <1>1, <1>2, <1>3 DEF DialsIInv, RegisterTypes, SeenType, Registered
<1>5. \A e \in Labels \ (lost' \cup {d}) : ~(Active(e) /\ job[e].kind # "disconnect")
  BY <1>1 DEF DialsIInv, Sound, Owning
<1>6. d \notin lost' => Sound(d)'
  BY <1>1, <1>2, <1>3, NoJobTrue, OfDevice DEF Sound, Owning, Resolving, Dialed, Active, Registered
<1> QED BY <1>1, <1>2, <1>3, <1>4, <1>5, <1>6, OneDevice DEF Registered

LEMMA EraseStep == ASSUME DialsIInv, NEW d \in Labels, Erase(d) PROVE DialsIInv'
<1>1. /\ rows' = [e \in Registered \ {d} |-> rows[e]]
      /\ holder' = (IF holder = d THEN NoRow ELSE holder)
      /\ lost' = (IF Active(d) THEN lost \cup {d} ELSE lost)
      /\ UNCHANGED <<seen, job>>
  BY DEF Erase
<1>2. RegisterTypes'
  BY <1>1 DEF DialsIInv, RegisterTypes, SeenType, Registered
<1>3. \A e \in Labels \ (lost' \cup {d}) : Active(e) /\ job[e].kind # "disconnect" => holder' = holder
  BY <1>1 DEF DialsIInv, Sound, Owning
<1>4. d \notin lost' => Sound(d)'
  BY <1>1 DEF Sound, Owning, Resolving, Dialed, Active, Registered
<1> QED BY <1>1, <1>2, <1>3, <1>4, OneDevice DEF Registered

\* A row gets an identity, when its device does not own the adapter.
LEMMA BindStep ==
  ASSUME DialsIInv, NEW d \in Labels, NEW i \in DOMAIN seen,
         rows' = Bind(d, [identity |-> seen[i].identity, discovery |-> i]),
         UNCHANGED <<seen, lost>>,
         job' \in [Labels -> JobType], \A e \in Labels \ {d} : job'[e] = job[e],
         \A e \in Labels \ (lost \cup {d}) : Active(e) /\ job[e].kind # "disconnect" => holder' = holder,
         d \notin lost => job'[d].at \notin {"resolving", "dialing"} /\ Owning(d)'
  PROVE  DialsIInv'
<1>1. /\ DOMAIN rows' = Registered \cup {d}
      /\ rows'[d] = [identity |-> seen[i].identity, discovery |-> i]
      /\ \A e \in Registered \ {d} : rows'[e] = rows[e]
  BY DEF Bind
<1>2. i \in Nat /\ seen[i].identity \in Identities
  BY DEF DialsIInv, RegisterTypes, SeenType, Identities
<1>3. rows'[d] \in RowType
  BY <1>1, <1>2 DEF RowType
<1>4. RegisterTypes'
  BY <1>1, <1>3 DEF DialsIInv, RegisterTypes, SeenType, Registered
<1>5. d \notin lost => Sound(d)'
  BY <1>1 DEF Sound, Resolving, Dialed
<1> QED BY <1>1, <1>4, <1>5, OneDevice DEF Registered

LEMMA RegisterDeviceStep ==
  ASSUME DialsIInv, NEW p \in People, NEW connect \in BOOLEAN, RegisterDevice(p, connect)
  PROVE  DialsIInv'
<1>1. PICK i \in DOMAIN seen, d \in Labels :
        /\ i = setup[p].id /\ d = seen[i].label /\ d \notin Registered
        /\ rows' = Bind(d, [identity |-> seen[i].identity, discovery |-> i])
  BY DEF RegisterDevice, Registrable, DialsIInv, RegisterTypes, SeenType
<1>2. UNCHANGED <<seen, lost>>
  BY DEF RegisterDevice
<1> DEFINE begins == connect /\ ~Barred(d, "connect") /\ ~Active(d)
<1>b. /\ begins => holder' = d /\ job' = Queued(d, "connect")
      /\ ~begins => holder' = holder /\ job' = job
      /\ begins => ~Barred(d, "connect") /\ ~Active(d)
  BY <1>1 DEF RegisterDevice
<1>3. d \notin lost => ~Active(d)
  BY <1>1, <1>2, OfDevice DEF Sound, Owning
<1>4. DOMAIN rows' = Registered \cup {d}
  BY <1>1 DEF Bind
<1> HIDE DEF begins
<1>5. CASE begins
  <2>a. holder' = d /\ job' = Queued(d, "connect") /\ ~Barred(d, "connect") /\ ~Active(d)
    BY <1>b, <1>5
  <2>1. PICK j \in JobType : /\ job' = [job EXCEPT ![d] = j] /\ job'[d] = j
                             /\ j.at = "queued" /\ j.kind = "connect"
    BY <1>2, <2>a, QueuedJob
  <2>2. job' \in [Labels -> JobType] /\ \A e \in Labels \ {d} : job'[e] = job[e]
    BY <2>1 DEF DialsIInv, RegisterTypes
  <2>3. \A e \in Labels \ (lost \cup {d}) : ~(Active(e) /\ job[e].kind # "disconnect")
    BY <1>2, <2>a, Unowned DEF Barred
  <2>4. Owning(d)'
    BY <1>4, <2>a DEF Owning, Registered
  <2>5. job'[d].at \notin {"resolving", "dialing"}
    BY <2>1
  <2> QED BY <1>1, <1>2, <2>2, <2>3, <2>4, <2>5, BindStep
<1>6. CASE ~begins
  <2>1. job' = job /\ holder' = holder /\ job \in [Labels -> JobType]
    BY <1>b, <1>6 DEF DialsIInv, RegisterTypes
  <2>2. d \notin lost => job'[d].at = "idle"
    BY <1>3, <2>1 DEF Active
  <2>3. d \notin lost => Owning(d)'
    BY <2>2 DEF Owning, Active
  <2>4. d \notin lost => job'[d].at \notin {"resolving", "dialing"}
    BY <2>2
  <2> QED BY <1>1, <1>2, <2>1, <2>3, <2>4, BindStep
<1> QED BY <1>5, <1>6

LEMMA SelectStep ==
  ASSUME DialsIInv, NEW d \in Labels, NEW i \in DOMAIN seen, SelectIdentity(d, i) PROVE DialsIInv'
<1>1. /\ rows' = Bind(d, [identity |-> seen[i].identity, discovery |-> i])
      /\ UNCHANGED <<seen, holder, job, lost>> /\ holder # d
  BY DEF SelectIdentity, Selectable
<1>2. d \notin lost => Sound(d)
  BY OfDevice
<1>3. d \notin lost => job'[d].at \notin {"resolving", "dialing"}
  BY <1>1, <1>2 DEF Sound, Owning, Resolving, Active
<1>4. d \notin lost => Owning(d)'
  BY <1>1, <1>2 DEF Sound, Owning, Active, Registered, Bind
<1> QED BY <1>1, <1>3, <1>4, BindStep DEF DialsIInv, RegisterTypes

(***************************************************************************)
(* Steps with a scan: all ids that were read before stand for nothing.     *)
(***************************************************************************)
LEMMA Outdated ==
  ASSUME DialsIInv, NEW d \in Labels
  PROVE  /\ d \in Registered => RowsAfter[d] \in RowType /\ RowsAfter[d].discovery = 0
                                /\ RowsAfter[d].identity = rows[d].identity
         /\ JobAfter[d] \in JobType /\ JobAfter[d].discovery = 0
         /\ JobAfter[d].at = job[d].at /\ JobAfter[d].kind = job[d].kind
         /\ JobAfter[d].identity = job[d].identity /\ JobAfter[d].candidate = job[d].candidate
<1>1. job[d] \in JobType /\ (d \in Registered => rows[d] \in RowType)
  BY OfDevice
<1>2. d \in Registered => RowsAfter[d] = [rows[d] EXCEPT !.discovery = 0]
  BY DEF RowsAfter, Stale
<1>3. JobAfter[d] = [job[d] EXCEPT !.discovery = 0]
  BY DEF JobAfter, Stale
<1> QED BY <1>1, <1>2, <1>3 DEF RowType, JobType

LEMMA ScanStep ==
  ASSUME DialsIInv, SeenType', UNCHANGED <<holder, lost>>,
         job' \in [Labels -> JobType],
         DOMAIN rows' = Registered, \A e \in Registered : rows'[e] \in RowType,
         NEW D, \A e \in Labels \ D : job'[e] = JobAfter[e],
         \A e \in Registered \ D : rows'[e] = RowsAfter[e],
         \A e \in Labels \cap D : e \notin lost => Sound(e)'
  PROVE  DialsIInv'
<1>1. RegisterTypes'
  BY DEF DialsIInv, RegisterTypes, Registered
<1>2. ASSUME NEW e \in Labels \ D, e \notin lost PROVE Sound(e)'
  <2>1. Sound(e)
    BY <1>2 DEF DialsIInv
  <2>2. 0 \notin DOMAIN seen'
    BY DEF SeenType
  <2>3. job'[e] = JobAfter[e] /\ (e \in Registered => rows'[e] = RowsAfter[e])
    BY <1>2
  <2>4. Owning(e)'
    BY <2>1, <2>3, Outdated DEF Sound, Owning, Active, Registered
  <2>5. job[e].at = "resolving" => e \in Registered
    BY <2>1 DEF Sound, Owning, Active
  <2>6. Resolving(e)'
    BY <2>1, <2>2, <2>3, <2>5, Outdated DEF Sound, Resolving
  <2>7. Dialed(e)'
    BY <2>1, <2>2, <2>3, Outdated DEF Sound, Dialed, Registered
  <2> QED BY <2>4, <2>6, <2>7 DEF Sound
<1> QED BY <1>1, <1>2 DEF DialsIInv

LEMMA BackgroundStep ==
  ASSUME DialsIInv, Discovered, rows' = RowsAfter, job' = JobAfter, UNCHANGED <<holder, lost>>
  PROVE  DialsIInv'
<1>1. job' \in [Labels -> JobType]
  BY Outdated DEF JobAfter
<1>2. DOMAIN rows' = Registered /\ Registered \subseteq Labels
  BY DEF RowsAfter, DialsIInv, RegisterTypes
<1>3. \A e \in Registered : rows'[e] \in RowType
  BY <1>2, Outdated
<1> QED BY <1>1, <1>2, <1>3, DiscoveredType, ScanStep

LEMMA RediscoverStep == ASSUME DialsIInv, NEW d \in Labels, Rediscover(d) PROVE DialsIInv'
<1>1. /\ job[d].at = "resolving" /\ Discovered /\ UNCHANGED <<holder, lost>>
      /\ Registered \subseteq Labels
  BY DEF Rediscover, DialsIInv, RegisterTypes
<1>2. SeenType'
  BY <1>1, DiscoveredType
<1>3. CASE rows' = RowsAfter /\ job' = [JobAfter EXCEPT ![d] = NoJob]
  <2>1. DOMAIN rows' = Registered /\ \A e \in Registered : rows'[e] \in RowType
    BY <1>1, <1>3, Outdated DEF RowsAfter
  <2>2. /\ job' \in [Labels -> JobType] /\ job'[d] = NoJob
        /\ \A e \in Labels \ {d} : job'[e] = JobAfter[e]
    BY <1>3, Outdated, NoJobTrue DEF JobAfter
  <2>3. d \in Registered => rows'[d].discovery \notin DOMAIN seen'
    BY <1>2, <1>3, Outdated DEF SeenType
  <2>4. Sound(d)'
    BY <2>1, <2>2, <2>3, NoJobTrue DEF Sound, Owning, Resolving, Dialed, Active, Registered
  <2>5. \A e \in Registered \ {d} : rows'[e] = RowsAfter[e]
    BY <1>3
  <2>6. \A e \in Labels \cap {d} : e \notin lost => Sound(e)'
    BY <2>4
  <2> QED BY <1>1, <1>2, <2>1, <2>2, <2>5, <2>6, ScanStep
<1>4. ASSUME NEW i \in DOMAIN seen', seen'[i].identity = job[d].identity,
             rows' = [e \in Registered |-> IF e = d THEN [RowsAfter[d] EXCEPT !.discovery = i]
                                           ELSE RowsAfter[e]],
             job' = [JobAfter EXCEPT ![d] = Dialing(d, seen'[i].identity)]
      PROVE  DialsIInv'
  <2>1. i \in Nat /\ seen'[i].identity \in Identities
    BY <1>2 DEF SeenType, Identities
  <2>2. d \in Registered => /\ rows'[d] \in RowType /\ rows'[d].discovery = i
                            /\ rows'[d].identity = rows[d].identity
    BY <1>4, <2>1, Outdated DEF RowType
  <2>3. DOMAIN rows' = Registered /\ \A e \in Registered \ {d} : rows'[e] = RowsAfter[e]
    BY <1>4
  <2>4. \A e \in Registered : rows'[e] \in RowType
    BY <1>1, <2>2, <2>3, Outdated
  <2>5. /\ Dialing(d, seen'[i].identity) \in JobType
        /\ Dialing(d, seen'[i].identity).at = "dialing"
        /\ Dialing(d, seen'[i].identity).kind = job[d].kind
        /\ Dialing(d, seen'[i].identity).candidate = seen'[i].identity
    BY <2>1, OfDevice, DialingJob
  <2>6. /\ job' \in [Labels -> JobType] /\ job'[d] = Dialing(d, seen'[i].identity)
        /\ \A e \in Labels \ {d} : job'[e] = JobAfter[e]
    BY <1>4, <2>5, Outdated DEF JobAfter
  <2>7. d \notin lost => Sound(d)'
    BY <1>1, <1>4, <2>2, <2>3, <2>5, <2>6, OfDevice
       DEF Sound, Owning, Resolving, Dialed, Active, Registered
  <2> QED BY <1>1, <1>2, <2>3, <2>4, <2>6, <2>7, ScanStep
<1> QED BY <1>3, <1>4 DEF Rediscover, Sought

LEMMA RebootStep == ASSUME DialsIInv, Reboot PROVE DialsIInv'
<1>1. seen' = <<>> /\ job' = [d \in Labels |-> NoJob] /\ rows' = rows /\ lost' = lost
  BY DEF Reboot
<1>2. DOMAIN seen' = {}
  BY <1>1
<1>3. RegisterTypes'
  BY <1>1, <1>2, NoJobTrue DEF DialsIInv, RegisterTypes, SeenType, Registered
<1>4. \A d \in Labels : Sound(d)'
  BY <1>1, <1>2, NoJobTrue DEF Sound, Owning, Resolving, Dialed, Active, Registered
<1> QED BY <1>3, <1>4 DEF DialsIInv

LEMMA DialsStep == DialsIInv /\ [RegisterNext]_registerVars => DialsIInv'
<1> SUFFICES ASSUME DialsIInv, [RegisterNext]_registerVars PROVE DialsIInv'
  OBVIOUS
<1>1. CASE BackgroundScan
  BY <1>1, BackgroundStep DEF BackgroundScan
<1>2. ASSUME NEW p \in People, Guided(p) PROVE DialsIInv'
  <2>1. CASE ChooseFromScan(p)
    BY <2>1, BackgroundStep DEF ChooseFromScan
  <2>2. CASE SetupFails(p)
    BY <2>2, BystanderStep DEF SetupFails
  <2> QED BY <1>2, <2>1, <2>2, RegisterDeviceStep DEF Guided
<1>3. ASSUME NEW d \in Labels, Operated(d) PROVE DialsIInv'
  <2>1. CASE Finish(d)
    BY <2>1, OverStep DEF Finish
  <2> QED BY <1>3, <2>1, RequestStep, BeginStep, DropStep, UseCachedStep, RediscoverStep DEF Operated
<1>4. ASSUME NEW d \in Labels, DeleteAsked(d) PROVE DialsIInv'
  BY <1>4, BystanderStep DEF DeleteAsked
<1>5. CASE UNCHANGED registerVars
  BY <1>5, BystanderStep DEF registerVars
<1> QED BY <1>1, <1>2, <1>3, <1>4, <1>5, EraseStep, SelectStep, RebootStep DEF RegisterNext

\* What a job holds of a row, at every await it may be left at, stands for the row's thermometer.
THEOREM DialsHold == RegisterSpec => []DialsIInv
BY DialsInitial, DialsStep, PTL DEF RegisterSpec

\* An operation dials the thermometer that its row stands for at that moment, and a current
\* discovery id names the row's own: for any thermometers, names, people and bound on what is
\* under way, but for devices that lost the adapter (_execute_connection, patch_device, scans).
THEOREM DialsOnlyOwn == RegisterSpec => []DialsOwn
<1>1. DialsIInv => DialsOwn
  BY DEF DialsIInv, RegisterTypes, Sound, Dialed, DialsOwn
<1> QED BY <1>1, DialsHold, PTL

(***************************************************************************)
(* The types of the register                                               *)
(***************************************************************************)
Candidates ==
  DOMAIN seen \subseteq Ids /\ \A i \in DOMAIN seen : seen[i] \in [identity : Thermometers, label : Labels]

RowIds == \A d \in Registered : rows[d].discovery \in Ids

JobIds == \A d \in Labels : job[d].discovery \in Ids

Setups == setup \in [People -> [at : {"idle", "chosen"}, id : Ids]]

Devicewise == holder \in Labels \cup {NoRow} /\ erasing \subseteq Labels /\ lost \subseteq Labels

RegisterTInv == DialsIInv /\ Candidates /\ RowIds /\ JobIds /\ Setups /\ Devicewise

LEMMA IdsAre == Cardinality(Thermometers) \in Nat /\ 0 \in Ids
<1>1. Cardinality(Thermometers) \in Nat
  BY ThermometersAssumption, FS_CardinalityType
<1> QED BY <1>1 DEF Ids

LEMMA DiscoveredIds == Discovered => Candidates'
<1> SUFFICES ASSUME Discovered PROVE Candidates'
  OBVIOUS
<1> DEFINE Results(found, named) ==
             [i \in 1..Cardinality(found) |->
                [identity |-> Numbering(found)[i], label |-> named[Numbering(found)[i]]]]
<1>a. PICK found \in SUBSET Thermometers :
        \E named \in Namings(found) : seen' = Results(found, named)
  BY DEF Discovered
<1>1. PICK named \in Namings(found) : seen' = Results(found, named)
  BY <1>a
<1>2. Cardinality(found) \in Nat /\ Numbering(found) \in [1..Cardinality(found) -> found]
  BY NumberingType
<1>3. Cardinality(found) <= Cardinality(Thermometers)
  BY ThermometersAssumption, FS_Subset
<1>4. 1..Cardinality(found) \subseteq Ids
  BY <1>2, <1>3, IdsAre DEF Ids
<1>5. \A t \in found : t \in Thermometers /\ named[t] \in Labels
  BY DEF Namings, Labels
<1>6. \A i \in 1..Cardinality(found) : Numbering(found)[i] \in found
  BY <1>2
<1>7. \A i \in DOMAIN seen' : seen'[i] \in [identity : Thermometers, label : Labels]
  BY <1>1, <1>5, <1>6
<1> QED BY <1>1, <1>4, <1>7 DEF Candidates, Labels, Ids

LEMMA RegisterTInitial == RegisterInit => RegisterTInv
<1> SUFFICES ASSUME RegisterInit PROVE RegisterTInv
  OBVIOUS
<1>1. DialsIInv
  BY DialsInitial
<1>2. Candidates
  <2>1. DOMAIN seen = {}
    BY DEF RegisterInit
  <2> QED BY <2>1 DEF Candidates
<1>3. RowIds
  BY IdsAre DEF RegisterInit, RowIds, Registered, Stale
<1>4. JobIds
  BY IdsAre, NoJobTrue DEF RegisterInit, JobIds
<1>5. Setups
  BY IdsAre DEF RegisterInit, Setups, NoSetup, Stale
<1>6. Devicewise
  BY DEF RegisterInit, Devicewise
<1> QED BY <1>1, <1>2, <1>3, <1>4, <1>5, <1>6 DEF RegisterTInv

\* After a scan every row, job and setup that it does not renew has the id that stands for nothing.
LEMMA StaleIds ==
  ASSUME RegisterTInv
  PROVE  /\ \A d \in Registered : RowsAfter[d].discovery \in Ids
         /\ JobAfter \in [Labels -> JobType] /\ \A d \in Labels : JobAfter[d].discovery \in Ids
         /\ SetupAfter \in [People -> [at : {"idle", "chosen"}, id : Ids]]
<1>1. \A d \in Registered : RowsAfter[d].discovery \in Ids
  BY IdsAre, Outdated DEF RegisterTInv, DialsIInv, RegisterTypes
<1>2. JobAfter \in [Labels -> JobType] /\ \A d \in Labels : JobAfter[d].discovery \in Ids
  BY IdsAre, Outdated DEF RegisterTInv, JobAfter
<1>3. SetupAfter \in [People -> [at : {"idle", "chosen"}, id : Ids]]
  BY IdsAre DEF RegisterTInv, Setups, SetupAfter, Stale
<1> QED BY <1>1, <1>2, <1>3

\* A job that is replaced.
LEMMA JobReplaced ==
  ASSUME RegisterTInv, NEW d \in Labels, NEW j, j.discovery \in Ids, job' = [job EXCEPT ![d] = j]
  PROVE  JobIds'
<1>1. job'[d] = j /\ \A e \in Labels \ {d} : job'[e] = job[e]
  BY DEF RegisterTInv, DialsIInv, RegisterTypes
<1> QED BY <1>1 DEF RegisterTInv, JobIds, Labels

LEMMA QueuedIds ==
  ASSUME RegisterTInv, NEW d \in Labels, NEW kind, job' = Queued(d, kind) PROVE JobIds'
<1> DEFINE j == [NoJob EXCEPT !.kind = kind, !.at = "queued"]
<1>1. j.discovery = 0
  BY DEF NoJob, Stale
<1>2. job' = [job EXCEPT ![d] = j]
  BY DEF Queued
<1> QED BY <1>1, <1>2, IdsAre, JobReplaced

LEMMA OverIds == ASSUME RegisterTInv, NEW d \in Labels, Over(d) PROVE JobIds'
BY NoJobTrue, IdsAre, JobReplaced DEF Over

\* A row that is bound to a candidate has its id.
LEMMA BoundIds ==
  ASSUME RegisterTInv, NEW i \in DOMAIN seen, NEW d, NEW t,
         rows' = Bind(d, [identity |-> t, discovery |-> i])
  PROVE  RowIds'
<1>1. i \in Ids
  BY DEF RegisterTInv, Candidates
<1>2. DOMAIN rows' = Registered \cup {d} /\ rows'[d].discovery = i
      /\ \A e \in Registered \ {d} : rows'[e] = rows[e]
  BY DEF Bind
<1> QED BY <1>1, <1>2 DEF RegisterTInv, RowIds, Registered, Ids

LEMMA ScanIds ==
  ASSUME RegisterTInv, Discovered, rows' = RowsAfter, job' = JobAfter
  PROVE  Candidates' /\ RowIds' /\ JobIds'
<1>1. DOMAIN rows' = Registered
  BY DEF RowsAfter
<1> QED BY <1>1, DiscoveredIds, StaleIds DEF RowIds, JobIds, Registered, Ids, Labels

LEMMA SetupEndIds == ASSUME RegisterTInv, NEW p \in People, SetupEnds(p) PROVE Setups'
<1>1. NoSetup \in [at : {"idle", "chosen"}, id : Ids]
  BY IdsAre DEF NoSetup, Stale
<1> QED BY <1>1 DEF SetupEnds, RegisterTInv, Setups, Ids

LEMMA GuidedTypes ==
  ASSUME RegisterTInv, NEW p \in People, Guided(p)
  PROVE  Candidates' /\ RowIds' /\ JobIds' /\ Setups' /\ Devicewise'
<1>1. CASE ChooseFromScan(p)
  <2>1. Discovered /\ rows' = RowsAfter /\ job' = JobAfter /\ UNCHANGED <<holder, erasing, lost>>
    BY <1>1 DEF ChooseFromScan
  <2>2. Candidates' /\ RowIds' /\ JobIds'
    BY <2>1, ScanIds
  <2>3. Devicewise'
    BY <2>1 DEF RegisterTInv, Devicewise, Labels
  <2>4. ASSUME NEW i \in DOMAIN seen', setup' = [SetupAfter EXCEPT ![p] = [at |-> "chosen", id |-> i]]
        PROVE  Setups'
    <3>1. i \in Ids
      BY <2>2 DEF Candidates, Ids
    <3>2. [at |-> "chosen", id |-> i] \in [at : {"idle", "chosen"}, id : Ids]
      BY <3>1
    <3> QED BY <2>4, <3>2, StaleIds DEF Setups, Ids
  <2>5. setup' = SetupAfter => Setups'
    BY StaleIds DEF Setups, Ids
  <2> QED BY <1>1, <2>2, <2>3, <2>4, <2>5 DEF ChooseFromScan
<1>2. CASE SetupFails(p)
  <2>1. UNCHANGED <<rows, seen, holder, job, erasing, lost>> /\ SetupEnds(p)
    BY <1>2 DEF SetupFails
  <2> QED BY <2>1, SetupEndIds
          DEF RegisterTInv, Candidates, RowIds, JobIds, Devicewise, Registered, Labels, Ids
<1>3. ASSUME NEW connect \in BOOLEAN, RegisterDevice(p, connect)
      PROVE  Candidates' /\ RowIds' /\ JobIds' /\ Setups' /\ Devicewise'
  <2>1. PICK i \in DOMAIN seen, d \in Labels :
          /\ i = setup[p].id /\ d = seen[i].label
          /\ rows' = Bind(d, [identity |-> seen[i].identity, discovery |-> i])
    BY <1>3 DEF RegisterDevice, Registrable, RegisterTInv, DialsIInv, RegisterTypes, SeenType
  <2>2. (holder' = d \/ holder' = holder) /\ (job' = Queued(d, "connect") \/ job' = job)
        /\ SetupEnds(p) /\ UNCHANGED <<seen, erasing, lost>>
    BY <1>3, <2>1 DEF RegisterDevice
  <2>3. RowIds'
    BY <2>1, BoundIds
  <2>4. JobIds'
    <3>1. CASE job' = Queued(d, "connect")
      BY <3>1, QueuedIds
    <3>2. CASE job' = job
      BY <3>2 DEF RegisterTInv, JobIds, Labels, Ids
    <3> QED BY <2>2, <3>1, <3>2
  <2>5. Candidates' /\ Devicewise'
    BY <2>2 DEF RegisterTInv, Candidates, Devicewise, Labels, Ids
  <2> QED BY <2>2, <2>3, <2>4, <2>5, SetupEndIds
<1> QED BY <1>1, <1>2, <1>3 DEF Guided

LEMMA OperatedTypes ==
  ASSUME RegisterTInv, NEW d \in Labels, Operated(d)
  PROVE  Candidates' /\ RowIds' /\ JobIds' /\ Setups' /\ Devicewise'
<1>0. /\ UNCHANGED <<rows, seen>> => Candidates' /\ RowIds'
      /\ UNCHANGED setup => Setups'
      /\ holder' \in {holder, d, NoRow} /\ UNCHANGED erasing /\ lost' \subseteq Labels => Devicewise'
  BY DEF RegisterTInv, Candidates, RowIds, Setups, Devicewise, Registered, Labels, Ids
<1>a. lost \subseteq Labels
  BY DEF RegisterTInv, Devicewise
<1>1. ASSUME NEW kind \in {"connect", "disconnect", "reconnect"}, Request(d, kind)
      PROVE  Candidates' /\ RowIds' /\ JobIds' /\ Setups' /\ Devicewise'
  <2>1. UNCHANGED <<rows, seen, setup, erasing, lost>> /\ holder' \in {holder, d, NoRow}
        /\ job' = Queued(d, kind)
    BY <1>1 DEF Request
  <2> QED BY <2>1, <1>0, <1>a, QueuedIds
<1>2. CASE Begin(d)
  <2>1. UNCHANGED <<rows, seen, setup, erasing, lost>> /\ holder' \in {holder, d, NoRow}
    BY <1>2 DEF Begin
  <2>2. CASE Over(d)
    BY <2>1, <2>2, <1>0, <1>a, OverIds
  <2>3. CASE ~Over(d)
    <3> DEFINE at == IF job[d].kind = "disconnect" THEN "dropping" ELSE "resolving"
               j == [job[d] EXCEPT !.at = at, !.identity = rows[d].identity,
                                   !.discovery = rows[d].discovery]
    <3>1. job' = [job EXCEPT ![d] = j] /\ d \in Registered
      BY <1>2, <2>3 DEF Begin, RegisterTInv, DialsIInv, RegisterTypes
    <3>2. j.discovery = rows[d].discovery
      BY DEF RegisterTInv, DialsIInv, RegisterTypes, JobType
    <3>3. j.discovery \in Ids
      BY <3>1, <3>2 DEF RegisterTInv, RowIds
    <3> HIDE DEF j
    <3> QED BY <2>1, <3>1, <3>3, <1>0, <1>a, JobReplaced
  <2> QED BY <2>2, <2>3
<1>3. CASE Drop(d)
  <2>1. /\ seen' = [i \in DOMAIN seen \ {job[d].discovery} |-> seen[i]] /\ UNCHANGED <<rows, erasing, setup>>
        /\ holder' = NoRow /\ lost' \subseteq Labels /\ Over(d)
    BY <1>3, <1>a DEF Drop
  <2>2. Candidates' /\ RowIds'
    BY <2>1 DEF RegisterTInv, Candidates, RowIds, Registered, Labels, Ids
  <2> QED BY <2>1, <2>2, <1>0, OverIds
<1>4. CASE UseCached(d)
  <2>1. UNCHANGED <<rows, seen, setup, erasing, lost>> /\ holder' \in {holder, d, NoRow}
        /\ job' = [job EXCEPT ![d] = Dialing(d, seen[job[d].discovery].identity)]
    BY <1>4 DEF UseCached
  <2>2. Dialing(d, seen[job[d].discovery].identity).discovery = 0
    BY DEF Dialing, NoJob, Stale
  <2> QED BY <2>1, <2>2, <1>0, <1>a, IdsAre, JobReplaced
<1>5. CASE Rediscover(d)
  <2>1. Discovered /\ setup' = SetupAfter /\ UNCHANGED <<holder, erasing, lost>>
    BY <1>5 DEF Rediscover
  <2>2. Candidates' /\ Setups' /\ Devicewise'
    BY <2>1, <1>0, <1>a, DiscoveredIds, StaleIds DEF Setups, Ids
  <2>3. CASE rows' = RowsAfter /\ job' = [JobAfter EXCEPT ![d] = NoJob]
    <3>1. RowIds'
      BY <2>1, <2>3, StaleIds DEF RowIds, RowsAfter, Registered, Ids
    <3>2. JobIds'
      BY <2>3, StaleIds, NoJobTrue, IdsAre DEF JobIds, Labels, Ids
    <3> QED BY <2>2, <3>1, <3>2
  <2>4. ASSUME NEW i \in DOMAIN seen',
               rows' = [e \in Registered |-> IF e = d THEN [RowsAfter[d] EXCEPT !.discovery = i]
                                             ELSE RowsAfter[e]],
               job' = [JobAfter EXCEPT ![d] = Dialing(d, seen'[i].identity)]
        PROVE  RowIds' /\ JobIds'
    <3>1. i \in Ids
      BY <2>2 DEF Candidates, Ids
    <3>2. d \in Registered => [RowsAfter[d] EXCEPT !.discovery = i].discovery = i
      BY Outdated DEF RegisterTInv, RowType
    <3>3. RowIds'
      BY <2>4, <3>1, <3>2, StaleIds DEF RowIds, Registered, Ids
    <3>4. Dialing(d, seen'[i].identity).discovery = 0
      BY DEF Dialing, NoJob, Stale
    <3>5. JobIds'
      BY <2>4, <3>4, StaleIds, IdsAre DEF JobIds, Labels, Ids
    <3> QED BY <3>3, <3>5
  <2> QED BY <1>5, <2>2, <2>3, <2>4 DEF Rediscover
<1>6. CASE Finish(d)
  <2>1. UNCHANGED <<rows, seen, setup, erasing, lost>> /\ holder' \in {holder, d, NoRow} /\ Over(d)
    BY <1>6 DEF Finish
  <2> QED BY <2>1, <1>0, <1>a, OverIds
<1> QED BY <1>1, <1>2, <1>3, <1>4, <1>5, <1>6 DEF Operated

LEMMA RegisterTStep == RegisterTInv /\ [RegisterNext]_registerVars => RegisterTInv'
<1> SUFFICES ASSUME RegisterTInv, [RegisterNext]_registerVars
             PROVE  Candidates' /\ RowIds' /\ JobIds' /\ Setups' /\ Devicewise'
  BY DialsStep DEF RegisterTInv
<1>0. UNCHANGED setup => Setups'
  BY DEF RegisterTInv, Setups, Ids
<1>1. CASE BackgroundScan
  <2>1. Setups' /\ Devicewise'
    BY <1>1, StaleIds DEF BackgroundScan, RegisterTInv, Setups, Devicewise, Labels, Ids
  <2> QED BY <1>1, <2>1, ScanIds DEF BackgroundScan
<1>2. CASE Reboot
  <2>1. /\ DOMAIN seen' = {} /\ rows' = rows /\ job' = [d \in Labels |-> NoJob]
        /\ erasing' = {} /\ lost' = lost /\ setup' = setup
        /\ holder' \in Registered \cup {NoRow}
    BY <1>2 DEF Reboot
  <2>2. Candidates' /\ RowIds'
    BY <2>1 DEF RegisterTInv, Candidates, RowIds, Registered, Labels, Ids
  <2>3. JobIds'
    BY <2>1, NoJobTrue, IdsAre DEF JobIds, Labels, Ids
  <2>4. Devicewise'
    BY <2>1 DEF RegisterTInv, DialsIInv, RegisterTypes, Devicewise, Labels
  <2> QED BY <1>0, <2>1, <2>2, <2>3, <2>4
<1>3. ASSUME NEW d \in Labels, DeleteAsked(d)
      PROVE  Candidates' /\ RowIds' /\ JobIds' /\ Setups' /\ Devicewise'
  <2>1. UNCHANGED <<rows, seen, holder, job, lost, setup>> /\ erasing' = erasing \cup {d}
    BY <1>3 DEF DeleteAsked
  <2> QED BY <2>1 DEF RegisterTInv, Candidates, RowIds, JobIds, Setups, Devicewise, Registered, Labels, Ids
<1>4. ASSUME NEW d \in Labels, Erase(d)
      PROVE  Candidates' /\ RowIds' /\ JobIds' /\ Setups' /\ Devicewise'
  <2>1. /\ UNCHANGED <<seen, job, setup>> /\ erasing' = erasing \ {d}
        /\ rows' = [e \in Registered \ {d} |-> rows[e]]
        /\ holder' \in {holder, NoRow} /\ lost' \subseteq lost \cup {d}
    BY <1>4 DEF Erase
  <2> QED BY <2>1 DEF RegisterTInv, Candidates, RowIds, JobIds, Setups, Devicewise, Registered, Labels, Ids
<1>5. ASSUME NEW d \in Labels, NEW i \in DOMAIN seen, SelectIdentity(d, i)
      PROVE  Candidates' /\ RowIds' /\ JobIds' /\ Setups' /\ Devicewise'
  <2>1. /\ rows' = Bind(d, [identity |-> seen[i].identity, discovery |-> i])
        /\ UNCHANGED <<seen, holder, job, erasing, lost, setup>>
    BY <1>5 DEF SelectIdentity
  <2>2. RowIds'
    BY <2>1, BoundIds
  <2> QED BY <2>1, <2>2 DEF RegisterTInv, Candidates, JobIds, Setups, Devicewise, Labels, Ids
<1>6. CASE UNCHANGED registerVars
  BY <1>6 DEF registerVars, RegisterTInv, Candidates, RowIds, JobIds, Setups, Devicewise, Registered,
              Labels, Ids
<1> QED BY <1>1, <1>2, <1>3, <1>4, <1>5, <1>6, GuidedTypes, OperatedTypes DEF RegisterNext

LEMMA RegisterTypeHolds == RegisterTInv => RegisterTypeOK
<1> SUFFICES ASSUME RegisterTInv PROVE RegisterTypeOK
  OBVIOUS
<1>1. \A d \in Registered : rows[d] \in [identity : Identities, discovery : Ids]
  BY DEF RegisterTInv, DialsIInv, RegisterTypes, RowType, RowIds
<1>2. \A d \in Labels : job[d] \in [kind : {"none", "connect", "disconnect", "reconnect"},
                        at : {"idle", "queued", "dropping", "resolving", "dialing"},
                        identity : Identities, discovery : Ids, candidate : Identities]
  BY DEF RegisterTInv, DialsIInv, RegisterTypes, JobType, JobIds
<1> QED BY <1>1, <1>2
        DEF RegisterTInv, DialsIInv, RegisterTypes, Candidates, Setups, Devicewise, RegisterTypeOK

\* Every variable of the register keeps its type, whoever registers, selects, operates on and
\* deletes what; no discovery finds more than there is, so every id stays within the ids.
THEOREM RegisterTypeCorrect == RegisterSpec => []RegisterTypeOK
BY RegisterTInitial, RegisterTStep, RegisterTypeHolds, PTL DEF RegisterSpec

(***************************************************************************)
(* Streams                                                                 *)
(***************************************************************************)
Tallies == [due : Nat, dropped : Nat, given : Nat]
Loop == {"none", "asked", "looping", "waiting", "event", "heartbeat", "sending"}
Getter == {"none", "waiting", "woken", "done"}

StreamLevels ==
  /\ stream \in [StreamClients -> Loop] /\ getter \in [StreamClients -> Getter]
  /\ queued \in [StreamClients -> 0..QueueSize]
  /\ tally \in [StreamClients -> Tallies]

Held(s, g) == IF g = "done" \/ s = "event" THEN 1 ELSE 0

\* Only a waiting loop has a getter; and while a stream is open its books balance.
Balanced(s, g, q, t) ==
  /\ g # "none" => s = "waiting"
  /\ s \notin {"none", "asked"} => t.due = t.given + t.dropped + q + Held(s, g)

Books == \A c \in StreamClients : Balanced(stream[c], getter[c], queued[c], tally[c])

StreamsIInv == StreamLevels /\ Books

LEMMA StreamsInitial == StreamsInit => StreamsIInv
<1> SUFFICES ASSUME StreamsInit PROVE StreamsIInv
  OBVIOUS
<1>1. StreamLevels
  BY StreamsAssumption DEF StreamsInit, StreamLevels, Untold, Tallies, Loop, Getter
<1>2. Books
  BY DEF StreamsInit, Books, Balanced
<1> QED BY <1>1, <1>2 DEF StreamsIInv

LEMMA Named ==
  /\ {"none", "asked", "looping", "waiting", "event", "heartbeat", "sending"} \subseteq Loop
  /\ {"none", "waiting", "woken", "done"} \subseteq Getter
BY DEF Loop, Getter

\* A step of one client.
LEMMA OneClient ==
  ASSUME StreamsIInv, NEW c \in StreamClients,
         NEW s \in Loop, stream' = [stream EXCEPT ![c] = s],
         NEW g \in Getter, getter' = [getter EXCEPT ![c] = g],
         NEW q \in 0..QueueSize, queued' = [queued EXCEPT ![c] = q],
         NEW t \in Tallies, tally' = [tally EXCEPT ![c] = t],
         Balanced(s, g, q, t)
  PROVE  StreamsIInv'
<1>1. StreamLevels'
  BY DEF StreamsIInv, StreamLevels
<1>2. \A d \in StreamClients \ {c} : /\ stream'[d] = stream[d] /\ getter'[d] = getter[d]
                                     /\ queued'[d] = queued[d] /\ tally'[d] = tally[d]
  BY DEF StreamsIInv, StreamLevels
<1>3. stream'[c] = s /\ getter'[c] = g /\ queued'[c] = q /\ tally'[c] = t
  BY DEF StreamsIInv, StreamLevels
<1>4. Books'
  BY <1>2, <1>3 DEF StreamsIInv, Books
<1> QED BY <1>1, <1>4 DEF StreamsIInv

\* What is known of one client, for the steps of that client.
LEMMA OfOne ==
  ASSUME StreamsIInv, NEW c \in StreamClients
  PROVE  /\ stream[c] \in Loop /\ getter[c] \in Getter
         /\ queued[c] \in 0..QueueSize /\ queued[c] \in Nat /\ tally[c] \in Tallies
         /\ tally[c].due \in Nat /\ tally[c].given \in Nat /\ tally[c].dropped \in Nat
         /\ stream = [stream EXCEPT ![c] = stream[c]] /\ getter = [getter EXCEPT ![c] = getter[c]]
         /\ queued = [queued EXCEPT ![c] = queued[c]] /\ tally = [tally EXCEPT ![c] = tally[c]]
         /\ Balanced(stream[c], getter[c], queued[c], tally[c])
<1>1. /\ stream[c] \in Loop /\ getter[c] \in Getter
      /\ queued[c] \in 0..QueueSize /\ tally[c] \in Tallies
  BY DEF StreamsIInv, StreamLevels
<1>2. queued[c] \in Nat
  BY <1>1, StreamsAssumption
<1>3. tally[c].due \in Nat /\ tally[c].given \in Nat /\ tally[c].dropped \in Nat
  BY <1>1 DEF Tallies
<1>4. /\ stream = [stream EXCEPT ![c] = stream[c]] /\ getter = [getter EXCEPT ![c] = getter[c]]
      /\ queued = [queued EXCEPT ![c] = queued[c]] /\ tally = [tally EXCEPT ![c] = tally[c]]
  BY DEF StreamsIInv, StreamLevels
<1> QED BY <1>1, <1>2, <1>3, <1>4 DEF StreamsIInv, Books

LEMMA Emptied ==
  0 \in 0..QueueSize /\ Untold \in Tallies /\ \A s \in Loop : Balanced(s, "none", 0, Untold) \/ s = "event"
<1>1. 0 \in 0..QueueSize
  BY StreamsAssumption
<1>2. Untold \in Tallies
  BY DEF Untold, Tallies
<1>3. \A s \in Loop : Balanced(s, "none", 0, Untold) \/ s = "event"
  BY DEF Balanced, Untold, Held
<1> QED BY <1>1, <1>2, <1>3

LEMMA EndedStep == ASSUME StreamsIInv, NEW c \in StreamClients, Ended(c) PROVE StreamsIInv'
<1>1. "none" \in Loop /\ "none" \in Getter
  BY DEF Loop, Getter
<1>2. Balanced("none", "none", 0, Untold)
  BY DEF Balanced
<1> QED BY <1>1, <1>2, Emptied, OneClient DEF Ended

\* One more event is due to a stream.
LEMMA Counted ==
  ASSUME NEW r, NEW full \in BOOLEAN,
         r = [due |-> r.due, dropped |-> r.dropped, given |-> r.given]
  PROVE  [r EXCEPT !.due = @ + 1, !.dropped = IF full THEN @ + 1 ELSE @]
           = [due |-> r.due + 1, dropped |-> IF full THEN r.dropped + 1 ELSE r.dropped, given |-> r.given]
<1>1. DOMAIN r = {"due", "dropped", "given"}
  OBVIOUS
<1> DEFINE s == [r EXCEPT !.due = @ + 1, !.dropped = IF full THEN @ + 1 ELSE @]
<1>2. DOMAIN s = {"due", "dropped", "given"}
  BY <1>1
<1>3. s.due = r.due + 1 /\ s.dropped = (IF full THEN r.dropped + 1 ELSE r.dropped) /\ s.given = r.given
  BY <1>1
<1>4. s = [x \in {"due", "dropped", "given"} |-> s[x]]
  BY <1>2
<1> HIDE DEF s
<1>5. s = [due |-> s.due, dropped |-> s.dropped, given |-> s.given]
  BY <1>2, <1>4
<1> QED BY <1>3, <1>5 DEF s

LEMMA PublishStep == ASSUME StreamsIInv, PublishToStreams PROVE StreamsIInv'
<1> DEFINE open(c) == stream[c] \notin {"none", "asked"}
           q(c) == IF open(c) /\ queued[c] < QueueSize THEN queued[c] + 1 ELSE queued[c]
           d(c) == IF queued[c] = QueueSize THEN tally[c].dropped + 1 ELSE tally[c].dropped
           t(c) == IF open(c) THEN [due |-> tally[c].due + 1, dropped |-> d(c), given |-> tally[c].given]
                   ELSE tally[c]
           g(c) == IF getter[c] = "waiting" THEN "woken" ELSE getter[c]
<1>1. /\ stream' = stream
      /\ getter' = [c \in StreamClients |-> g(c)]
      /\ queued' = [c \in StreamClients |-> q(c)]
  BY DEF PublishToStreams, OpenStreams
<1>2. tally' = [c \in StreamClients |-> t(c)]
  <2>1. \A c \in StreamClients :
          tally[c] = [due |-> tally[c].due, dropped |-> tally[c].dropped, given |-> tally[c].given]
    BY DEF StreamsIInv, StreamLevels, Tallies
  <2>2. \A c \in StreamClients :
          [tally[c] EXCEPT !.due = @ + 1, !.dropped = IF queued[c] = QueueSize THEN @ + 1 ELSE @]
            = [due |-> tally[c].due + 1, dropped |-> d(c), given |-> tally[c].given]
    BY <2>1, Counted
  <2> QED BY <2>2 DEF PublishToStreams, OpenStreams
<1>3. ASSUME NEW c \in StreamClients
      PROVE  /\ q(c) \in 0..QueueSize /\ t(c) \in Tallies /\ g(c) \in Getter
             /\ Balanced(stream[c], g(c), q(c), t(c))
  <2>1. q(c) \in 0..QueueSize
    BY OfOne, StreamsAssumption
  <2>2. t(c) \in Tallies
    BY OfOne DEF Tallies
  <2>3. g(c) \in Getter
    BY OfOne DEF Getter
  <2>4. g(c) # "none" => stream[c] = "waiting"
    BY OfOne DEF Balanced
  <2>5. Held(stream[c], g(c)) = Held(stream[c], getter[c]) /\ Held(stream[c], getter[c]) \in Nat
    BY DEF Held
  <2>6. open(c) => tally[c].due = tally[c].given + tally[c].dropped + queued[c] + Held(stream[c], getter[c])
    BY OfOne DEF Balanced
  <2>7. open(c) => tally[c].due + 1 = tally[c].given + d(c) + q(c) + Held(stream[c], g(c))
    BY <2>5, <2>6, OfOne, StreamsAssumption
  <2>8. open(c) => t(c).due = t(c).given + t(c).dropped + q(c) + Held(stream[c], g(c))
    BY <2>7
  <2> QED BY <2>1, <2>2, <2>3, <2>4, <2>8 DEF Balanced
<1> HIDE DEF q, t, g
<1>4. StreamLevels'
  BY <1>1, <1>2, <1>3 DEF StreamsIInv, StreamLevels
<1>5. Books'
  BY <1>1, <1>2, <1>3 DEF Books
<1> QED BY <1>4, <1>5 DEF StreamsIInv

LEMMA LoopStep ==
  ASSUME StreamsIInv, NEW c \in StreamClients, Loops(c) \/ Sent(c)
  PROVE  StreamsIInv'
<1>1. ASSUME Round(c) PROVE StreamsIInv'
  <2>1. CASE closed
    BY <1>1, <2>1, EndedStep DEF Round
  <2>2. CASE ~closed
    <3>1. Balanced("waiting", "woken", queued[c], tally[c])
      BY <1>1, OfOne DEF Round, Balanced, Held
    <3>2. /\ stream' = [stream EXCEPT ![c] = "waiting"] /\ getter' = [getter EXCEPT ![c] = "woken"]
          /\ queued' = queued /\ tally' = tally
      BY <1>1, <2>2 DEF Round
    <3> QED BY <3>1, <3>2, OfOne, OneClient, Named
  <2> QED BY <2>1, <2>2
<1>2. ASSUME GetterRuns(c) PROVE StreamsIInv'
  <2>1. CASE queued[c] = 0
    <3>1. Balanced("waiting", "waiting", queued[c], tally[c])
      BY <1>2, OfOne DEF GetterRuns, Balanced, Held
    <3>2. /\ stream' = stream /\ stream[c] = "waiting" /\ getter' = [getter EXCEPT ![c] = "waiting"]
          /\ queued' = queued /\ tally' = tally
      BY <1>2, <2>1 DEF GetterRuns
    <3> QED BY <3>1, <3>2, OfOne, OneClient, Named
  <2>2. CASE queued[c] # 0
    <3>1. queued[c] - 1 \in 0..QueueSize /\ queued[c] + 0 = (queued[c] - 1) + 1
      BY <2>2, OfOne, StreamsAssumption
    <3>2. tally[c].due = tally[c].given + tally[c].dropped + queued[c] + 0
      BY <1>2, OfOne DEF GetterRuns, Balanced, Held
    <3>3. tally[c].due = tally[c].given + tally[c].dropped + (queued[c] - 1) + 1
      BY <3>2, OfOne
    <3>4. Balanced("waiting", "done", queued[c] - 1, tally[c])
      BY <3>3 DEF Balanced, Held
    <3>5. /\ stream' = stream /\ stream[c] = "waiting" /\ getter' = [getter EXCEPT ![c] = "done"]
          /\ queued' = [queued EXCEPT ![c] = queued[c] - 1] /\ tally' = tally
      BY <1>2, <2>2 DEF GetterRuns
    <3> QED BY <3>1, <3>4, <3>5, OfOne, OneClient, Named
  <2> QED BY <2>1, <2>2
<1>3. ASSUME WaitReturns(c) PROVE StreamsIInv'
  <2>1. CASE getter[c] = "done"
    <3>1. Balanced("event", "none", queued[c], tally[c])
      BY <1>3, <2>1, OfOne DEF WaitReturns, Balanced, Held
    <3>2. /\ stream' = [stream EXCEPT ![c] = "event"] /\ getter' = [getter EXCEPT ![c] = "none"]
          /\ queued' = queued /\ tally' = tally
      BY <1>3, <2>1 DEF WaitReturns
    <3> QED BY <3>1, <3>2, OfOne, OneClient, Named
  <2>2. CASE getter[c] # "done"
    <3>1. Balanced("heartbeat", "none", queued[c], tally[c])
      BY <1>3, <2>2, OfOne DEF WaitReturns, Balanced, Held
    <3>2. /\ stream' = [stream EXCEPT ![c] = "heartbeat"] /\ getter' = [getter EXCEPT ![c] = "none"]
          /\ queued' = [queued EXCEPT ![c] = queued[c]] /\ tally' = tally
      BY <1>3, <2>2 DEF WaitReturns, Cancelled
    <3> QED BY <3>1, <3>2, OfOne, OneClient, Named
  <2> QED BY <2>1, <2>2
<1>4. ASSUME Checks(c) PROVE StreamsIInv'
  <2>1. CASE closed
    BY <1>4, <2>1, EndedStep DEF Checks
  <2>2. CASE ~closed /\ stream[c] = "event"
    <3> DEFINE t == [due |-> tally[c].due, dropped |-> tally[c].dropped, given |-> tally[c].given + 1]
    <3>1. tally' = [tally EXCEPT ![c] = t] /\ t \in Tallies
      BY <1>4, <2>2, OfOne DEF Checks, Tallies
    <3>2. getter[c] = "none" /\ tally[c].due = tally[c].given + tally[c].dropped + queued[c] + 1
      BY <2>2, OfOne DEF Balanced, Held
    <3>3. tally[c].due = (tally[c].given + 1) + tally[c].dropped + queued[c] + 0
      BY <3>2, OfOne
    <3>4. Balanced("sending", getter[c], queued[c], t)
      BY <3>2, <3>3 DEF Balanced, Held
    <3> HIDE DEF t
    <3>5. stream' = [stream EXCEPT ![c] = "sending"] /\ getter' = getter /\ queued' = queued
      BY <1>4, <2>2 DEF Checks
    <3> QED BY <3>1, <3>4, <3>5, OfOne, OneClient, Named
  <2>3. CASE ~closed /\ stream[c] = "heartbeat"
    <3>1. tally' = [tally EXCEPT ![c] = tally[c]]
      BY <1>4, <2>3, OfOne DEF Checks, Tallies
    <3>2. Balanced("sending", getter[c], queued[c], tally[c])
      BY <2>3, OfOne DEF Balanced, Held
    <3>3. stream' = [stream EXCEPT ![c] = "sending"] /\ getter' = getter /\ queued' = queued
      BY <1>4, <2>3 DEF Checks
    <3> QED BY <3>1, <3>2, <3>3, OfOne, OneClient, Named
  <2> QED BY <1>4, <2>1, <2>2, <2>3 DEF Checks
<1>5. ASSUME Sent(c) PROVE StreamsIInv'
  <2>1. Balanced("looping", getter[c], queued[c], tally[c])
    BY <1>5, OfOne DEF Sent, Balanced, Held
  <2>2. /\ stream' = [stream EXCEPT ![c] = "looping"]
        /\ getter' = getter /\ queued' = queued /\ tally' = tally
    BY <1>5 DEF Sent
  <2> QED BY <2>1, <2>2, OfOne, OneClient, Named
<1> QED BY <1>1, <1>2, <1>3, <1>4, <1>5 DEF Loops

LEMMA StreamsStep == StreamsIInv /\ [StreamsNext]_streamsVars => StreamsIInv'
<1> SUFFICES ASSUME StreamsIInv, [StreamsNext]_streamsVars PROVE StreamsIInv'
  OBVIOUS
<1>1. CASE UNCHANGED <<stream, getter, queued, tally>>
  BY <1>1 DEF StreamsIInv, StreamLevels, Books
<1>2. ASSUME NEW c \in StreamClients, AskStream(c) PROVE StreamsIInv'
  <2>1. "asked" \in Loop /\ Balanced("asked", getter[c], queued[c], tally[c])
    BY <1>2, OfOne DEF AskStream, Balanced, Loop
  <2> QED BY <1>2, <2>1, OfOne, OneClient DEF AskStream
<1>3. ASSUME NEW c \in StreamClients, RefuseStream(c) PROVE StreamsIInv'
  <2>1. "none" \in Loop /\ Balanced("none", getter[c], queued[c], tally[c])
    BY <1>3, OfOne DEF RefuseStream, Balanced, Loop
  <2> QED BY <1>3, <2>1, OfOne, OneClient DEF RefuseStream
<1>4. ASSUME NEW c \in StreamClients, OpenStream(c) PROVE StreamsIInv'
  <2>1. getter[c] = "none"
    BY <1>4, OfOne DEF OpenStream, Balanced
  <2>2. "looping" \in Loop /\ Balanced("looping", getter[c], 0, Untold)
    BY <2>1, Emptied DEF Loop
  <2> QED BY <1>4, <2>2, OfOne, Emptied, OneClient DEF OpenStream
<1>5. ASSUME NEW c \in StreamClients, ClientGoes(c) PROVE StreamsIInv'
  BY <1>5, EndedStep DEF ClientGoes
<1> QED BY <1>1, <1>2, <1>3, <1>4, <1>5, PublishStep, LoopStep
        DEF StreamsNext, Shutdown, streamsVars

\* The inductive invariant of the streams: every client's numbers add up to the events published.
THEOREM StreamsHold == StreamsInit /\ [][StreamsNext]_streamsVars => []StreamsIInv
BY StreamsInitial, StreamsStep, PTL

LEMMA NothingIsSwallowed == StreamsIInv => NothingSwallowed
BY DEF StreamsIInv, Books, Balanced, Held, NothingSwallowed, InHand, OpenStreams

\* No event is lost between the queue and a client except by a full queue: for any clients and
\* queue sizes, however heartbeats, events and the end race (stream).
THEOREM NoneSwallowed == StreamsSpec => []NothingSwallowed
BY NothingIsSwallowed, StreamsHold, PTL DEF StreamsSpec

\* A slot for each open stream; no stream has seen more events than there were, and none that
\* is not open has seen any.
IsOpen(s) == s \notin {"none", "asked"}

Seats == slots = Cardinality(OpenStreams) /\ slots <= MaxSlots

Account(s, t) == t.due <= published /\ (IsOpen(s) \/ t = Untold)

Accounts == \A c \in StreamClients : Account(stream[c], tally[c])

StreamFlags == stopping \in BOOLEAN /\ closed \in BOOLEAN /\ published \in 0..MaxEvents

SeatsIInv == StreamsIInv /\ Seats /\ Accounts /\ StreamFlags

LEMMA EventNumbers == MaxEvents \in Nat /\ 0 \in 0..MaxEvents /\ \A n \in 0..MaxEvents : n \in Nat
BY StreamsAssumption

LEMMA ClientsFinite ==
  IsFiniteSet(OpenStreams) /\ Cardinality(OpenStreams) \in Nat
<1>1. IsFiniteSet(StreamClients)
  BY StreamsAssumption, FS_Union DEF StreamClients
<1> QED BY <1>1, FS_Subset, FS_CardinalityType DEF OpenStreams

\* The open streams after a step of one client.
LEMMA OneOpens ==
  ASSUME StreamsIInv, NEW c \in StreamClients, NEW s \in Loop, stream' = [stream EXCEPT ![c] = s]
  PROVE  /\ IsOpen(s) => OpenStreams' = OpenStreams \cup {c}
         /\ ~IsOpen(s) => OpenStreams' = OpenStreams \ {c}
         /\ c \in OpenStreams <=> IsOpen(stream[c])
<1>1. stream'[c] = s /\ \A d \in StreamClients \ {c} : stream'[d] = stream[d]
  BY DEF StreamsIInv, StreamLevels
<1>2. OpenStreams' = {d \in StreamClients : IsOpen(stream'[d])}
  BY DEF OpenStreams, IsOpen, StreamClients
<1>3. OpenStreams = {d \in StreamClients : IsOpen(stream[d])}
  BY DEF OpenStreams, IsOpen
<1> QED BY <1>1, <1>2, <1>3

LEMMA OneCounts ==
  ASSUME StreamsIInv, Accounts, UNCHANGED published, NEW c \in StreamClients,
         NEW s \in Loop, stream' = [stream EXCEPT ![c] = s],
         NEW t \in Tallies, tally' = [tally EXCEPT ![c] = t],
         Account(s, t)
  PROVE  Accounts'
<1>1. stream'[c] = s /\ tally'[c] = t
  BY DEF StreamsIInv, StreamLevels
<1>2. \A d \in StreamClients \ {c} : stream'[d] = stream[d] /\ tally'[d] = tally[d]
  BY DEF StreamsIInv, StreamLevels
<1>3. \A d \in StreamClients : Account(stream'[d], tally'[d])
  BY <1>1, <1>2 DEF Accounts
<1> QED BY <1>3 DEF Accounts, Account, StreamClients

\* Going on: the stream stays as open or shut as it is, and so does the tally.
LEMMA SeatKept ==
  ASSUME SeatsIInv, NEW c \in StreamClients, NEW s \in Loop, stream' = [stream EXCEPT ![c] = s],
         IsOpen(s) <=> IsOpen(stream[c]), UNCHANGED <<slots, tally, published>>
  PROVE  Seats' /\ Accounts'
<1>1. OpenStreams' = OpenStreams
  BY OneOpens DEF SeatsIInv
<1>2. tally[c] \in Tallies /\ tally' = [tally EXCEPT ![c] = tally[c]]
  BY OfOne DEF SeatsIInv
<1>3. Account(s, tally[c])
  BY DEF SeatsIInv, Accounts, Account
<1> QED BY <1>1, <1>2, <1>3, OneCounts DEF SeatsIInv, Seats

LEMMA SeatLeft ==
  ASSUME SeatsIInv, NEW c \in StreamClients, IsOpen(stream[c]), Ended(c), UNCHANGED published
  PROVE  Seats' /\ Accounts'
<1>1. c \in OpenStreams /\ OpenStreams' = OpenStreams \ {c}
  BY OneOpens, Named DEF SeatsIInv, Ended, IsOpen
<1>2. Cardinality(OpenStreams') = Cardinality(OpenStreams) - 1
  BY <1>1, ClientsFinite, FS_RemoveElement
<1>3. Seats'
  BY <1>2, ClientsFinite, StreamsAssumption DEF SeatsIInv, Seats, Ended
<1>4. published \in Nat /\ Account("none", Untold)
  BY StreamsAssumption DEF SeatsIInv, StreamFlags, Account, Untold
<1>5. Accounts'
  BY <1>4, OneCounts, Emptied, Named DEF Ended, SeatsIInv
<1> QED BY <1>3, <1>5

LEMMA SeatTaken ==
  ASSUME SeatsIInv, NEW c \in StreamClients, OpenStream(c)
  PROVE  Seats' /\ Accounts'
<1>1. c \notin OpenStreams /\ OpenStreams' = OpenStreams \cup {c}
  BY OneOpens, Named DEF SeatsIInv, OpenStream, IsOpen
<1>2. Cardinality(OpenStreams') = Cardinality(OpenStreams) + 1
  BY <1>1, ClientsFinite, FS_AddElement
<1>3. Seats'
  BY <1>2, ClientsFinite, StreamsAssumption DEF SeatsIInv, Seats, OpenStream
<1>4. published \in Nat /\ Account("looping", Untold)
  BY StreamsAssumption DEF SeatsIInv, StreamFlags, Account, Untold
<1>5. Accounts'
  BY <1>4, OneCounts, Emptied, Named DEF OpenStream, SeatsIInv
<1> QED BY <1>3, <1>5

LEMMA EventCounted == ASSUME SeatsIInv, PublishToStreams PROVE Seats' /\ Accounts'
<1>1. Seats'
  BY DEF PublishToStreams, SeatsIInv, Seats, OpenStreams, StreamClients
<1>2. published \in Nat /\ published' = published + 1 /\ stream' = stream
  BY EventNumbers DEF PublishToStreams, SeatsIInv, StreamFlags
<1>3. ASSUME NEW c \in StreamClients PROVE Account(stream[c], tally[c])'
  <2>1. tally[c].due \in Nat /\ tally[c].due <= published /\ (IsOpen(stream[c]) \/ tally[c] = Untold)
    BY OfOne DEF SeatsIInv, Accounts, Account
  <2>2. CASE c \notin OpenStreams
    <3>1. tally'[c] = tally[c]
      BY <2>2 DEF PublishToStreams
    <3> QED BY <1>2, <2>1, <3>1 DEF Account, IsOpen
  <2>3. CASE c \in OpenStreams
    <3>1. tally'[c] = [tally[c] EXCEPT !.due = @ + 1,
                                       !.dropped = IF queued[c] = QueueSize THEN @ + 1 ELSE @]
      BY <2>3 DEF PublishToStreams
    <3>2. tally[c] = [due |-> tally[c].due, dropped |-> tally[c].dropped, given |-> tally[c].given]
      BY DEF SeatsIInv, StreamsIInv, StreamLevels, Tallies
    <3>3. tally'[c].due = tally[c].due + 1
      BY <3>1, <3>2
    <3>4. IsOpen(stream[c])
      BY <2>3 DEF OpenStreams, IsOpen
    <3> QED BY <1>2, <2>1, <3>3, <3>4 DEF Account, IsOpen
  <2> QED BY <2>2, <2>3
<1> QED BY <1>1, <1>3 DEF Accounts, StreamClients

LEMMA SeatLoops ==
  ASSUME SeatsIInv, NEW c \in StreamClients, Loops(c) \/ Sent(c) PROVE Seats' /\ Accounts'
<1>1. ASSUME Round(c) PROVE Seats' /\ Accounts'
  BY <1>1, SeatLeft, SeatKept, Named DEF Round, IsOpen
<1>2. ASSUME GetterRuns(c) PROVE Seats' /\ Accounts'
  <2>1. UNCHANGED <<slots, stream, tally, published>>
    BY <1>2 DEF GetterRuns
  <2> QED BY <2>1 DEF SeatsIInv, Seats, Accounts, Account, OpenStreams, StreamClients
<1>3. ASSUME WaitReturns(c) PROVE Seats' /\ Accounts'
  BY <1>3, SeatKept, Named DEF WaitReturns, IsOpen
<1>4. ASSUME Checks(c) PROVE Seats' /\ Accounts'
  <2>1. CASE closed
    BY <1>4, <2>1, SeatLeft DEF Checks, IsOpen
  <2>2. CASE ~closed
    <3> DEFINE t == [tally[c] EXCEPT !.given = IF stream[c] = "event" THEN @ + 1 ELSE @]
    <3>1. stream' = [stream EXCEPT ![c] = "sending"] /\ tally' = [tally EXCEPT ![c] = t]
          /\ UNCHANGED <<slots, published>> /\ IsOpen(stream[c])
      BY <1>4, <2>2 DEF Checks, IsOpen
    <3>2. OpenStreams' = OpenStreams
      BY <3>1, OneOpens, Named DEF SeatsIInv, IsOpen
    <3>3. t \in Tallies /\ t.due = tally[c].due
      BY OfOne DEF SeatsIInv, Tallies
    <3>4. Account("sending", t)
      BY <3>3 DEF SeatsIInv, Accounts, Account, IsOpen
    <3> HIDE DEF t
    <3>5. Accounts'
      BY <3>1, <3>3, <3>4, OneCounts, Named DEF SeatsIInv
    <3> QED BY <3>1, <3>2, <3>5 DEF SeatsIInv, Seats
  <2> QED BY <2>1, <2>2
<1>5. ASSUME Sent(c) PROVE Seats' /\ Accounts'
  BY <1>5, SeatKept, Named DEF Sent, IsOpen
<1> QED BY <1>1, <1>2, <1>3, <1>4, <1>5 DEF Loops

LEMMA SeatsStep == SeatsIInv /\ [StreamsNext]_streamsVars => SeatsIInv'
<1> SUFFICES ASSUME SeatsIInv, [StreamsNext]_streamsVars PROVE SeatsIInv'
  OBVIOUS
<1>1. StreamsIInv'
  BY StreamsStep DEF SeatsIInv
<1>2. StreamFlags'
  <2>1. CASE PublishToStreams
    <3>1. published \in 0..MaxEvents /\ published' = published + 1 /\ published < MaxEvents
      BY <2>1 DEF PublishToStreams, SeatsIInv, StreamFlags
    <3>2. published' \in 0..MaxEvents
      BY <3>1, EventNumbers
    <3> QED BY <2>1, <3>2 DEF PublishToStreams, SeatsIInv, StreamFlags
  <2>2. CASE Shutdown
    BY <2>2 DEF Shutdown, Closes, SeatsIInv, StreamFlags
  <2>3. CASE UNCHANGED <<stopping, closed, published>>
    BY <2>3 DEF SeatsIInv, StreamFlags
  <2> QED BY <2>1, <2>2, <2>3
          DEF StreamsNext, streamsVars, AskStream, RefuseStream, OpenStream, Loops, Round, GetterRuns,
              WaitReturns, Checks, Sent, ClientGoes
<1>3. CASE UNCHANGED <<slots, stream, tally, published>>
  <2>1. Seats' /\ Accounts'
    BY <1>3 DEF SeatsIInv, Seats, Accounts, Account, OpenStreams, StreamClients
  <2> QED BY <1>1, <1>2, <2>1 DEF SeatsIInv
<1>4. ASSUME NEW c \in StreamClients, AskStream(c) \/ RefuseStream(c) PROVE Seats' /\ Accounts'
  BY <1>4, SeatKept, Named DEF AskStream, RefuseStream, IsOpen
<1>5. ASSUME NEW c \in StreamClients, ClientGoes(c) PROVE Seats' /\ Accounts'
  BY <1>5, SeatLeft DEF ClientGoes, OpenStreams, IsOpen
<1>6. CASE PublishToStreams
  BY <1>1, <1>2, <1>6, EventCounted DEF SeatsIInv
<1> QED BY <1>1, <1>2, <1>3, <1>4, <1>5, <1>6, SeatTaken, SeatLoops
        DEF StreamsNext, Shutdown, streamsVars, SeatsIInv

LEMMA SeatsInitial == StreamsInit => SeatsIInv
<1> SUFFICES ASSUME StreamsInit PROVE SeatsIInv
  OBVIOUS
<1>1. OpenStreams = {}
  BY DEF StreamsInit, OpenStreams
<1>2. Cardinality(OpenStreams) = 0
  BY <1>1, FS_EmptySet
<1>3. Seats
  BY <1>2, StreamsAssumption DEF StreamsInit, Seats
<1>5. StreamFlags
  BY EventNumbers DEF StreamsInit, StreamFlags
<1>4. Accounts
  BY DEF StreamsInit, Accounts, Account, Untold
<1> QED BY <1>3, <1>4, <1>5, StreamsInitial DEF SeatsIInv

LEMMA SeatsTypes == SeatsIInv => StreamsTypeOK
<1> SUFFICES ASSUME SeatsIInv PROVE StreamsTypeOK
  OBVIOUS
<1>1. slots \in 0..MaxSlots
  BY ClientsFinite, StreamsAssumption DEF SeatsIInv, Seats
<1>2. published \in Nat /\ published <= MaxEvents
  BY StreamsAssumption DEF SeatsIInv, StreamFlags
<1>3. ASSUME NEW c \in StreamClients
      PROVE  tally[c] \in [due : 0..MaxEvents, dropped : 0..MaxEvents, given : 0..MaxEvents]
  <2>1. /\ tally[c] \in Tallies /\ tally[c].due <= published
        /\ tally[c].due \in Nat /\ tally[c].given \in Nat /\ tally[c].dropped \in Nat
        /\ queued[c] \in Nat
    BY OfOne DEF SeatsIInv, Accounts, Account
  <2>2. tally[c].given <= tally[c].due /\ tally[c].dropped <= tally[c].due
    <3>1. CASE IsOpen(stream[c])
      <4>1. tally[c].due = tally[c].given + tally[c].dropped + queued[c] + Held(stream[c], getter[c])
        BY <3>1, OfOne DEF SeatsIInv, Balanced, IsOpen
      <4>2. Held(stream[c], getter[c]) \in Nat
        BY DEF Held
      <4> QED BY <2>1, <4>1, <4>2
    <3>2. CASE tally[c] = Untold
      BY <3>2 DEF Untold
    <3> QED BY <3>1, <3>2 DEF SeatsIInv, Accounts, Account
  <2>3. /\ tally[c].due \in 0..MaxEvents /\ tally[c].dropped \in 0..MaxEvents
        /\ tally[c].given \in 0..MaxEvents
    BY <1>2, <2>1, <2>2, StreamsAssumption
  <2> QED BY <2>1, <2>3 DEF Tallies
<1>4. tally \in [StreamClients -> [due : 0..MaxEvents, dropped : 0..MaxEvents, given : 0..MaxEvents]]
  BY <1>3 DEF SeatsIInv, StreamsIInv, StreamLevels
<1> QED BY <1>1, <1>4
        DEF SeatsIInv, Seats, StreamFlags, StreamsIInv, StreamLevels, StreamsTypeOK, Loop, Getter

\* Every variable of the streams keeps its type; and a slot is taken exactly while its stream is
\* open, so no slot is lost or given back twice, however a stream ends (event_stream).
THEOREM StreamsTypeCorrect == StreamsInit /\ [][StreamsNext]_streamsVars => []StreamsTypeOK
BY SeatsInitial, SeatsStep, SeatsTypes, PTL

(***************************************************************************)
(* OperationLog                                                            *)
(***************************************************************************)
WatchRecords ==
  [at : {"idle", "waiting", "scanned", "missing", "failed", "succeeded", "empty", "unknown"},
   op : OpIds \cup {NoOperation}, boot : 0..MaxBoots]

\* The log says how an operation has ended, and what it has not, has enough newer ones.
Logged ==
  /\ Stored \subseteq 1..issued
  /\ \A o \in Stored : oplog[o].status = ended[o]
  /\ \A o \in 1..issued : o \notin Stored => ended[o] # "pending" /\ o + Kept <= issued

Unissued == \A o \in OpIds : o > issued => ended[o] = "pending"

\* Results are in the order of their scans, and a pending scan is newer than all of them.
Ascending ==
  /\ \A i, j \in 1..Len(results) : i <= j => results[i] + (j - i) <= results[j]
  /\ \A i \in 1..Len(results) :
       /\ results[i] <= issued
       /\ \A o \in Stored : oplog[o].status = "pending" /\ oplog[o].kind = "scan" => results[i] < o

\* The results of scan o, asked for in the life b of the process, are there, or o is overtaken.
HasResults(o) == \E i \in 1..Len(results) : results[i] = o
Found(o, b) == o + Kept <= issued \/ booted > b \/ HasResults(o)
ScannedWell(o) == o \in Stored /\ oplog[o].kind = "scan" /\ oplog[o].status = "succeeded"

Watching(x) ==
  /\ x.at # "idle" => x.op \in 1..issued
  /\ x.boot <= booted
  /\ x.at = "waiting" /\ ScannedWell(x.op) => Found(x.op, x.boot)
  /\ x.at = "scanned" => ended[x.op] = "succeeded" /\ Found(x.op, x.boot)
  /\ x.at \in {"failed", "succeeded"} => ended[x.op] = x.at
  /\ x.at = "missing" => ended[x.op] # "pending" /\ x.op + Kept <= issued
  /\ x.at = "empty" => x.op + Kept <= issued \/ booted > x.boot

LogIInv ==
  LogTypeOK /\ Logged /\ Unissued /\ Ascending /\ \A w \in Watchers : Watching(watch[w])

LogRecords == [kind : {"scan", "connection"}, status : {"pending", "succeeded", "failed"}]

LEMMA OfLog == ASSUME LogTypeOK PROVE \A o \in Stored : oplog[o] \in LogRecords
BY DEF LogTypeOK, LogRecords

LEMMA LogInitial == LogInit => LogIInv
<1> SUFFICES ASSUME LogInit PROVE LogIInv
  OBVIOUS
<1>1. Stored = {} /\ Len(results) = 0 /\ results \in Seq(OpIds)
  BY DEF LogInit, Stored
<1>2. \A w \in Watchers : watch[w] = [at |-> "idle", op |-> NoOperation, boot |-> 0]
  BY DEF LogInit, NotWatching
<1>3. \A w \in Watchers : Watching(watch[w])
  BY <1>2 DEF Watching, LogInit
<1>4. LogTypeOK
  BY <1>1, LogAssumption DEF LogTypeOK, LogInit, NotWatching
<1>5. Logged /\ Unissued /\ Ascending
  BY <1>1 DEF Logged, Unissued, Ascending, LogInit
<1> QED BY <1>3, <1>4, <1>5 DEF LogIInv

\* Only what is not pending is pruned, and only when enough newer ones are there.
LEMMA PrunedLog ==
  ASSUME NEW log, NEW top \in Nat, DOMAIN log \subseteq 1..top
  PROVE  /\ DOMAIN Pruned(log) \subseteq DOMAIN log
         /\ \A n \in DOMAIN Pruned(log) : Pruned(log)[n] = log[n]
         /\ \A n \in DOMAIN log : n \notin DOMAIN Pruned(log) =>
              log[n].status # "pending" /\ n + Kept <= top
<1>1. /\ DOMAIN Pruned(log) \subseteq DOMAIN log
      /\ \A n \in DOMAIN Pruned(log) : Pruned(log)[n] = log[n]
  BY DEF Pruned
<1>2. ASSUME NEW n \in DOMAIN log, n \notin DOMAIN Pruned(log)
      PROVE  log[n].status # "pending" /\ n + Kept <= top
  <2> DEFINE newer == {m \in DOMAIN log : m > n}
  <2>1. Prunable(log, n) /\ n \notin Newest(log)
    BY <1>2 DEF Pruned
  <2>2. ~(Cardinality(newer) < Kept)
    BY <2>1 DEF Newest
  <2>3. n \in 1..top /\ newer \subseteq (n + 1)..top
    BY DEF newer
  <2>4. IsFiniteSet((n + 1)..top) /\ Cardinality((n + 1)..top) = top - n
    <3>1. n + 1 \in Int /\ top \in Int /\ ~(n + 1 > top + 1) /\ (n + 1 > top => n = top)
      BY <2>3
    <3>2. /\ IsFiniteSet((n + 1)..top)
          /\ Cardinality((n + 1)..top) = IF n + 1 > top THEN 0 ELSE top - (n + 1) + 1
      BY <3>1, FS_Interval
    <3>3. n \in Int /\ (IF n + 1 > top THEN 0 ELSE top - (n + 1) + 1) = top - n
      BY <2>3, <3>1
    <3> QED BY <3>2, <3>3
  <2>5. IsFiniteSet(newer) /\ Cardinality(newer) <= top - n
    BY <2>3, <2>4, FS_Subset
  <2>6. Cardinality(newer) \in Nat
    BY <2>5, FS_CardinalityType
  <2> QED BY <2>1, <2>2, <2>3, <2>5, <2>6, LogAssumption DEF Prunable
<1> QED BY <1>1, <1>2

LEMMA PutLog ==
  ASSUME LogIInv, NEW o \in OpIds, NEW kind, NEW status, Put(o, kind, status),
         NEW top \in Nat, o <= top, issued <= top
  PROVE  /\ Stored' \subseteq Stored \cup {o}
         /\ o \in Stored' => oplog'[o] = [kind |-> kind, status |-> status]
         /\ \A n \in Stored' : n # o => oplog'[n] = oplog[n]
         /\ o \notin Stored' => status # "pending" /\ o + Kept <= top
         /\ \A n \in Stored : n # o /\ n \notin Stored' =>
              oplog[n].status # "pending" /\ n + Kept <= top
<1> DEFINE log == [n \in Stored \cup {o} |->
                     IF n = o THEN [kind |-> kind, status |-> status] ELSE oplog[n]]
<1>1. DOMAIN log = Stored \cup {o} /\ DOMAIN log \subseteq 1..top
  BY DEF LogIInv, LogTypeOK, Logged, OpIds
<1>2. /\ log[o] = [kind |-> kind, status |-> status]
      /\ \A n \in Stored : n # o => log[n] = oplog[n]
  OBVIOUS
<1>3. oplog' = Pruned(log)
  BY DEF Put
<1> HIDE DEF log
<1> QED BY <1>1, <1>2, <1>3, PrunedLog DEF Stored

\* What others wait for or were told stays right while time goes on.
Later ==
  /\ issued' \in Nat /\ issued <= issued' /\ booted' \in Nat /\ booted <= booted'
  /\ \A o \in 1..issued : ended[o] # "pending" => ended'[o] = ended[o]
  /\ \A o \in 1..issued : HasResults(o) => HasResults(o)' \/ o + Kept <= issued' \/ booted < booted'
  /\ \A o \in 1..issued : ScannedWell(o)' => ScannedWell(o) \/ HasResults(o)'

LEMMA WatchingLater ==
  ASSUME LogIInv, Later, NEW x \in WatchRecords, Watching(x) PROVE Watching(x)'
<1>1. issued \in Nat /\ booted \in Nat /\ x.boot \in Nat /\ Kept \in Nat
  BY LogAssumption DEF LogIInv, LogTypeOK, WatchRecords
<1>2. (x.at # "idle" => x.op \in 1..issued') /\ x.boot <= booted'
  BY <1>1 DEF Later, Watching
<1>3. x.op \in 1..issued /\ Found(x.op, x.boot) => Found(x.op, x.boot)'
  <2>1. PICK o, b : o = x.op /\ b = x.boot
    OBVIOUS
  <2>2. o \in 1..issued /\ Found(o, b) =>
          o + Kept <= issued' \/ booted' > b \/ HasResults(o)'
    <3>1. o \in 1..issued /\ HasResults(o) =>
            HasResults(o)' \/ o + Kept <= issued' \/ booted < booted'
      BY DEF Later, HasResults
    <3>2. b \in Nat /\ b <= booted
      BY <1>1, <2>1 DEF Watching
    <3> QED BY <1>1, <3>1, <3>2 DEF Later, Found
  <2>3. Found(o, b)' <=> o + Kept <= issued' \/ booted' > b \/ HasResults(o)'
    BY DEF Found
  <2>4. Found(o, b)' <=> Found(x.op, x.boot)'
    BY <2>1 DEF Found, HasResults
  <2> QED BY <2>1, <2>2, <2>3, <2>4
<1>4. x.at = "waiting" /\ ScannedWell(x.op)' => Found(x.op, x.boot)'
  BY <1>3 DEF Later, Watching, Found
<1>5. x.at = "scanned" => ended'[x.op] = "succeeded" /\ Found(x.op, x.boot)'
  BY <1>3 DEF Later, Watching
<1>6. x.at \in {"failed", "succeeded"} => ended'[x.op] = x.at
  BY DEF Later, Watching
<1>7. x.at = "missing" => ended'[x.op] # "pending" /\ x.op + Kept <= issued'
  BY <1>1 DEF Later, Watching
<1>8. x.at = "empty" => x.op + Kept <= issued' \/ booted' > x.boot
  BY <1>1 DEF Later, Watching
<1> QED BY <1>2, <1>4, <1>5, <1>6, <1>7, <1>8 DEF Watching

LEMMA WatchersLater ==
  ASSUME LogIInv, Later, NEW w \in Watchers PROVE Watching(watch[w])' \/ watch' # watch
<1>1. PICK x : x = watch[w]
  OBVIOUS
<1>2. x \in WatchRecords /\ Watching(x)
  BY <1>1 DEF LogIInv, LogTypeOK, WatchRecords
<1>3. Watching(x)'
  BY <1>2, WatchingLater
<1>4. watch' = watch => x = watch'[w]
  BY <1>1
<1> QED BY <1>3, <1>4 DEF Watching

\* One watcher goes on.
LEMMA OneWatcher ==
  ASSUME LogIInv, LogTypeOK', Logged', Unissued', Ascending', Later, NEW w \in Watchers,
         NEW x \in WatchRecords, watch' = [watch EXCEPT ![w] = x], Watching(x)'
  PROVE  LogIInv'
<1>1. \A v \in Watchers : watch'[v] = IF v = w THEN x ELSE watch[v]
  BY DEF LogIInv, LogTypeOK
<1>2. ASSUME NEW v \in Watchers PROVE Watching(watch[v])'
  <2>1. PICK y : y = watch[v]
    OBVIOUS
  <2>2. y \in WatchRecords /\ Watching(y)
    BY <2>1 DEF LogIInv, LogTypeOK, WatchRecords
  <2>3. Watching(y)'
    BY <2>2, WatchingLater
  <2>4. watch'[v] = IF v = w THEN x ELSE y
    BY <1>1, <2>1
  <2> QED BY <2>3, <2>4 DEF Watching
<1> QED BY <1>2 DEF LogIInv

\* A watcher goes on by itself.
LEMMA OnlyWatcher ==
  ASSUME LogIInv, UNCHANGED <<oplog, issued, results, booted, ended>>, NEW w \in Watchers,
         NEW x \in WatchRecords, watch' = [watch EXCEPT ![w] = x], Watching(x)
  PROVE  LogIInv'
<1>1. Later
  BY DEF LogIInv, LogTypeOK, Later, HasResults, ScannedWell, Stored
<1>2. LogTypeOK'
  BY DEF LogIInv, LogTypeOK, WatchRecords, Stored
<1>3. Logged' /\ Unissued' /\ Ascending'
  BY DEF LogIInv, Logged, Unissued, Ascending, Stored
<1>4. Watching(x)'
  BY <1>1, WatchingLater
<1> QED BY <1>1, <1>2, <1>3, <1>4, OneWatcher

LEMMA OneTold ==
  ASSUME LogIInv, NEW w \in Watchers, NEW what, Told(w, what),
         what \in {"idle", "waiting", "scanned", "missing", "failed", "succeeded", "empty", "unknown"}
  PROVE  \E x \in WatchRecords :
           /\ watch' = [watch EXCEPT ![w] = x]
           /\ x.at = what /\ x.op = watch[w].op /\ x.boot = watch[w].boot
<1> DEFINE x == [watch[w] EXCEPT !.at = what]
<1>1. watch[w] \in WatchRecords
  BY DEF LogIInv, LogTypeOK, WatchRecords
<1>2. x \in WatchRecords /\ x.at = what /\ x.op = watch[w].op /\ x.boot = watch[w].boot
  BY <1>1 DEF WatchRecords
<1>3. watch' = [watch EXCEPT ![w] = x]
  BY DEF Told
<1> QED BY <1>2, <1>3

LEMMA AskStep ==
  ASSUME LogIInv, NEW w \in Watchers, AskOperation(w) \/ WaitsNoMore(w) \/ AskResults(w)
  PROVE  LogIInv'
<1>1. PICK o, b : o = watch[w].op /\ b = watch[w].boot
  OBVIOUS
<1>2. /\ watch[w].at \in {"waiting", "scanned"}
      /\ UNCHANGED <<oplog, issued, results, booted, ended>>
  BY DEF AskOperation, WaitsNoMore, AskResults
<1>3. Watching(watch[w])
  BY DEF LogIInv
<1>4. o \in 1..issued /\ b <= booted
  BY <1>1, <1>2, <1>3 DEF Watching
<1>5. o \notin Stored => ended[o] # "pending" /\ o + Kept <= issued
  BY <1>4 DEF LogIInv, Logged
<1>6. CASE AskOperation(w)
  <2>1. watch[w].at = "waiting" /\ o \notin PendingOps
    BY <1>1, <1>6 DEF AskOperation
  <2>2. o \in Stored =>
          /\ oplog[o].status = ended[o] /\ ended[o] \in {"succeeded", "failed"}
          /\ oplog[o].kind \in {"scan", "connection"}
    <3>1. o \in Stored => oplog[o].status # "pending" /\ oplog[o].status = ended[o]
      BY <2>1 DEF PendingOps, LogIInv, Logged
    <3> QED BY <3>1 DEF LogIInv, LogTypeOK
  <2>3. PICK what : what = (IF o \notin Stored THEN "missing"
                     ELSE IF oplog[o].status = "failed" THEN "failed"
                     ELSE IF oplog[o].kind = "scan" THEN "scanned" ELSE "succeeded")
    OBVIOUS
  <2>4. Told(w, what)
    BY <1>1, <1>6, <2>3 DEF AskOperation
  <2>5. PICK x \in WatchRecords : watch' = [watch EXCEPT ![w] = x] /\ x.at = what /\ x.op = o /\ x.boot = b
    BY <1>1, <2>3, <2>4, OneTold
  <2>6. what = "scanned" => ended[o] = "succeeded" /\ Found(o, b)
    BY <1>1, <1>3, <2>1, <2>2, <2>3 DEF Watching, ScannedWell
  <2>7. what \in {"failed", "succeeded"} => ended[o] = what
    BY <2>2, <2>3
  <2>8. what \in {"missing", "failed", "scanned", "succeeded"}
    BY <2>3
  <2>9. Watching(x)
    BY <1>4, <1>5, <2>3, <2>5, <2>6, <2>7, <2>8 DEF Watching
  <2> QED BY <1>2, <2>5, <2>9, OnlyWatcher
<1>7. CASE WaitsNoMore(w)
  <2>1. PICK x \in WatchRecords :
           watch' = [watch EXCEPT ![w] = x] /\ x.at = "unknown" /\ x.op = o /\ x.boot = b
    BY <1>1, <1>7, OneTold DEF WaitsNoMore
  <2>2. Watching(x)
    BY <1>4, <2>1 DEF Watching
  <2> QED BY <1>2, <2>1, <2>2, OnlyWatcher
<1>8. CASE AskResults(w)
  <2>1. ended[o] = "succeeded" /\ Found(o, b)
    BY <1>1, <1>3, <1>8 DEF AskResults, Watching
  <2>2. PICK what : what = (IF o \notin Stored THEN "missing"
                     ELSE IF \E i \in DOMAIN results : results[i] = o THEN "succeeded" ELSE "empty")
    OBVIOUS
  <2>3. Told(w, what)
    BY <1>1, <1>8, <2>2 DEF AskResults
  <2>4. PICK x \in WatchRecords : watch' = [watch EXCEPT ![w] = x] /\ x.at = what /\ x.op = o /\ x.boot = b
    BY <1>1, <2>2, <2>3, OneTold
  <2>5. DOMAIN results = 1..Len(results)
    BY DEF LogIInv, LogTypeOK
  <2>6. what = "empty" => ~HasResults(o)
    BY <2>2, <2>5 DEF HasResults
  <2>7. what \in {"missing", "succeeded", "empty"}
    BY <2>2
  <2>8. Watching(x)
    BY <1>4, <1>5, <2>1, <2>2, <2>4, <2>6, <2>7 DEF Watching, Found
  <2> QED BY <1>2, <2>4, <2>8, OnlyWatcher
<1> QED BY <1>6, <1>7, <1>8

LEMMA LeaveStep == ASSUME LogIInv, NEW w \in Watchers, LeavesTool(w) PROVE LogIInv'
<1>1. booted \in Nat /\ MaxBoots \in Nat
  BY LogAssumption DEF LogIInv, LogTypeOK
<1>2. NotWatching \in WatchRecords /\ Watching(NotWatching)
  BY <1>1 DEF WatchRecords, NotWatching, Watching
<1> QED BY <1>2, OnlyWatcher DEF LeavesTool

LEMMA IssueStep ==
  ASSUME LogIInv, NEW w \in Watchers, NEW kind \in {"scan", "connection"}, Issue(w, kind)
  PROVE  LogIInv'
<1>1. PICK o : o = issued + 1
  OBVIOUS
<1>2. /\ issued \in Nat /\ o \in OpIds /\ o \in Nat /\ issued' = o /\ booted \in 0..MaxBoots
      /\ UNCHANGED <<results, booted, ended>>
  BY <1>1, LogAssumption DEF Issue, LogIInv, LogTypeOK, OpIds
<1>3. /\ Stored' \subseteq Stored \cup {o}
      /\ o \in Stored' /\ oplog'[o] = [kind |-> kind, status |-> "pending"]
      /\ \A n \in Stored' : n # o => oplog'[n] = oplog[n]
      /\ \A n \in Stored : n # o /\ n \notin Stored' => oplog[n].status # "pending" /\ n + Kept <= o
  <2>1. Put(o, kind, "pending")
    BY <1>1, <1>2 DEF Issue
  <2>2. o <= o /\ issued <= o
    BY <1>1, <1>2
  <2> QED BY <1>2, <2>1, <2>2, PutLog
<1>4. LogTypeOK'
  <2>1. watch' \in [Watchers -> WatchRecords]
    BY <1>2 DEF Issue, Waits, LogIInv, LogTypeOK, WatchRecords
  <2>2. \A n \in Stored' : oplog'[n] \in [kind : {"scan", "connection"},
                                          status : {"pending", "succeeded", "failed"}]
    <3>1. [kind |-> kind, status |-> "pending"] \in LogRecords
      BY DEF LogRecords
    <3>2. \A n \in Stored' : oplog'[n] \in LogRecords
      BY <1>3, <3>1, OfLog DEF LogIInv
    <3> QED BY <3>2 DEF LogRecords
  <2>3. Stored' \subseteq OpIds
    BY <1>2, <1>3 DEF LogIInv, LogTypeOK
  <2>4. issued' \in 0..MaxOps
    BY <1>2 DEF OpIds
  <2> QED BY <1>2, <2>1, <2>2, <2>3, <2>4 DEF LogIInv, LogTypeOK, WatchRecords
<1>5. ended[o] = "pending"
  BY <1>1, <1>2 DEF LogIInv, Unissued
<1>6. Logged'
  <2>1. Stored' \subseteq 1..issued'
    BY <1>1, <1>2, <1>3 DEF LogIInv, Logged
  <2>2. \A n \in Stored' : oplog'[n].status = ended'[n]
    <3>1. \A n \in Stored : oplog[n].status = ended[n]
      BY DEF LogIInv, Logged
    <3>2. oplog'[o].status = ended[o]
      BY <1>3, <1>5
    <3>3. \A n \in Stored' : n # o => oplog'[n].status = ended[n]
      BY <1>3, <3>1
    <3> QED BY <1>2, <3>2, <3>3
  <2>3. ASSUME NEW n \in 1..issued', n \notin Stored' PROVE ended'[n] # "pending" /\ n + Kept <= issued'
    <3>1. n \in 1..issued
      BY <1>1, <1>2, <1>3, <2>3
    <3>2. CASE n \in Stored
      BY <1>2, <1>3, <2>3, <3>2 DEF LogIInv, Logged
    <3>3. CASE n \notin Stored
      <4>1. ended[n] # "pending" /\ n + Kept <= issued
        BY <3>1, <3>3 DEF LogIInv, Logged
      <4> QED BY <4>1, <3>1, <1>1, <1>2, LogAssumption
    <3> QED BY <3>2, <3>3
  <2> QED BY <2>1, <2>2, <2>3 DEF Logged
<1>7. Ascending' /\ Unissued'
  <2>1. \A i \in 1..Len(results) : results[i] \in Nat /\ results[i] <= issued
    <3>1. results \in Seq(OpIds)
      BY DEF LogIInv, LogTypeOK
    <3>2. \A i \in 1..Len(results) : results[i] \in OpIds
      BY <3>1
    <3> QED BY <3>2 DEF LogIInv, Ascending, OpIds
  <2>2. ASSUME NEW i \in 1..Len(results), NEW n \in Stored',
               oplog'[n].status = "pending", oplog'[n].kind = "scan"
        PROVE  results[i] < n
    <3>1. CASE n = o
      BY <1>1, <1>2, <2>1, <3>1
    <3>2. CASE n # o
      BY <1>3, <2>2, <3>2 DEF LogIInv, Ascending
    <3> QED BY <3>1, <3>2
  <2>3. \A i \in 1..Len(results) : results[i] <= issued'
    BY <1>1, <1>2, <2>1
  <2>4. Ascending'
    BY <1>2, <2>2, <2>3 DEF LogIInv, Ascending
  <2>5. Unissued'
    BY <1>1, <1>2 DEF LogIInv, Unissued, OpIds
  <2> QED BY <2>4, <2>5
<1>8. Later
  <2>1. \A n \in 1..issued : ScannedWell(n)' => ScannedWell(n)
    BY <1>1, <1>2, <1>3 DEF ScannedWell
  <2>2. \A n \in 1..issued : HasResults(n) => HasResults(n)'
    BY <1>2 DEF HasResults
  <2> QED BY <1>1, <1>2, <2>1, <2>2 DEF Later
<1>9. PICK x : x = [at |-> "waiting", op |-> o, boot |-> booted]
  OBVIOUS
<1>10. x \in WatchRecords /\ watch' = [watch EXCEPT ![w] = x]
  BY <1>1, <1>2, <1>9 DEF Issue, Waits, WatchRecords
<1>11. Watching(x)'
  <2>1. ~ScannedWell(x.op)'
    BY <1>3, <1>9 DEF ScannedWell
  <2>2. x.op \in 1..issued' /\ x.boot <= booted'
    BY <1>1, <1>2, <1>9
  <2> QED BY <1>9, <2>1, <2>2 DEF Watching
<1> QED BY <1>4, <1>6, <1>7, <1>8, <1>10, <1>11, OneWatcher

LEMMA StartStep ==
  ASSUME LogIInv, NEW w \in Watchers, StartConnection(w) \/ StartLogScan(w) PROVE LogIInv'
<1>1. CASE \E kind \in {"scan", "connection"} : Issue(w, kind)
  BY <1>1, IssueStep
<1>2. CASE /\ \E o \in JoinableScans : Waits(w, o)
           /\ UNCHANGED <<oplog, issued, results, booted, ended>>
  <2>1. PICK o \in JoinableScans : Waits(w, o)
    BY <1>2
  <2>2. o \in Stored /\ oplog[o].status = "pending"
    BY DEF JoinableScans, PendingOps
  <2>3. o \in 1..issued /\ o \in OpIds /\ booted \in 0..MaxBoots
    BY <2>2 DEF LogIInv, LogTypeOK, Logged
  <2>4. PICK x : x = [at |-> "waiting", op |-> o, boot |-> booted]
    OBVIOUS
  <2>5. x \in WatchRecords /\ watch' = [watch EXCEPT ![w] = x]
    BY <2>1, <2>3, <2>4 DEF Waits, WatchRecords
  <2>6. Watching(x)
    BY <2>2, <2>3, <2>4 DEF Watching, ScannedWell
  <2> QED BY <1>2, <2>5, <2>6, OnlyWatcher
<1> QED BY <1>1, <1>2 DEF StartConnection, StartLogScan

\* An operation ends with a status that the watchers may be told.
LEMMA EndStep ==
  ASSUME LogIInv, NEW o \in PendingOps, NEW status \in {"succeeded", "failed"}, EndsAs(o, status),
         UNCHANGED <<issued, booted, watch>>,
         results' \in Seq(OpIds), Len(results') <= Kept, Ascending',
         \A n \in 1..issued : HasResults(n) => HasResults(n)' \/ n + Kept <= issued,
         oplog[o].kind = "scan" /\ status = "succeeded" => HasResults(o)'
  PROVE  LogIInv'
<1>1. /\ issued \in Nat /\ o \in Stored /\ o \in 1..issued /\ o \in OpIds
      /\ booted \in Nat /\ oplog[o].status = "pending" /\ ended[o] = "pending"
      /\ ended' = [ended EXCEPT ![o] = status] /\ o <= issued /\ issued <= issued
  <2>1. o \in Stored /\ oplog[o].status = "pending"
    BY DEF PendingOps
  <2>2. issued \in Nat /\ booted \in Nat /\ o \in 1..issued /\ o \in OpIds /\ ended[o] = "pending"
    BY <2>1, LogAssumption DEF LogIInv, LogTypeOK, Logged
  <2> QED BY <2>1, <2>2 DEF EndsAs
<1>2. PICK kind : kind = oplog[o].kind
  OBVIOUS
<1>3. /\ Stored' \subseteq Stored \cup {o}
      /\ o \in Stored' => oplog'[o] = [kind |-> kind, status |-> status]
      /\ \A n \in Stored' : n # o => oplog'[n] = oplog[n]
      /\ o \notin Stored' => o + Kept <= issued
      /\ \A n \in Stored : n # o /\ n \notin Stored' => oplog[n].status # "pending" /\ n + Kept <= issued
  <2>1. Put(o, kind, status)
    BY <1>2 DEF EndsAs
  <2>2. /\ Stored' \subseteq Stored \cup {o}
        /\ o \in Stored' => oplog'[o] = [kind |-> kind, status |-> status]
        /\ \A n \in Stored' : n # o => oplog'[n] = oplog[n]
        /\ o \notin Stored' => status # "pending" /\ o + Kept <= issued
        /\ \A n \in Stored : n # o /\ n \notin Stored' =>
             oplog[n].status # "pending" /\ n + Kept <= issued
    BY <1>1, <2>1, PutLog
  <2> QED BY <2>2
<1>4. \A n \in OpIds : ended'[n] = IF n = o THEN status ELSE ended[n]
  BY <1>1 DEF LogIInv, LogTypeOK
<1>5. LogTypeOK'
  <2>1. kind \in {"scan", "connection"}
    BY <1>1, <1>2 DEF LogIInv, LogTypeOK
  <2>2. \A n \in Stored' : oplog'[n] \in [kind : {"scan", "connection"},
                                          status : {"pending", "succeeded", "failed"}]
    <3>1. [kind |-> kind, status |-> status] \in LogRecords
      BY <2>1 DEF LogRecords
    <3>2. \A n \in Stored' : oplog'[n] \in LogRecords
      BY <1>3, <3>1, OfLog DEF LogIInv
    <3> QED BY <3>2 DEF LogRecords
  <2>3. ended' \in [OpIds -> {"pending", "succeeded", "failed"}]
    BY <1>1 DEF LogIInv, LogTypeOK
  <2> QED BY <1>1, <1>3, <2>2, <2>3 DEF LogIInv, LogTypeOK
<1>6. 1..issued \subseteq OpIds
  BY LogAssumption DEF LogIInv, LogTypeOK, OpIds
<1>7. Logged'
  <2>1. Stored' \subseteq 1..issued'
    BY <1>1, <1>3 DEF LogIInv, Logged
  <2>2. \A n \in Stored' : oplog'[n].status = ended'[n]
    BY <1>1, <1>3, <1>4, <1>6 DEF LogIInv, Logged
  <2>3. \A n \in 1..issued' : n \notin Stored' => ended'[n] # "pending" /\ n + Kept <= issued'
    BY <1>1, <1>3, <1>4, <1>6 DEF LogIInv, Logged
  <2> QED BY <2>1, <2>2, <2>3 DEF Logged
<1>8. Unissued'
  BY <1>1, <1>4 DEF LogIInv, Unissued, OpIds
<1>9. Later
  <2>1. \A n \in 1..issued : ended[n] # "pending" => ended'[n] = ended[n]
    BY <1>1, <1>4, <1>6
  <2>2. \A n \in 1..issued : ScannedWell(n)' => ScannedWell(n) \/ HasResults(n)'
    <3>1. ScannedWell(o)' => HasResults(o)'
      BY <1>2, <1>3 DEF ScannedWell
    <3>2. \A n \in 1..issued : n # o /\ ScannedWell(n)' => ScannedWell(n)
      BY <1>3 DEF ScannedWell
    <3> QED BY <3>1, <3>2
  <2> QED BY <1>1, <2>1, <2>2 DEF Later
<1>10. \A w \in Watchers : Watching(watch[w])'
  BY <1>9, WatchersLater
<1> QED BY <1>5, <1>7, <1>8, <1>10 DEF LogIInv

LEMMA OtherEndStep == ASSUME LogIInv, NEW o, OtherwiseEnds(o) PROVE LogIInv'
<1>1. o \in PendingOps /\ UNCHANGED <<issued, results, booted, watch>>
  BY DEF OtherwiseEnds
<1>2. PICK status \in {"succeeded", "failed"} :
        EndsAs(o, status) /\ (oplog[o].kind = "connection" \/ status = "failed")
  BY DEF OtherwiseEnds
<1>3. results' \in Seq(OpIds) /\ Len(results') <= Kept
  BY <1>1 DEF LogIInv, LogTypeOK
<1>4. \A n \in 1..issued : HasResults(n) => HasResults(n)'
  BY <1>1 DEF HasResults
<1>5. Ascending'
  <2>1. issued \in Nat /\ o \in OpIds /\ o \in Stored /\ o \in 1..issued /\ issued <= issued
    BY <1>1 DEF LogIInv, LogTypeOK, Logged, PendingOps
  <2>2. o <= issued /\ Put(o, oplog[o].kind, status)
    BY <1>2, <2>1 DEF EndsAs
  <2>3. PICK kind : kind = oplog[o].kind
    OBVIOUS
  <2>4. /\ Stored' \subseteq Stored \cup {o}
        /\ o \in Stored' => oplog'[o] = [kind |-> kind, status |-> status]
        /\ \A n \in Stored' : n # o => oplog'[n] = oplog[n]
    BY <2>1, <2>2, <2>3, PutLog
  <2>5. \A n \in Stored' : oplog'[n].status = "pending" => n \in Stored /\ oplog'[n] = oplog[n]
    BY <2>4
  <2> QED BY <1>1, <2>5 DEF LogIInv, Ascending
<1> QED BY <1>1, <1>2, <1>3, <1>4, <1>5, EndStep

\* The new results are the newest, and what they push out is overtaken.
LEMMA ResultsStep ==
  ASSUME LogIInv, NEW o \in 1..issued, \A i \in 1..Len(results) : results[i] < o,
         results' = Limited(Append(results, o))
  PROVE  /\ results' \in Seq(OpIds) /\ Len(results') <= Kept
         /\ \A i, j \in 1..Len(results') : i <= j => results'[i] + (j - i) <= results'[j]
         /\ \A i \in 1..Len(results') : results'[i] = o \/ \E k \in 1..Len(results) : results'[i] = results[k]
         /\ \A n \in 1..issued : HasResults(n) => HasResults(n)' \/ n + Kept <= issued
         /\ HasResults(o)'
<1> DEFINE all == Append(results, o)
<1>1. /\ results \in Seq(OpIds) /\ Len(results) \in Nat /\ Len(results) <= Kept /\ issued \in Nat
      /\ Kept \in Nat \ {0} /\ o \in OpIds /\ o \in Nat /\ o <= issued
  BY LogAssumption DEF LogIInv, LogTypeOK, OpIds
<1>2. PICK m \in Nat : m = Len(results)
  BY <1>1
<1>3. /\ all \in Seq(OpIds) /\ Len(all) = m + 1 /\ all[m + 1] = o
      /\ \A i \in 1..m : all[i] = results[i]
  BY <1>1, <1>2
<1>4. \A i \in 1..m : results[i] \in Nat /\ results[i] < o
  <2>1. \A i \in 1..Len(results) : results[i] \in OpIds
    BY <1>1
  <2> QED BY <1>2, <2>1 DEF OpIds
<1>5. \A i, j \in 1..m : i <= j => results[i] + (j - i) <= results[j]
  BY <1>2 DEF LogIInv, Ascending
<1>6. \A i, j \in 1..(m + 1) : i <= j => all[i] + (j - i) <= all[j]
  <2> SUFFICES ASSUME NEW i \in 1..(m + 1), NEW j \in 1..(m + 1), i <= j
               PROVE  all[i] + (j - i) <= all[j]
    OBVIOUS
  <2> HIDE DEF all
  <2>1. CASE j \in 1..m
    <3>1. i \in 1..m /\ all[i] = results[i] /\ all[j] = results[j]
      BY <1>3, <2>1
    <3> QED BY <1>5, <2>1, <3>1
  <2>2. CASE j = m + 1 /\ i = m + 1
    <3>1. all[i] = o /\ all[j] = o /\ j - i = 0
      BY <1>3, <2>2
    <3> QED BY <1>1, <3>1
  <2>3. CASE j = m + 1 /\ i \in 1..m
    <3>1. m \in 1..m /\ results[i] + (m - i) <= results[m] /\ results[m] < o
      BY <1>4, <1>5, <2>3
    <3>2. all[i] = results[i] /\ all[j] = o /\ results[i] \in Nat /\ results[m] \in Nat
      BY <1>3, <1>4, <2>3, <3>1
    <3> QED BY <1>1, <2>3, <3>1, <3>2
  <2> QED BY <2>1, <2>2, <2>3
<1> HIDE DEF all
<1>7. CASE m + 1 <= Kept
  <2>1. results' = all /\ Len(results') = m + 1
    BY <1>1, <1>2, <1>3, <1>7 DEF Limited, all
  <2>2. \A n : HasResults(n) => HasResults(n)'
    BY <1>2, <1>3, <2>1 DEF HasResults
  <2>3. HasResults(o)'
    BY <1>2, <1>3, <2>1 DEF HasResults
  <2>4. \A i \in 1..Len(results') : results'[i] = o \/ \E k \in 1..Len(results) : results'[i] = results[k]
    <3>1. \A i \in 1..(m + 1) : i = m + 1 \/ i \in 1..m
      BY <1>2
    <3> QED BY <1>2, <1>3, <2>1, <3>1
  <2> QED BY <1>3, <1>6, <1>7, <2>1, <2>2, <2>3, <2>4
<1>8. CASE ~(m + 1 <= Kept)
  <2>1. m = Kept /\ results' = Tail(all) /\ m > 0
    BY <1>1, <1>2, <1>3, <1>8 DEF Limited, all
  <2>2. /\ results' \in Seq(OpIds) /\ Len(results') = m
        /\ \A i \in 1..m : results'[i] = all[i + 1]
    BY <1>2, <1>3, <2>1
  <2>3. \A i, j \in 1..m : i <= j => results'[i] + (j - i) <= results'[j]
    <3> SUFFICES ASSUME NEW i \in 1..m, NEW j \in 1..m, i <= j PROVE results'[i] + (j - i) <= results'[j]
      OBVIOUS
    <3>1. i + 1 \in 1..(m + 1) /\ j + 1 \in 1..(m + 1) /\ i + 1 <= j + 1 /\ (j + 1) - (i + 1) = j - i
      BY <1>2
    <3> QED BY <1>6, <2>2, <3>1
  <2>4. ASSUME NEW n \in 1..issued, HasResults(n) PROVE HasResults(n)' \/ n + Kept <= issued
    <3>1. PICK i \in 1..m : results[i] = n
      BY <1>2, <2>4 DEF HasResults
    <3>2. CASE i = 1
      <4>1. 1 \in 1..(m + 1) /\ m + 1 \in 1..(m + 1) /\ (m + 1) - 1 = m
        BY <1>2
      <4>2. all[1] + m <= all[m + 1]
        BY <1>6, <4>1, <2>1
      <4>3. n + Kept <= o
        BY <1>3, <2>1, <3>1, <3>2, <4>2
      <4> QED BY <1>1, <4>3
    <3>3. CASE i # 1
      <4>1. i - 1 \in 1..m /\ (i - 1) + 1 = i
        BY <1>2, <3>3
      <4>2. results'[i - 1] = n
        BY <1>3, <2>2, <3>1, <4>1
      <4> QED BY <2>2, <4>1, <4>2 DEF HasResults
    <3> QED BY <3>2, <3>3
  <2>5. HasResults(o)'
    <3>1. m \in 1..m /\ results'[m] = o
      BY <1>2, <1>3, <2>1, <2>2
    <3> QED BY <2>2, <3>1 DEF HasResults
  <2>6. ASSUME NEW i \in 1..m PROVE results'[i] = o \/ \E k \in 1..m : results'[i] = results[k]
    <3>1. results'[i] = all[i + 1]
      BY <2>2
    <3>2. i = m \/ i + 1 \in 1..m
      BY <1>2
    <3> QED BY <1>3, <3>1, <3>2
  <2> QED BY <1>1, <1>2, <2>1, <2>2, <2>3, <2>4, <2>5, <2>6
<1> QED BY <1>7, <1>8

LEMMA ScanEndStep == ASSUME LogIInv, NEW o, ScanSucceeds(o) PROVE LogIInv'
<1>1. /\ o \in PendingOps /\ oplog[o].kind = "scan" /\ EndsAs(o, "succeeded")
      /\ UNCHANGED <<issued, booted, watch>> /\ results' = Limited(Append(results, o))
      /\ \A n \in PendingOps : oplog[n].kind = "scan" => o <= n
  BY DEF ScanSucceeds
<1>2. o \in Stored /\ oplog[o].status = "pending"
  BY <1>1 DEF PendingOps
<1>3. o \in 1..issued /\ o \in OpIds /\ issued \in Nat
  <2>1. LogTypeOK /\ Logged
    BY DEF LogIInv
  <2>2. issued \in Nat
    BY <2>1, LogAssumption DEF LogTypeOK
  <2>3. o \in OpIds
    BY <1>2, <2>1 DEF LogTypeOK
  <2> QED BY <1>2, <2>1, <2>2, <2>3 DEF Logged
<1>4. \A i \in 1..Len(results) : results[i] < o
  BY <1>1, <1>2 DEF LogIInv, Ascending
<1>5. /\ results' \in Seq(OpIds) /\ Len(results') <= Kept
      /\ \A i, j \in 1..Len(results') : i <= j => results'[i] + (j - i) <= results'[j]
      /\ \A i \in 1..Len(results') : results'[i] = o \/ \E k \in 1..Len(results) : results'[i] = results[k]
      /\ \A n \in 1..issued : HasResults(n) => HasResults(n)' \/ n + Kept <= issued
      /\ HasResults(o)'
  BY <1>1, <1>3, <1>4, ResultsStep
<1>6. Ascending'
  <2>1. Put(o, "scan", "succeeded") /\ o <= issued /\ issued <= issued
    BY <1>1, <1>3 DEF EndsAs
  <2>2. /\ Stored' \subseteq Stored \cup {o}
        /\ o \in Stored' => oplog'[o] = [kind |-> "scan", status |-> "succeeded"]
        /\ \A n \in Stored' : n # o => oplog'[n] = oplog[n]
    BY <1>3, <2>1, PutLog
  <2>3. ASSUME NEW n \in Stored', oplog'[n].status = "pending", oplog'[n].kind = "scan"
        PROVE  /\ n \in PendingOps /\ oplog[n].kind = "scan" /\ n # o /\ o < n
               /\ \A k \in 1..Len(results) : results[k] < n
    <3>1. n # o /\ n \in Stored /\ oplog[n].status = "pending" /\ oplog[n].kind = "scan"
      BY <2>2, <2>3
    <3>2. n \in PendingOps /\ n \in 1..issued
      BY <3>1 DEF PendingOps, LogIInv, Logged
    <3>3. o < n
      BY <1>1, <1>3, <3>1, <3>2
    <3> QED BY <3>1, <3>2, <3>3 DEF LogIInv, Ascending
  <2>4. \A i \in 1..Len(results) : results[i] <= issued
    BY DEF LogIInv, Ascending
  <2>5. ASSUME NEW i \in 1..Len(results') PROVE results'[i] <= issued'
    <3>1. CASE results'[i] = o
      BY <1>1, <1>3, <3>1
    <3>2. CASE \E k \in 1..Len(results) : results'[i] = results[k]
      BY <1>1, <2>4, <3>2
    <3> QED BY <1>5, <3>1, <3>2
  <2>6. \A i \in 1..Len(results') : \A n \in Stored' :
           oplog'[n].status = "pending" /\ oplog'[n].kind = "scan" => results'[i] < n
    BY <1>5, <2>3
  <2> QED BY <1>5, <2>5, <2>6 DEF Ascending
<1> QED BY <1>1, <1>5, <1>6, EndStep

LEMMA BootStep == ASSUME LogIInv, NewProcess PROVE LogIInv'
<1>1. /\ booted \in 0..MaxBoots /\ booted' = booted + 1 /\ booted' \in 0..MaxBoots
      /\ booted' \in Nat /\ issued \in Nat
      /\ UNCHANGED <<issued, watch>> /\ results' = <<>>
  BY LogAssumption DEF NewProcess, LogIInv, LogTypeOK
<1>2. PendingOps \subseteq OpIds /\ 1..issued \subseteq OpIds
  <2>1. PendingOps \subseteq OpIds
    BY DEF PendingOps, LogIInv, LogTypeOK
  <2>2. issued \in 0..MaxOps /\ MaxOps \in Nat
    BY LogAssumption DEF LogIInv, LogTypeOK
  <2> QED BY <2>1, <2>2 DEF OpIds
<1>3. /\ Stored' = Stored
      /\ \A o \in Stored : oplog'[o] = IF o \in PendingOps THEN [oplog[o] EXCEPT !.status = "failed"]
                                                          ELSE oplog[o]
  BY DEF NewProcess, Stored
<1>4. \A o \in OpIds : ended'[o] = IF o \in PendingOps THEN "failed" ELSE ended[o]
  BY DEF NewProcess
<1>5. \A o \in Stored : /\ oplog[o] \in [kind : {"scan", "connection"},
                                         status : {"pending", "succeeded", "failed"}]
                        /\ o \in PendingOps <=> oplog[o].status = "pending"
                        /\ oplog[o].status = ended[o]
  BY DEF LogIInv, LogTypeOK, Logged, PendingOps
<1>6. \A o \in Stored : /\ oplog'[o] \in [kind : {"scan", "connection"},
                                          status : {"pending", "succeeded", "failed"}]
                        /\ oplog'[o].status = IF o \in PendingOps THEN "failed" ELSE oplog[o].status
                        /\ oplog'[o].status # "pending"
                        /\ oplog'[o].kind = oplog[o].kind
  BY <1>3, <1>5
<1>7. results' \in Seq(OpIds) /\ Len(results') = 0 /\ Kept \in Nat
  BY <1>1, LogAssumption
<1>8. ended' \in [OpIds -> {"pending", "succeeded", "failed"}]
  BY DEF NewProcess, LogIInv, LogTypeOK
<1>9. LogTypeOK'
  BY <1>1, <1>3, <1>6, <1>7, <1>8 DEF LogIInv, LogTypeOK
<1>10. Logged'
  <2>1. \A o \in Stored' : oplog'[o].status = ended'[o]
    BY <1>3, <1>4, <1>5, <1>6 DEF LogIInv, LogTypeOK
  <2>2. \A o \in 1..issued' : o \notin Stored' => ended'[o] # "pending" /\ o + Kept <= issued'
    BY <1>1, <1>2, <1>3, <1>4 DEF LogIInv, Logged
  <2> QED BY <1>1, <1>3, <2>1, <2>2 DEF LogIInv, Logged
<1>11. Ascending'
  BY <1>7 DEF Ascending
<1>12. Unissued'
  <2>1. \A o \in PendingOps : o <= issued
    BY <1>1 DEF PendingOps, LogIInv, Logged
  <2>2. \A o \in OpIds : o > issued => o \notin PendingOps
    BY <1>1, <2>1 DEF OpIds
  <2> QED BY <1>1, <1>4, <2>2 DEF LogIInv, Unissued
<1>13. Later
  <2>1. \A o \in 1..issued : ended[o] # "pending" => ended'[o] = ended[o]
    BY <1>2, <1>4, <1>5 DEF PendingOps
  <2>2. \A o \in 1..issued : ScannedWell(o)' => ScannedWell(o)
    BY <1>3, <1>6 DEF ScannedWell
  <2>3. booted < booted' /\ booted \in Nat
    BY <1>1
  <2> QED BY <1>1, <2>1, <2>2, <2>3 DEF Later
<1>14. \A w \in Watchers : Watching(watch[w])'
  BY <1>1, <1>13, WatchersLater
<1> QED BY <1>9, <1>10, <1>11, <1>12, <1>14 DEF LogIInv

LEMMA LogStep == LogIInv /\ [LogNext]_logVars => LogIInv'
<1> SUFFICES ASSUME LogIInv, [LogNext]_logVars PROVE LogIInv'
  OBVIOUS
<1>1. CASE UNCHANGED logVars
  <2>1. UNCHANGED <<oplog, issued, results, booted, ended, watch>>
    BY <1>1 DEF logVars
  <2>2. LogTypeOK'
    BY <2>1 DEF LogIInv, LogTypeOK, Stored
  <2>3. Logged' /\ Ascending' /\ Unissued'
    BY <2>1 DEF LogIInv, Logged, Ascending, Unissued, Stored
  <2>4. Later
    BY <2>1 DEF LogIInv, LogTypeOK, Later, HasResults, ScannedWell, Stored
  <2> QED BY <2>1, <2>2, <2>3, <2>4, WatchersLater DEF LogIInv
<1> QED BY <1>1, BootStep, ScanEndStep, OtherEndStep, StartStep, AskStep, LeaveStep DEF LogNext, Watches

\* The inductive invariant of the log and those who watch it, through any number of restarts.
THEOREM LogHolds == LogSpec => []LogIInv
BY LogInitial, LogStep, PTL DEF LogSpec

\* Whoever waits for an operation is told what happened to it, and that nothing is known or was
\* found only of what was overtaken, or after a restart: for any size of the log and any number
\* of watchers, operations and restarts (save_operation, start_scan, wait_for_operation).
THEOREM WatchersAreToldTheTruth == LogSpec => []TruthTold
<1>1. ASSUME LogIInv, NEW w \in Watchers
      PROVE  LET o == watch[w].op
                 overtaken == issued >= o + Kept
             IN /\ watch[w].at \in {"failed", "succeeded"} => ended[o] = watch[w].at
                /\ watch[w].at = "missing" => ended[o] # "pending" /\ overtaken
                /\ watch[w].at = "empty" => overtaken \/ booted > watch[w].boot
  <2>1. Watching(watch[w]) /\ issued \in Nat /\ Kept \in Nat
    BY <1>1, LogAssumption DEF LogIInv, LogTypeOK
  <2>2. watch[w].at # "idle" => watch[w].op \in 1..issued
    BY <2>1 DEF Watching
  <2> QED BY <2>1, <2>2 DEF Watching
<1>2. LogIInv => TruthTold
  BY <1>1 DEF TruthTold
<1> QED BY <1>2, LogHolds, PTL

(***************************************************************************)
(* Deployment                                                              *)
(***************************************************************************)
\* The steps that the scripts have left, by the one that is next.
ToBootstrap == <<"bootstrap", "validate", "select", "unit">>
ToCheck == <<"validate", "select", "unit">>
ToLink == <<"select", "unit">>
ToFinish == <<"unit">>
ToStop == <<"stop", "backup", "validate", "select", "unit", "start">>
ToBackUp == <<"backup", "validate", "select", "unit", "start">>
ToValidate == <<"validate", "select", "unit", "start">>
ToSelect == <<"select", "unit", "start">>
ToInstall == <<"unit", "start">>
ToStart == <<"start">>
ToKeep == <<"backup", "database", "unit", "select", "start">>
ToRestore == <<"database", "unit", "select", "start">>
ToReinstall == <<"unit", "select", "start">>
ToReselect == <<"select", "start">>
BackupSteps == <<"backup">>
UninstallSteps == <<"disable", "remove">>
ToRemove == <<"remove">>

Installing(s, r) ==
  \/ s = InstallSteps /\ MayInstall /\ built < MaxReleases
  \/ /\ r \in 1..built
     /\ \/ s = ToBootstrap /\ MayInstall
        \/ s \in {ToCheck, ToLink} /\ current = None /\ database = r
        \/ s = ToFinish /\ current = r /\ database = r /\ unit = None

Upgrading(s, r) ==
  /\ current # None
  /\ \/ s = UpgradeSteps /\ built < MaxReleases
     \/ /\ r \in 1..built /\ (database = Torn \/ database <= r)
        /\ s = ToStop \/ (s = ToBackUp /\ broken)
     \/ /\ r \in 1..built /\ broken /\ backups # {}
        /\ \/ s = ToValidate /\ database \in 1..r
           \/ s = ToSelect /\ database = r
           \/ s = ToInstall /\ database = r /\ current = r
           \/ s = ToStart /\ database = r /\ current = r /\ unit = r

RollingBack(s, b) ==
  /\ b \in backups
  /\ \/ s = RollbackSteps
     \/ /\ broken
        /\ \/ s \in {ToKeep, ToRestore}
           \/ s = ToReinstall /\ database = b.database
           \/ s = ToReselect /\ database = b.database /\ unit = b.unit
           \/ s = ToStart /\ database = b.database /\ unit = b.unit /\ current = b.release

Otherwise(s) ==
  \/ s = BackupSteps /\ current # None
  \/ s = UninstallSteps
  \/ s = ToRemove /\ ~running /\ ~enabled

\* What a script has reached, by the step that is next.
Doing(s, r, b) ==
  \/ s = <<>> /\ r = None /\ b = NoBackup
  \/ b = NoBackup /\ (Installing(s, r) \/ Upgrading(s, r) \/ Otherwise(s))
  \/ RollingBack(s, b)

BackupsUpTo(n) == [release : 1..n, database : 1..n, unit : 1..n]

HostInv ==
  /\ built \in 0..MaxReleases /\ current \in 0..built /\ unit \in 0..built
  /\ database \in 0..built \/ database = Torn
  /\ backups \subseteq BackupsUpTo(built)
  /\ enabled \in BOOLEAN /\ running \in BOOLEAN /\ broken \in BOOLEAN

\* The first backup is made of a host that fits together; and a host without one, or that no
\* script has left half done, does.
FitInv ==
  /\ backups # {} => \E b \in backups : Whole(b)
  /\ current = None => unit = None /\ backups = {} /\ ~broken
  /\ unit = None => ~running /\ ~enabled
  /\ (~broken \/ backups = {}) /\ current # None => database = current /\ unit \in {None, current}

ScriptInv ==
  /\ script = [steps |-> script.steps, release |-> script.release, source |-> script.source]
  /\ Doing(script.steps, script.release, script.source)

DeploymentIInv == HostInv /\ FitInv /\ ScriptInv

LEMMA Suffixes ==
  /\ Head(InstallSteps) = "build" /\ Tail(InstallSteps) = ToBootstrap /\ InstallSteps # <<>>
  /\ Head(ToBootstrap) = "bootstrap" /\ Tail(ToBootstrap) = ToCheck /\ ToBootstrap # <<>>
  /\ Head(ToCheck) = "validate" /\ Tail(ToCheck) = ToLink /\ ToCheck # <<>>
  /\ Head(ToLink) = "select" /\ Tail(ToLink) = ToFinish /\ ToLink # <<>>
  /\ Head(ToFinish) = "unit" /\ Tail(ToFinish) = <<>> /\ ToFinish # <<>>
  /\ Head(UpgradeSteps) = "build" /\ Tail(UpgradeSteps) = ToStop /\ UpgradeSteps # <<>>
  /\ Head(ToStop) = "stop" /\ Tail(ToStop) = ToBackUp /\ ToStop # <<>>
  /\ Head(ToBackUp) = "backup" /\ Tail(ToBackUp) = ToValidate /\ ToBackUp # <<>>
  /\ Head(ToValidate) = "validate" /\ Tail(ToValidate) = ToSelect /\ ToValidate # <<>>
  /\ Head(ToSelect) = "select" /\ Tail(ToSelect) = ToInstall /\ ToSelect # <<>>
  /\ Head(ToInstall) = "unit" /\ Tail(ToInstall) = ToStart /\ ToInstall # <<>>
  /\ Head(ToStart) = "start" /\ Tail(ToStart) = <<>> /\ ToStart # <<>>
  /\ Head(RollbackSteps) = "stop" /\ Tail(RollbackSteps) = ToKeep /\ RollbackSteps # <<>>
  /\ Head(ToKeep) = "backup" /\ Tail(ToKeep) = ToRestore /\ ToKeep # <<>>
  /\ Head(ToRestore) = "database" /\ Tail(ToRestore) = ToReinstall /\ ToRestore # <<>>
  /\ Head(ToReinstall) = "unit" /\ Tail(ToReinstall) = ToReselect /\ ToReinstall # <<>>
  /\ Head(ToReselect) = "select" /\ Tail(ToReselect) = ToStart /\ ToReselect # <<>>
  /\ Head(BackupSteps) = "backup" /\ Tail(BackupSteps) = <<>> /\ BackupSteps # <<>>
  /\ Head(UninstallSteps) = "disable" /\ Tail(UninstallSteps) = ToRemove /\ UninstallSteps # <<>>
  /\ Head(ToRemove) = "remove" /\ Tail(ToRemove) = <<>> /\ ToRemove # <<>>
BY DEF InstallSteps, ToBootstrap, ToCheck, ToLink, ToFinish, UpgradeSteps, ToStop, ToBackUp,
       ToValidate, ToSelect, ToInstall, ToStart, RollbackSteps, ToKeep, ToRestore, ToReinstall,
       ToReselect, BackupSteps, UninstallSteps, ToRemove

LEMMA DeploymentInitial == DeploymentInit => DeploymentIInv
<1> SUFFICES ASSUME DeploymentInit PROVE DeploymentIInv
  OBVIOUS
<1>1. HostInv
  <2>1. 0 \in 0..MaxReleases /\ 0 \in 0..0
    BY DeploymentAssumption
  <2>2. built = 0 /\ current = 0 /\ unit = 0 /\ database = 0 /\ backups = {}
    BY DEF DeploymentInit, None
  <2>3. enabled \in BOOLEAN /\ running \in BOOLEAN /\ broken \in BOOLEAN
    BY DEF DeploymentInit
  <2> QED BY <2>1, <2>2, <2>3 DEF HostInv
<1>2. FitInv
  BY DEF DeploymentInit, FitInv, None
<1>3. script = [steps |-> <<>>, release |-> None, source |-> NoBackup]
  BY DEF DeploymentInit, NoScript
<1>4. ScriptInv
  BY <1>3 DEF ScriptInv, Doing
<1> QED BY <1>1, <1>2, <1>4 DEF DeploymentIInv

\* A database that was copied to its end is of some release.
LEMMA Torns ==
  ASSUME HostInv
  PROVE  /\ MaxReleases \in Nat /\ built \in Nat /\ Torn \notin 0..built
         /\ \A r \in 0..built : /\ database = Torn => Opened(r) = Torn
                                /\ database # Torn /\ database <= r => Opened(r) = r
                                /\ Opened(r) \in 0..built \/ Opened(r) = Torn
<1>1. MaxReleases \in Nat /\ built \in Nat /\ Torn \notin 0..built
  BY DeploymentAssumption DEF HostInv, Torn
<1>2. ASSUME NEW r \in 0..built
      PROVE  /\ database = Torn => Opened(r) = Torn
             /\ database # Torn /\ database <= r => Opened(r) = r
             /\ Opened(r) \in 0..built \/ Opened(r) = Torn
  <2>1. database = Torn => Opened(r) = Torn
    BY DEF Opened
  <2>2. ASSUME database # Torn
        PROVE  Opened(r) \in 0..built /\ (database <= r => Opened(r) = r)
    <3>1. database \in 0..built /\ Opened(r) = IF database < r THEN r ELSE database
      BY <2>2 DEF HostInv, Opened, Newer
    <3> QED BY <1>1, <3>1
  <2> QED BY <2>1, <2>2
<1> QED BY <1>1, <1>2

LEMMA ScriptEnds == ASSUME script' = NoScript PROVE ScriptInv'
BY DEF NoScript, ScriptInv, Doing

LEMMA Advances ==
  ASSUME ScriptInv, Advance, NEW s, s = Tail(script.steps),
         NEW r, r = script.release, NEW b, b = script.source,
         s # <<>> => Doing(s, r, b)'
  PROVE  ScriptInv'
<1>1. CASE s = <<>>
  BY <1>1, ScriptEnds DEF Advance, Left
<1>2. CASE s # <<>>
  <2>1. script' = [steps |-> s, release |-> r, source |-> b]
    BY <1>2 DEF Advance, Left, ScriptInv
  <2>2. Doing(s, r, b)'
    BY <1>2
  <2> QED BY <2>1, <2>2 DEF ScriptInv, Doing, Installing, Upgrading, RollingBack, Otherwise, MayInstall
<1> QED BY <1>1, <1>2

\* What a script does is known by its next step.
LEMMA Places ==
  ASSUME ScriptInv, NEW step, Taking(step)
  PROVE  /\ script.steps # <<>> /\ Head(script.steps) = step /\ Left = Tail(script.steps)
         /\ \/ /\ script.source = NoBackup
               /\ \/ Installing(script.steps, script.release)
                  \/ Upgrading(script.steps, script.release)
                  \/ Otherwise(script.steps)
            \/ RollingBack(script.steps, script.source)
BY DEF ScriptInv, Taking, Doing, Left

\* What is asked for.
LEMMA Asks ==
  ASSUME DeploymentIInv, NEW steps, NEW b, Ask(steps, b), Doing(steps, None, b)
  PROVE  DeploymentIInv'
<1>1. HostInv' /\ FitInv'
  BY DEF Ask, DeploymentIInv, HostInv, FitInv
<1>2. Doing(steps, None, b)'
  BY DEF Ask, Doing, Installing, Upgrading, RollingBack, Otherwise, MayInstall
<1>3. script' = [steps |-> steps, release |-> None, source |-> b]
  BY DEF Ask
<1>4. ScriptInv'
  BY <1>2, <1>3 DEF ScriptInv, Doing, Installing, Upgrading, RollingBack, Otherwise, MayInstall
<1> QED BY <1>1, <1>4 DEF DeploymentIInv

LEMMA AskedStep == ASSUME DeploymentIInv, Asked PROVE DeploymentIInv'
<1>1. CASE AskInstall
  BY <1>1, Asks DEF AskInstall, Doing, Installing
<1>2. CASE AskUpgrade
  BY <1>2, Asks DEF AskUpgrade, MayUpgrade, Doing, Upgrading
<1>3. CASE AskBackup
  BY <1>3, Asks DEF AskBackup, MayUpgrade, Doing, Otherwise, BackupSteps
<1>4. CASE AskUninstall
  BY <1>4, Asks DEF AskUninstall, Doing, Otherwise, UninstallSteps
<1>5. ASSUME NEW b \in backups, AskRollback(b) PROVE DeploymentIInv'
  BY <1>5, Asks DEF AskRollback, Doing, RollingBack
<1> QED BY <1>1, <1>2, <1>3, <1>4, <1>5 DEF Asked

\* The service is started: a database that fits already is left as it is.
LEMMA ServiceStarts ==
  ASSUME DeploymentIInv, current # None, unit # None, database' = Opened(current),
         running' \in BOOLEAN, enabled' \in BOOLEAN, UNCHANGED <<current, unit, built, backups, broken>>
  PROVE  HostInv' /\ FitInv'
<1>1. current \in 0..built /\ built \in Nat /\ (database \in 0..built \/ database = Torn)
  BY Torns DEF DeploymentIInv, HostInv
<1>2. HostInv'
  BY <1>1, Torns DEF DeploymentIInv, HostInv
<1>3. database = current => database' = current
  BY <1>1, Torns DEF DeploymentIInv
<1>4. FitInv'
  BY <1>3 DEF DeploymentIInv, FitInv
<1> QED BY <1>2, <1>4

LEMMA EnableStep == ASSUME DeploymentIInv, Enable PROVE DeploymentIInv'
<1>1. HostInv' /\ FitInv'
  BY ServiceStarts DEF Enable
<1>2. script' = NoScript
  BY DEF Enable
<1> QED BY <1>1, <1>2, ScriptEnds DEF DeploymentIInv

LEMMA HostStartsStep == ASSUME DeploymentIInv, HostStarts PROVE DeploymentIInv'
<1>1. script' = NoScript /\ UNCHANGED <<current, unit, enabled, built, backups, broken>>
  BY DEF HostStarts
<1>2. enabled \in BOOLEAN /\ running' \in BOOLEAN
  BY DEF DeploymentIInv, HostInv, HostStarts
<1>3. CASE enabled /\ unit # None /\ current # None
  <2>1. database' = Opened(current)
    BY <1>3 DEF HostStarts
  <2> QED BY <1>1, <1>2, <1>3, <2>1, ServiceStarts, ScriptEnds DEF DeploymentIInv
<1>4. CASE ~(enabled /\ unit # None /\ current # None)
  <2>1. running' = FALSE /\ database' = database
    BY <1>4 DEF HostStarts
  <2> QED BY <1>1, <1>2, <2>1, ScriptEnds DEF DeploymentIInv, HostInv, FitInv
<1> QED BY <1>3, <1>4

LEMMA BreaksOffStep == ASSUME DeploymentIInv, BreaksOff PROVE DeploymentIInv'
BY ScriptEnds DEF BreaksOff, DeploymentIInv, HostInv, FitInv

(***************************************************************************)
(* The steps of the scripts.                                               *)
(***************************************************************************)
LEMMA BuildStep == ASSUME DeploymentIInv, Build PROVE DeploymentIInv'
<1>1. PICK s, r, b : s = script.steps /\ r = script.release /\ b = script.source
  OBVIOUS
<1>2. /\ Taking("build") /\ built' = built + 1
      /\ script' = [script EXCEPT !.steps = Left, !.release = built']
      /\ UNCHANGED <<current, database, unit, enabled, running, backups, broken>>
  BY DEF Build
<1>3. /\ Head(s) = "build" /\ Left = Tail(s)
      /\ \/ b = NoBackup /\ (Installing(s, r) \/ Upgrading(s, r) \/ Otherwise(s))
         \/ RollingBack(s, b)
  BY <1>1, <1>2, Places DEF DeploymentIInv
<1>4. /\ b = NoBackup /\ built < MaxReleases
      /\ (s = InstallSteps /\ MayInstall) \/ (s = UpgradeSteps /\ current # None)
  BY <1>3, Suffixes DEF Installing, Upgrading, RollingBack, Otherwise
<1>5. /\ built \in Nat /\ built' \in 0..MaxReleases /\ built' \in 1..built'
      /\ database \in 0..built \/ database = Torn
  BY <1>2, <1>4, Torns DEF DeploymentIInv, HostInv
<1>6. HostInv'
  <2>1. 0..built \subseteq 0..built' /\ 1..built \subseteq 1..built'
    BY <1>2, <1>5
  <2>2. BackupsUpTo(built) \subseteq BackupsUpTo(built')
    BY <2>1 DEF BackupsUpTo
  <2>3. /\ current \in 0..built /\ unit \in 0..built /\ backups \subseteq BackupsUpTo(built)
        /\ enabled \in BOOLEAN /\ running \in BOOLEAN /\ broken \in BOOLEAN
    BY DEF DeploymentIInv, HostInv
  <2>4. backups \subseteq BackupsUpTo(built')
    BY <2>2, <2>3
  <2> QED BY <1>2, <1>5, <2>1, <2>3, <2>4 DEF HostInv, BackupsUpTo
<1>7. FitInv'
  BY <1>2 DEF DeploymentIInv, FitInv
<1>8. PICK n : n = built + 1
  OBVIOUS
<1>9. Doing(Tail(s), n, NoBackup)'
  <2>1. CASE s = InstallSteps /\ MayInstall
    <3>1. Tail(s) = ToBootstrap
      BY <2>1, Suffixes
    <3> QED BY <1>2, <1>5, <1>8, <2>1, <3>1 DEF Doing, Installing, MayInstall
  <2>2. CASE s = UpgradeSteps /\ current # None
    <3>1. Tail(s) = ToStop
      BY <2>2, Suffixes
    <3>2. database = Torn \/ database <= n
      BY <1>5, <1>8
    <3> QED BY <1>2, <1>5, <1>8, <2>2, <3>1, <3>2 DEF Doing, Upgrading
  <2> QED BY <1>4, <2>1, <2>2
<1>10. script' = [steps |-> Tail(s), release |-> n, source |-> NoBackup]
  BY <1>1, <1>2, <1>3, <1>4, <1>8 DEF DeploymentIInv, ScriptInv
<1>11. ScriptInv'
  BY <1>9, <1>10 DEF ScriptInv, Doing, Installing, Upgrading, RollingBack, Otherwise, MayInstall
<1> QED BY <1>6, <1>7, <1>11 DEF DeploymentIInv

LEMMA OpenStep == ASSUME DeploymentIInv, OpenDatabase PROVE DeploymentIInv'
<1>1. PICK s, r, b : s = script.steps /\ r = script.release /\ b = script.source
  OBVIOUS
<1>2. /\ database' = Opened(r) /\ Advance
      /\ UNCHANGED <<current, unit, enabled, running, built, backups, broken>>
  BY <1>1 DEF OpenDatabase
<1>3. /\ Head(s) \in {"bootstrap", "validate"} /\ Left = Tail(s)
      /\ \/ b = NoBackup /\ (Installing(s, r) \/ Upgrading(s, r) \/ Otherwise(s))
         \/ RollingBack(s, b)
  BY <1>1, Places DEF DeploymentIInv, OpenDatabase
<1>4. /\ b = NoBackup /\ r \in 1..built
      /\ \/ s = ToBootstrap /\ MayInstall
         \/ s = ToCheck /\ current = None /\ database = r
         \/ s = ToValidate /\ current # None /\ broken /\ backups # {} /\ database \in 1..r
  BY <1>3, Suffixes DEF Installing, Upgrading, RollingBack, Otherwise
<1>5. database # Torn /\ database <= r
  BY <1>4, Torns DEF MayInstall, None, DeploymentIInv
<1>6. database' = r /\ r # None
  BY <1>2, <1>4, <1>5, Torns DEF DeploymentIInv, None
<1>7. HostInv'
  BY <1>2, <1>4, <1>6 DEF DeploymentIInv, HostInv
<1>8. FitInv'
  BY <1>2, <1>4 DEF DeploymentIInv, FitInv, MayInstall
<1>9. Doing(Tail(s), r, b)'
  <2>1. CASE s = ToValidate
    <3>1. Tail(s) = ToSelect
      BY <2>1, Suffixes
    <3>2. current # None /\ broken /\ backups # {}
      <4>1. s # ToBootstrap /\ s # ToCheck
        BY <2>1, Suffixes
      <4> QED BY <1>4, <4>1
    <3> QED BY <1>2, <1>4, <1>6, <3>1, <3>2 DEF Doing, Upgrading
  <2>2. CASE s \in {ToBootstrap, ToCheck} /\ current = None
    <3>1. Tail(s) \in {ToCheck, ToLink}
      BY <2>2, Suffixes
    <3> QED BY <1>2, <1>4, <1>6, <2>2, <3>1 DEF Doing, Installing
  <2> QED BY <1>4, <2>1, <2>2 DEF MayInstall
<1>10. ScriptInv'
  BY <1>1, <1>2, <1>9, Advances DEF DeploymentIInv
<1> QED BY <1>7, <1>8, <1>10 DEF DeploymentIInv

LEMMA StopStep == ASSUME DeploymentIInv, StopService PROVE DeploymentIInv'
<1>1. PICK s, r, b : s = script.steps /\ r = script.release /\ b = script.source
  OBVIOUS
<1>2. /\ Advance /\ unit # None /\ running' = FALSE /\ broken' = TRUE
      /\ UNCHANGED <<current, database, unit, enabled, built, backups>>
  BY DEF StopService
<1>3. /\ Head(s) = "stop" /\ Left = Tail(s)
      /\ \/ b = NoBackup /\ (Installing(s, r) \/ Upgrading(s, r) \/ Otherwise(s))
         \/ RollingBack(s, b)
  BY <1>1, Places DEF DeploymentIInv, StopService
<1>4. \/ /\ s = ToStop /\ b = NoBackup /\ current # None /\ r \in 1..built
         /\ database = Torn \/ database <= r
      \/ s = RollbackSteps /\ b \in backups
  BY <1>3, Suffixes DEF Installing, Upgrading, RollingBack, Otherwise
<1>5. HostInv'
  BY <1>2 DEF DeploymentIInv, HostInv
<1>6. FitInv'
  BY <1>2 DEF DeploymentIInv, FitInv
<1>7. Doing(Tail(s), r, b)'
  <2>1. CASE s = RollbackSteps /\ b \in backups
    <3>1. Tail(s) = ToKeep
      BY <2>1, Suffixes
    <3> QED BY <1>2, <2>1, <3>1 DEF Doing, RollingBack
  <2>2. CASE /\ s = ToStop /\ b = NoBackup /\ current # None /\ r \in 1..built
             /\ database = Torn \/ database <= r
    <3>1. Tail(s) = ToBackUp
      BY <2>2, Suffixes
    <3> QED BY <1>2, <2>2, <3>1 DEF Doing, Upgrading
  <2> QED BY <1>4, <2>1, <2>2
<1>8. ScriptInv'
  BY <1>1, <1>2, <1>7, Advances DEF DeploymentIInv, StopService
<1> QED BY <1>5, <1>6, <1>8 DEF DeploymentIInv

LEMMA BackUpStep == ASSUME DeploymentIInv, BackUp PROVE DeploymentIInv'
<1>1. PICK s, r, b : s = script.steps /\ r = script.release /\ b = script.source
  OBVIOUS
<1>2. PICK new : new = [release |-> current, database |-> database, unit |-> unit]
  OBVIOUS
<1>3. /\ Advance /\ unit # None /\ database \notin {None, Torn}
      /\ backups' = backups \cup {new}
      /\ UNCHANGED <<current, database, unit, enabled, running, built, broken>>
  BY <1>2 DEF BackUp, Recorded
<1>4. /\ Head(s) = "backup" /\ Left = Tail(s)
      /\ \/ b = NoBackup /\ (Installing(s, r) \/ Upgrading(s, r) \/ Otherwise(s))
         \/ RollingBack(s, b)
  BY <1>1, Places DEF DeploymentIInv, BackUp
<1>5. \/ /\ s = ToBackUp /\ b = NoBackup /\ current # None /\ r \in 1..built /\ broken
         /\ database = Torn \/ database <= r
      \/ s = BackupSteps /\ current # None
      \/ s = ToKeep /\ b \in backups /\ broken
  BY <1>4, Suffixes DEF Installing, Upgrading, RollingBack, Otherwise
<1>6. current # None
  BY <1>3 DEF DeploymentIInv, FitInv
<1>7. /\ built \in Nat /\ current \in 1..built /\ unit \in 1..built /\ database \in 1..built
  BY <1>3, <1>6, Torns DEF DeploymentIInv, HostInv, None
<1>8. HostInv'
  <2>1. new \in BackupsUpTo(built)
    BY <1>2, <1>7 DEF BackupsUpTo
  <2>2. backups' \subseteq BackupsUpTo(built)
    BY <1>3, <2>1 DEF DeploymentIInv, HostInv
  <2> QED BY <1>3, <2>2 DEF DeploymentIInv, HostInv, BackupsUpTo
<1>9. FitInv'
  <2>1. backups = {} => Whole(new)
    BY <1>2, <1>3, <1>6 DEF DeploymentIInv, FitInv, Whole
  <2>2. \E k \in backups' : Whole(k)
    BY <1>3, <2>1 DEF DeploymentIInv, FitInv
  <2> QED BY <1>3, <1>6, <2>2 DEF DeploymentIInv, FitInv
<1>10. Tail(s) # <<>> => Doing(Tail(s), r, b)'
  <2>1. CASE s = ToKeep /\ b \in backups /\ broken
    <3>1. Tail(s) = ToRestore
      BY <2>1, Suffixes
    <3> QED BY <1>3, <2>1, <3>1 DEF Doing, RollingBack
  <2>2. CASE /\ s = ToBackUp /\ b = NoBackup /\ current # None /\ r \in 1..built /\ broken
             /\ database = Torn \/ database <= r
    <3>1. Tail(s) = ToValidate
      BY <2>2, Suffixes
    <3>2. database \in 1..r
      BY <1>3, <1>7, <2>2
    <3> QED BY <1>3, <2>2, <3>1, <3>2 DEF Doing, Upgrading
  <2>3. CASE s = BackupSteps
    BY <2>3, Suffixes
  <2> QED BY <1>5, <2>1, <2>2, <2>3
<1>11. ScriptInv'
  BY <1>1, <1>3, <1>10, Advances DEF DeploymentIInv
<1> QED BY <1>8, <1>9, <1>11 DEF DeploymentIInv

LEMMA RestoreStep == ASSUME DeploymentIInv, RestoreDatabase PROVE DeploymentIInv'
<1>1. PICK s, r, b : s = script.steps /\ r = script.release /\ b = script.source
  OBVIOUS
<1>2. /\ database' \in {b.database, Torn}
      /\ IF database' = Torn THEN script' = NoScript ELSE Advance
      /\ UNCHANGED <<current, unit, enabled, running, built, backups, broken>>
  BY <1>1 DEF RestoreDatabase
<1>3. /\ Head(s) = "database" /\ Left = Tail(s)
      /\ \/ b = NoBackup /\ (Installing(s, r) \/ Upgrading(s, r) \/ Otherwise(s))
         \/ RollingBack(s, b)
  BY <1>1, Places DEF DeploymentIInv, RestoreDatabase
<1>4. s = ToRestore /\ b \in backups /\ broken
  BY <1>3, Suffixes DEF Installing, Upgrading, RollingBack, Otherwise
<1>5. b.database \in 1..built
  BY <1>4 DEF DeploymentIInv, HostInv, BackupsUpTo
<1>6. HostInv'
  BY <1>2, <1>5 DEF DeploymentIInv, HostInv
<1>7. FitInv'
  BY <1>2, <1>4 DEF DeploymentIInv, FitInv
<1>8. ScriptInv'
  <2>1. CASE database' = Torn
    BY <1>2, <2>1, ScriptEnds
  <2>2. CASE database' # Torn
    <3>1. Tail(s) = ToReinstall
      BY <1>4, Suffixes
    <3>2. Doing(Tail(s), r, b)'
      BY <1>2, <1>4, <2>2, <3>1 DEF Doing, RollingBack
    <3> QED BY <1>1, <1>2, <2>2, <3>2, Advances DEF DeploymentIInv
  <2> QED BY <2>1, <2>2
<1> QED BY <1>6, <1>7, <1>8 DEF DeploymentIInv

LEMMA SelectReleaseStep == ASSUME DeploymentIInv, Select PROVE DeploymentIInv'
<1>1. PICK s, r, b : s = script.steps /\ r = script.release /\ b = script.source
  OBVIOUS
<1>2. /\ current' = (IF b = NoBackup THEN r ELSE b.release) /\ Advance
      /\ UNCHANGED <<database, unit, enabled, running, built, backups, broken>>
  BY <1>1 DEF Select, Source
<1>3. /\ Head(s) = "select" /\ Left = Tail(s)
      /\ \/ b = NoBackup /\ (Installing(s, r) \/ Upgrading(s, r) \/ Otherwise(s))
         \/ RollingBack(s, b)
  BY <1>1, Places DEF DeploymentIInv, Select
<1>4. \/ s = ToLink /\ b = NoBackup /\ r \in 1..built /\ current = None /\ database = r
      \/ /\ s = ToSelect /\ b = NoBackup /\ r \in 1..built /\ current # None
         /\ broken /\ backups # {} /\ database = r
      \/ s = ToReselect /\ b \in backups /\ broken /\ database = b.database /\ unit = b.unit
  BY <1>3, Suffixes DEF Installing, Upgrading, RollingBack, Otherwise
<1>5. b \in backups =>
        b \in BackupsUpTo(built) /\ b.release \in 1..built /\ b.release # None /\ b # NoBackup
  BY DEF DeploymentIInv, HostInv, BackupsUpTo, NoBackup, None
<1>6. current' \in 1..built /\ current' # None
  BY <1>2, <1>4, <1>5 DEF None
<1>7. HostInv'
  BY <1>2, <1>6 DEF DeploymentIInv, HostInv
<1>8. FitInv'
  <2>1. CASE s = ToLink /\ b = NoBackup /\ r \in 1..built /\ current = None /\ database = r
    <3>1. unit = None /\ backups = {} /\ ~broken /\ ~running /\ ~enabled
      BY <2>1 DEF DeploymentIInv, FitInv
    <3> QED BY <1>2, <1>6, <2>1, <3>1 DEF FitInv
  <2>2. CASE broken /\ backups # {}
    BY <1>2, <1>6, <2>2 DEF DeploymentIInv, FitInv
  <2> QED BY <1>4, <2>1, <2>2
<1>9. Doing(Tail(s), r, b)'
  <2>1. CASE s = ToLink /\ b = NoBackup /\ r \in 1..built /\ current = None /\ database = r
    <3>1. Tail(s) = ToFinish /\ unit = None
      BY <2>1, Suffixes DEF DeploymentIInv, FitInv
    <3> QED BY <1>2, <2>1, <3>1 DEF Doing, Installing
  <2>2. CASE /\ s = ToSelect /\ b = NoBackup /\ r \in 1..built /\ current # None
             /\ broken /\ backups # {} /\ database = r
    <3>1. Tail(s) = ToInstall
      BY <2>2, Suffixes
    <3> QED BY <1>2, <1>6, <2>2, <3>1 DEF Doing, Upgrading
  <2>3. CASE s = ToReselect /\ b \in backups /\ broken /\ database = b.database /\ unit = b.unit
    <3>1. Tail(s) = ToStart
      BY <2>3, Suffixes
    <3> QED BY <1>2, <1>5, <2>3, <3>1 DEF Doing, RollingBack
  <2> QED BY <1>4, <2>1, <2>2, <2>3
<1>10. ScriptInv'
  BY <1>1, <1>2, <1>9, Advances DEF DeploymentIInv
<1> QED BY <1>7, <1>8, <1>10 DEF DeploymentIInv

LEMMA InstallUnitStep == ASSUME DeploymentIInv, InstallUnit PROVE DeploymentIInv'
<1>1. PICK s, r, b : s = script.steps /\ r = script.release /\ b = script.source
  OBVIOUS
<1>2. /\ unit' = (IF b = NoBackup THEN r ELSE b.unit) /\ Advance
      /\ UNCHANGED <<current, database, enabled, running, built, backups, broken>>
  BY <1>1 DEF InstallUnit
<1>3. /\ Head(s) = "unit" /\ Left = Tail(s)
      /\ \/ b = NoBackup /\ (Installing(s, r) \/ Upgrading(s, r) \/ Otherwise(s))
         \/ RollingBack(s, b)
  BY <1>1, Places DEF DeploymentIInv, InstallUnit
<1>4. \/ s = ToFinish /\ b = NoBackup /\ r \in 1..built /\ current = r /\ database = r
      \/ /\ s = ToInstall /\ b = NoBackup /\ r \in 1..built /\ current = r
         /\ broken /\ backups # {} /\ database = r
      \/ s = ToReinstall /\ b \in backups /\ broken /\ database = b.database
  BY <1>3, Suffixes DEF Installing, Upgrading, RollingBack, Otherwise
<1>5. b \in backups => b.unit \in 1..built /\ b.unit # None /\ b # NoBackup
  BY DEF DeploymentIInv, HostInv, BackupsUpTo, NoBackup, None
<1>6. unit' \in 1..built /\ unit' # None
  BY <1>2, <1>4, <1>5 DEF None
<1>7. HostInv'
  BY <1>2, <1>6 DEF DeploymentIInv, HostInv
<1>8. FitInv'
  <2>1. CASE s = ToFinish /\ b = NoBackup /\ r \in 1..built /\ current = r /\ database = r
    <3>1. unit' = current /\ current # None
      BY <1>2, <2>1 DEF None
    <3> QED BY <1>2, <1>6, <2>1, <3>1 DEF DeploymentIInv, FitInv
  <2>2. CASE broken /\ backups # {}
    BY <1>2, <1>6, <2>2 DEF DeploymentIInv, FitInv
  <2> QED BY <1>4, <2>1, <2>2
<1>9. Tail(s) # <<>> => Doing(Tail(s), r, b)'
  <2>1. CASE s = ToFinish
    BY <2>1, Suffixes
  <2>2. CASE /\ s = ToInstall /\ b = NoBackup /\ r \in 1..built /\ current = r
             /\ broken /\ backups # {} /\ database = r
    <3>1. Tail(s) = ToStart
      BY <2>2, Suffixes
    <3>2. built \in Nat
      BY Torns DEF DeploymentIInv
    <3>3. current # None
      BY <2>2, <3>2 DEF None
    <3> QED BY <1>2, <2>2, <3>1, <3>3 DEF Doing, Upgrading
  <2>3. CASE s = ToReinstall /\ b \in backups /\ broken /\ database = b.database
    <3>1. Tail(s) = ToReselect
      BY <2>3, Suffixes
    <3> QED BY <1>2, <1>5, <2>3, <3>1 DEF Doing, RollingBack
  <2> QED BY <1>4, <2>1, <2>2, <2>3
<1>10. ScriptInv'
  BY <1>1, <1>2, <1>9, Advances DEF DeploymentIInv
<1> QED BY <1>7, <1>8, <1>10 DEF DeploymentIInv

LEMMA StartServiceStep == ASSUME DeploymentIInv, StartService PROVE DeploymentIInv'
<1>1. PICK s, r, b : s = script.steps /\ r = script.release /\ b = script.source
  OBVIOUS
<1>2. /\ running' = TRUE /\ database' = Opened(current) /\ Advance
      /\ broken' = (b # NoBackup /\ ~Whole(b))
      /\ UNCHANGED <<current, unit, enabled, built, backups>>
  BY <1>1 DEF StartService
<1>3. /\ Head(s) = "start" /\ Left = Tail(s)
      /\ \/ b = NoBackup /\ (Installing(s, r) \/ Upgrading(s, r) \/ Otherwise(s))
         \/ RollingBack(s, b)
  BY <1>1, Places DEF DeploymentIInv, StartService
<1>4. /\ s = ToStart
      /\ \/ /\ b = NoBackup /\ r \in 1..built /\ backups # {}
            /\ current = r /\ database = r /\ unit = r
         \/ b \in backups /\ current = b.release /\ database = b.database /\ unit = b.unit
  BY <1>3, Suffixes DEF Installing, Upgrading, RollingBack, Otherwise
<1>5. b \in backups => /\ b.release \in 1..built /\ b.database \in 1..built /\ b.unit \in 1..built
                       /\ b # NoBackup
  BY DEF DeploymentIInv, HostInv, BackupsUpTo, NoBackup, None
<1>6. current \in 1..built /\ unit \in 1..built /\ database \in 1..built /\ backups # {}
  BY <1>4, <1>5
<1>7. current # None /\ unit # None /\ current \in 0..built /\ built \in Nat
  BY <1>6, Torns DEF None, DeploymentIInv
<1>8. database = current => database' = current
  BY <1>2, <1>6, <1>7, Torns DEF DeploymentIInv
<1>9. HostInv'
  <2>1. database' \in 0..built \/ database' = Torn
    BY <1>2, <1>7, Torns DEF DeploymentIInv
  <2>2. broken' \in BOOLEAN
    BY <1>2
  <2> QED BY <1>2, <2>1, <2>2 DEF DeploymentIInv, HostInv
<1>10. FitInv'
  <2>1. ~broken' => database = current /\ unit = current
    BY <1>2, <1>4, <1>5 DEF Whole
  <2> QED BY <1>2, <1>6, <1>7, <1>8, <2>1 DEF DeploymentIInv, FitInv
<1>11. ScriptInv'
  <2>1. Tail(s) = <<>>
    BY <1>4, Suffixes
  <2> QED BY <1>1, <1>2, <2>1, Advances DEF DeploymentIInv
<1> QED BY <1>9, <1>10, <1>11 DEF DeploymentIInv

LEMMA RemovalStep == ASSUME DeploymentIInv, Disable \/ RemoveUnit PROVE DeploymentIInv'
<1>1. PICK s, r, b : s = script.steps /\ r = script.release /\ b = script.source
  OBVIOUS
<1>2. CASE Disable
  <2>1. /\ enabled' = FALSE /\ running' = FALSE /\ Advance
        /\ UNCHANGED <<current, database, unit, built, backups, broken>>
    BY <1>2 DEF Disable
  <2>2. /\ Head(s) = "disable"
        /\ \/ b = NoBackup /\ (Installing(s, r) \/ Upgrading(s, r) \/ Otherwise(s))
         \/ RollingBack(s, b)
    BY <1>1, <1>2, Places DEF DeploymentIInv, Disable
  <2>3. s = UninstallSteps /\ b = NoBackup
    BY <2>2, Suffixes DEF Installing, Upgrading, RollingBack, Otherwise
  <2>4. Doing(Tail(s), r, b)'
    <3>1. Tail(s) = ToRemove
      BY <2>3, Suffixes
    <3> QED BY <2>1, <2>3, <3>1 DEF Doing, Otherwise
  <2>5. ScriptInv'
    BY <1>1, <2>1, <2>4, Advances DEF DeploymentIInv
  <2> QED BY <2>1, <2>5 DEF DeploymentIInv, HostInv, FitInv
<1>3. CASE RemoveUnit
  <2>1. /\ unit' = None /\ Advance
        /\ UNCHANGED <<current, database, enabled, running, built, backups, broken>>
    BY <1>3 DEF RemoveUnit
  <2>2. /\ Head(s) = "remove"
        /\ \/ b = NoBackup /\ (Installing(s, r) \/ Upgrading(s, r) \/ Otherwise(s))
         \/ RollingBack(s, b)
    BY <1>1, <1>3, Places DEF DeploymentIInv, RemoveUnit
  <2>3. s = ToRemove /\ ~running /\ ~enabled
    BY <2>2, Suffixes DEF Installing, Upgrading, RollingBack, Otherwise
  <2>4. Tail(s) = <<>>
    BY <2>3, Suffixes
  <2>5. ScriptInv'
    BY <1>1, <2>1, <2>4, Advances DEF DeploymentIInv
  <2>6. HostInv'
    BY <2>1, Torns DEF DeploymentIInv, HostInv, None
  <2> QED BY <2>1, <2>3, <2>5, <2>6 DEF DeploymentIInv, FitInv
<1> QED BY <1>2, <1>3

LEMMA DeploymentStep == DeploymentIInv /\ [DeploymentNext]_deploymentVars => DeploymentIInv'
<1> SUFFICES ASSUME DeploymentIInv, [DeploymentNext]_deploymentVars PROVE DeploymentIInv'
  OBVIOUS
<1>1. CASE UNCHANGED deploymentVars
  <2>1. HostInv' /\ FitInv'
    BY <1>1 DEF deploymentVars, DeploymentIInv, HostInv, FitInv
  <2>2. ScriptInv'
    BY <1>1 DEF deploymentVars, DeploymentIInv, ScriptInv, Doing, Installing, Upgrading, RollingBack,
                Otherwise, MayInstall
  <2> QED BY <2>1, <2>2 DEF DeploymentIInv
<1> QED BY <1>1, AskedStep, EnableStep, HostStartsStep, BreaksOffStep, BuildStep, OpenStep, StopStep,
           BackUpStep, RestoreStep, SelectReleaseStep, InstallUnitStep, StartServiceStep, RemovalStep
        DEF DeploymentNext, StepTaken

\* The inductive invariant of the host: what is there after every step of a tool or its interruption.
THEOREM DeploymentHolds == DeploymentSpec => []DeploymentIInv
BY DeploymentInitial, DeploymentStep, PTL DEF DeploymentSpec

\* Wherever upgrades and rollbacks are broken off, what runs fits together or a whole backup is
\* there, for any number of releases and backups (deploy/manage.sh).
THEOREM HostIsRecoverable == DeploymentSpec => []Recoverable
<1>1. ASSUME DeploymentIInv PROVE Recoverable
  <2>1. running /\ ~broken => Whole(Host)
    BY <1>1 DEF DeploymentIInv, FitInv, Whole, Host
  <2>2. broken => database = current \/ \E b \in backups : Whole(b)
    BY <1>1 DEF DeploymentIInv, FitInv
  <2> QED BY <2>1, <2>2 DEF Recoverable
<1> QED BY <1>1, DeploymentHolds, PTL

\* The release that a script has built is one of those so far.
ReleaseInv == script.release \in 0..built

LEMMA ReleaseStep ==
  ASSUME DeploymentIInv, ReleaseInv, [DeploymentNext]_deploymentVars PROVE ReleaseInv'
<1>0. built \in Nat /\ script.release \in Nat /\ script.release <= built
  BY Torns DEF DeploymentIInv, ReleaseInv
<1>1. script = [steps |-> script.steps, release |-> script.release, source |-> script.source]
  BY DEF DeploymentIInv, ScriptInv
<1>2. CASE built' = built /\ script'.release \in {None, script.release}
  BY <1>0, <1>2 DEF ReleaseInv, None
<1>3. script' = NoScript => script'.release = None
  BY DEF NoScript
<1>4. Advance => script'.release \in {None, script.release}
  BY <1>1, <1>3 DEF Advance
<1>5. ASSUME NEW steps, NEW source, Ask(steps, source) PROVE ReleaseInv'
  <2>1. built' = built /\ script'.release = None
    BY <1>5 DEF Ask
  <2> QED BY <1>2, <2>1
<1>6. CASE Asked
  BY <1>5, <1>6 DEF Asked, AskInstall, AskUpgrade, AskBackup, AskRollback, AskUninstall
<1>7. CASE Build
  <2>1. built' = built + 1 /\ script' = [script EXCEPT !.steps = Left, !.release = built']
    BY <1>7 DEF Build
  <2>2. script'.release = built'
    BY <1>1, <2>1
  <2> QED BY <1>0, <2>1, <2>2 DEF ReleaseInv
<1>8. CASE OpenDatabase \/ StopService \/ BackUp \/ RestoreDatabase \/ Select \/ InstallUnit
           \/ StartService \/ Disable \/ RemoveUnit
  <2>1. built' = built /\ (Advance \/ script' = NoScript)
    BY <1>8 DEF OpenDatabase, StopService, BackUp, RestoreDatabase, Select, InstallUnit, StartService,
                Disable, RemoveUnit
  <2> QED BY <1>2, <1>3, <1>4, <2>1
<1>9. CASE Enable \/ BreaksOff \/ HostStarts \/ UNCHANGED deploymentVars
  <2>1. built' = built /\ (script' = script \/ script' = NoScript)
    BY <1>9 DEF Enable, BreaksOff, HostStarts, deploymentVars
  <2> QED BY <1>2, <1>3, <2>1
<1> QED BY <1>6, <1>7, <1>8, <1>9 DEF DeploymentNext, StepTaken

LEMMA DeploymentTypes == DeploymentIInv /\ ReleaseInv => DeploymentTypeOK
<1> SUFFICES ASSUME DeploymentIInv, ReleaseInv PROVE DeploymentTypeOK
  OBVIOUS
<1>1. built \in Nat /\ built <= MaxReleases /\ MaxReleases \in Nat /\ built \in 0..MaxReleases
  BY DeploymentAssumption DEF DeploymentIInv, HostInv
<1>2. 0..built \subseteq ReleaseIds \cup {None} /\ 1..built \subseteq ReleaseIds
  BY <1>1 DEF ReleaseIds, None
<1>3. backups \subseteq Backups
  BY <1>2 DEF DeploymentIInv, HostInv, BackupsUpTo, Backups
<1>4. script.source \in Backups \cup {NoBackup}
  BY <1>3 DEF DeploymentIInv, ScriptInv, Doing, RollingBack
<1> QED BY <1>1, <1>2, <1>3, <1>4
        DEF DeploymentIInv, HostInv, ReleaseInv, DeploymentTypeOK, Databases

\* Every variable of the deployment keeps its type, wherever the scripts are broken off.
THEOREM DeploymentTypeCorrect == DeploymentSpec => []DeploymentTypeOK
<1>1. DeploymentInit => ReleaseInv
  BY DEF DeploymentInit, NoScript, ReleaseInv, None
<1>2. DeploymentIInv /\ ReleaseInv /\ [DeploymentNext]_deploymentVars => ReleaseInv'
  BY ReleaseStep
<1> QED BY <1>1, <1>2, DeploymentInitial, DeploymentStep, DeploymentTypes, PTL DEF DeploymentSpec

(***************************************************************************)
(* Throttle                                                                *)
(***************************************************************************)
LEMMA ThrottleConstants ==
  /\ Rate \in Nat \ {0} /\ Price \in Nat \ {0} /\ Capacity \in Nat
  /\ Price <= Capacity
<1>1. PICK least \in Nat \ {0} : least = IF PerMinute < MaxBurst THEN PerMinute ELSE MaxBurst
  BY ThrottleAssumption
<1>2. Rate \in Nat \ {0} /\ Price \in Nat \ {0}
  BY ThrottleAssumption DEF Rate, Price
<1>3. Capacity = least * Price
  BY <1>1 DEF Capacity
<1>4. \A p \in Nat, n \in Nat \ {0} : n * p \in Nat /\ p <= n * p
  OBVIOUS
<1> QED BY <1>1, <1>2, <1>3, <1>4

Levels ==
  /\ tokens \in 0..Capacity
  /\ accrued \in Nat /\ earned \in Nat /\ spent \in Nat /\ pause \in Nat

\* What was admitted in the window and what could be admitted at once never exceed what the
\* full bucket and the window's time are worth.
Covered == spent + Filled <= Capacity + earned

ThrottleIInv == Levels /\ refused \in BOOLEAN /\ Covered

LEMMA RetryAfterNatural == ASSUME NEW t \in Nat, t < Price PROVE RetryAfter(t) \in Nat
<1>1. Rate * StepsPerSecond \in Nat \ {0}
  BY ThrottleConstants, ThrottleAssumption
<1>2. Price - t + Rate * StepsPerSecond - 1 \in Nat
  BY <1>1, ThrottleConstants
<1>3. \A a \in Nat, b \in Nat \ {0} : a \div b \in Nat
  OBVIOUS
<1> QED BY <1>1, <1>2, <1>3 DEF RetryAfter

LEMMA FilledLevel == ASSUME Levels PROVE Filled \in 0..Capacity
BY ThrottleConstants DEF Levels, Filled, Least

LEMMA FilledNext ==
  Filled' = IF Capacity < tokens' + accrued' THEN Capacity ELSE tokens' + accrued'
<1>1. Capacity' = Capacity
  BY DEF Capacity, Price
<1> QED BY <1>1, ThrottleConstants DEF Filled, Least

LEMMA LevelsStep == ASSUME Levels, Covered, ThrottleNext PROVE Levels' /\ Covered'
<1>a. Capacity' = Capacity
  BY DEF Capacity, Price
<1> USE ThrottleConstants, FilledLevel, FilledNext, <1>a
<1>1. CASE ThrottleTick
  <2>1. /\ tokens' = tokens /\ accrued' = accrued + Rate
        /\ earned' = earned + Rate /\ spent' = spent
    BY <1>1 DEF ThrottleTick
  <2>2. pause' \in Nat
    BY <1>1 DEF ThrottleTick, Levels
  <2>3. Filled' = IF Capacity < tokens + (accrued + Rate) THEN Capacity ELSE tokens + (accrued + Rate)
    BY <2>1
  <2>4. Filled = IF Capacity < tokens + accrued THEN Capacity ELSE tokens + accrued
    BY DEF Filled, Least
  <2>5. Filled' <= Filled + Rate /\ Filled' \in 0..Capacity
    <3> HIDE FilledLevel, FilledNext
    <3> QED BY <2>3, <2>4 DEF Levels
  <2> QED BY <2>1, <2>2, <2>5 DEF Levels, Covered
<1>2. CASE Admit
  <2>1. /\ tokens' = Filled - Price /\ accrued' = 0 /\ pause' = 0 /\ Filled >= Price
        /\ earned' = earned /\ spent' = spent + Price
    BY <1>2 DEF Admit
  <2>2. Filled' = Filled - Price
    BY <2>1
  <2> QED BY <2>1, <2>2 DEF Levels, Covered
<1>3. CASE Refuse
  <2>1. /\ tokens' = Filled /\ accrued' = 0 /\ Filled < Price
        /\ earned' = earned /\ spent' = spent
    BY <1>3 DEF Refuse
  <2>2. Filled' = Filled
    BY <2>1
  <2>3. RetryAfter(Filled) * Rate * StepsPerSecond \in Nat
    BY <2>1, RetryAfterNatural, ThrottleAssumption
  <2>4. pause' \in Nat
    BY <1>3, <2>3 DEF Refuse
  <2> QED BY <2>1, <2>2, <2>4 DEF Levels, Covered
<1>4. CASE OpenWindow
  <2>1. /\ tokens' = tokens /\ accrued' = accrued /\ pause' = pause
        /\ earned' = 0 /\ spent' = 0
    BY <1>4 DEF OpenWindow
  <2>2. Filled' = Filled
    BY <2>1 DEF Filled, Least
  <2> QED BY <2>1, <2>2 DEF Levels, Covered
<1> QED BY <1>1, <1>2, <1>3, <1>4 DEF ThrottleNext

LEMMA ThrottleInitial == ThrottleInit => ThrottleIInv
<1> SUFFICES ASSUME ThrottleInit PROVE ThrottleIInv
  OBVIOUS
<1>1. tokens = Capacity /\ accrued = 0 /\ earned = 0 /\ spent = 0 /\ pause = 0
  BY DEF ThrottleInit
<1>2. Levels
  BY <1>1, ThrottleConstants DEF Levels
<1>3. Covered
  BY <1>1, ThrottleConstants DEF Covered, Filled, Least
<1>4. refused \in BOOLEAN
  BY DEF ThrottleInit
<1> QED BY <1>2, <1>3, <1>4 DEF ThrottleIInv

LEMMA ThrottleStep == ThrottleIInv /\ [ThrottleNext]_throttleVars => ThrottleIInv'
<1> SUFFICES ASSUME ThrottleIInv, [ThrottleNext]_throttleVars PROVE ThrottleIInv'
  OBVIOUS
<1>1. refused' \in BOOLEAN
  BY DEF ThrottleIInv, ThrottleNext, ThrottleTick, Admit, Refuse, OpenWindow, throttleVars
<1>2. Levels' /\ Covered'
  <2>1. CASE ThrottleNext
    BY <2>1, LevelsStep DEF ThrottleIInv
  <2>2. CASE UNCHANGED throttleVars
    <3>1. Capacity' = Capacity
      BY DEF Capacity, Price
    <3> QED BY <2>2, <3>1 DEF ThrottleIInv, throttleVars, Levels, Covered, Filled
  <2> QED BY <2>1, <2>2
<1> QED BY <1>1, <1>2 DEF ThrottleIInv

\* The inductive invariant of a bucket: its level covers what every window may still admit.
THEOREM ThrottleHolds == ThrottleSpec => []ThrottleIInv
BY ThrottleInitial, ThrottleStep, PTL DEF ThrottleSpec

\* Every variable of the bucket keeps its type.
THEOREM ThrottleTypeCorrect == ThrottleSpec => []ThrottleTypeOK
<1>1. ThrottleIInv => ThrottleTypeOK
  BY DEF ThrottleIInv, Levels, ThrottleTypeOK
<1> QED BY <1>1, ThrottleHolds, PTL

\* In no window, wherever it begins and however long it is, more is admitted than one burst and
\* what the window earns: for every rate, burst and resolution of the clock (RateLimit).
THEOREM WindowBounded == ThrottleSpec => []WindowBound
<1>1. ThrottleIInv => WindowBound
  BY ThrottleConstants, FilledLevel DEF ThrottleIInv, Levels, Covered, WindowBound
<1> QED BY <1>1, ThrottleHolds, PTL

(***************************************************************************)
(* Retry-After                                                             *)
(***************************************************************************)
\* What is in the bucket, what has been earned and what the pause will still earn are worth
\* the request that was refused.
Promised == refused => tokens + accrued + pause >= Price

LEMMA Rounded == ASSUME NEW a \in Nat, NEW b \in Nat \ {0} PROVE ((a + b - 1) \div b) * b >= a
<1>1. a + b - 1 \in Nat
  OBVIOUS
<1>2. \A n \in Nat : n \div b \in Nat /\ n < (n \div b) * b + b
  OBVIOUS
<1> DEFINE q == (a + b - 1) \div b
<1>3. q \in Nat /\ a + b - 1 < q * b + b
  BY <1>1, <1>2
<1>4. q * b \in Nat
  BY <1>3
<1> QED BY <1>3, <1>4

LEMMA PromisedStep ==
  ASSUME Levels, Promised, ThrottleNext PROVE Promised'
<1>a. Price' = Price
  BY DEF Price
<1> USE ThrottleConstants
<1>1. CASE ThrottleTick
  <2>1. /\ refused' = refused /\ tokens' = tokens /\ accrued' = accrued + Rate
        /\ pause' = IF pause > Rate THEN pause - Rate ELSE 0
    BY <1>1 DEF ThrottleTick
  <2>2. tokens' + accrued' + pause' >= tokens + accrued + pause
    BY <2>1 DEF Levels
  <2> QED BY <2>1, <2>2, <1>a DEF Promised, Levels
<1>2. CASE Admit
  BY <1>2 DEF Admit, Promised
<1>3. CASE Refuse
  <2> DEFINE second == Rate * StepsPerSecond
  <2>1. second \in Nat \ {0}
    BY ThrottleAssumption
  <2>2. Filled \in Nat /\ Filled < Price
    BY <1>3, FilledLevel DEF Refuse
  <2>3. PICK t \in Nat : t = Filled
    BY <2>2
  <2>4. Price - t \in Nat
    BY <2>2, <2>3
  <2>5. RetryAfter(t) * second >= Price - t
    BY <2>1, <2>4, Rounded DEF RetryAfter
  <2>6. RetryAfter(t) \in Nat
    BY <2>2, <2>3, RetryAfterNatural
  <2>7. RetryAfter(t) * second = RetryAfter(t) * Rate * StepsPerSecond
    BY <2>6, ThrottleAssumption
  <2>8. tokens' = t /\ accrued' = 0 /\ pause' = RetryAfter(t) * second
    BY <1>3, <2>3, <2>7 DEF Refuse
  <2>9. tokens' + accrued' + pause' >= Price
    <3>1. \A w \in Nat : w >= Price - t => t + 0 + w >= Price
      BY <2>3
    <3>2. RetryAfter(t) * second \in Nat
      BY <2>1, <2>6
    <3> QED BY <2>5, <2>8, <3>1, <3>2
  <2> QED BY <2>9, <1>a DEF Promised
<1>4. CASE OpenWindow
  BY <1>4, <1>a DEF OpenWindow, Promised
<1> QED BY <1>1, <1>2, <1>3, <1>4 DEF ThrottleNext

\* Retry-After is honest for every rate, burst and resolution of the clock: who was the last to
\* be refused and asks again when it is over is admitted (RateLimit.retry_after).
THEOREM RetryIsHonest == ThrottleSpec => []RetryHonest
<1>1. ThrottleInit => Promised
  BY DEF ThrottleInit, Promised
<1>2. ThrottleIInv /\ Promised /\ [ThrottleNext]_throttleVars => Promised'
  <2>1. CASE ThrottleNext
    BY <2>1, PromisedStep DEF ThrottleIInv
  <2>2. CASE UNCHANGED throttleVars
    BY <2>2 DEF throttleVars, Promised, Price
  <2> QED BY <2>1, <2>2
<1>3. ThrottleIInv /\ Promised => RetryHonest
  BY ThrottleConstants DEF ThrottleIInv, Levels, Promised, RetryHonest, Filled, Least
<1> QED BY <1>1, <1>2, <1>3, ThrottleHolds, PTL DEF ThrottleSpec

(***************************************************************************)
(* All the parts                                                           *)
(***************************************************************************)
\* A step of one part leaves the variables of the others as they are.
LEMMA PartSteps ==
  ASSUME [Next]_partVars
  PROVE  /\ [RegisterNext]_registerVars /\ [BleakNext]_bleakVars /\ [PollingNext]_pollingVars
         /\ [ThrottleNext]_throttleVars /\ [StreamsNext]_streamsVars /\ [LogNext]_logVars
         /\ [DeploymentNext]_deploymentVars
<1> DEFINE Alone == /\ [RegisterNext]_registerVars /\ [BleakNext]_bleakVars /\ [PollingNext]_pollingVars
                    /\ [ThrottleNext]_throttleVars /\ [StreamsNext]_streamsVars /\ [LogNext]_logVars
                    /\ [DeploymentNext]_deploymentVars
<1>1. CASE Only("register", RegisterNext)
  BY <1>1 DEF Only
<1>2. CASE Only("bleak", BleakNext)
  BY <1>2 DEF Only
<1>3. CASE Only("polling", PollingNext)
  BY <1>3 DEF Only
<1>4. CASE Only("throttle", ThrottleNext)
  BY <1>4 DEF Only
<1>5. CASE Only("streams", StreamsNext)
  BY <1>5 DEF Only
<1>6. CASE Only("log", LogNext)
  BY <1>6 DEF Only
<1>7. CASE Only("deployment", DeploymentNext)
  BY <1>7 DEF Only
<1>8. CASE UNCHANGED partVars
  BY <1>8 DEF partVars
<1> QED BY <1>1, <1>2, <1>3, <1>4, <1>5, <1>6, <1>7, <1>8 DEF Next

\* A behaviour in which one part moves is one of each part: what holds of the parts alone holds
\* of all of them in the instance that is checked.
THEOREM PartsAlone ==
  PartsSpec => /\ RegisterSpec /\ BleakSpec /\ PollingSpec /\ ThrottleSpec /\ LogSpec /\ DeploymentSpec
               /\ StreamsInit /\ [][StreamsNext]_streamsVars
<1>1. Init => /\ RegisterInit /\ BleakInit /\ PollingInit /\ ThrottleInit /\ StreamsInit /\ LogInit
              /\ DeploymentInit
  BY DEF Init
<1>2. [Next]_partVars =>
        /\ [RegisterNext]_registerVars /\ [BleakNext]_bleakVars /\ [PollingNext]_pollingVars
        /\ [ThrottleNext]_throttleVars /\ [StreamsNext]_streamsVars /\ [LogNext]_logVars
        /\ [DeploymentNext]_deploymentVars
  BY PartSteps
<1> QED BY <1>1, <1>2, PTL
        DEF PartsSpec, RegisterSpec, BleakSpec, PollingSpec, ThrottleSpec, LogSpec, DeploymentSpec

\* Every variable of every part keeps its type.
THEOREM PartsTypeCorrect == PartsSpec => []PartsTypeOK
<1>1. LogIInv => LogTypeOK
  BY DEF LogIInv
<1>2. RegisterTypeOK /\ BleakTypeOK /\ PollingTypeOK /\ ThrottleTypeOK /\ StreamsTypeOK /\ LogTypeOK
        /\ DeploymentTypeOK => PartsTypeOK
  BY DEF PartsTypeOK
<1> QED BY <1>1, <1>2, PartsAlone, RegisterTypeCorrect, BleakTypeCorrect, PollingTypeCorrect,
           ThrottleTypeCorrect, StreamsTypeCorrect, LogHolds, DeploymentTypeCorrect, PTL

\* What a behaviour of the composition promises: everything that the run of all parts checks, but
\* that streams end.
THEOREM PartsAreRight ==
  PartsSpec => /\ [](OneRowEach /\ DialsOwn /\ TruthTold /\ WindowBound /\ NothingSwallowed)
               /\ [](NoLinkForgotten /\ GivesUp /\ Recoverable)
               /\ LinkImplemented /\ FlapsBackOff
BY NothingIsSwallowed, PartsAlone, NoneRegisteredTwice, DialsOnlyOwn, WatchersAreToldTheTruth, WindowBounded,
   StreamsHold, NoLinkIsForgotten, GivingUpHolds, HostIsRecoverable, AdapterImplementsLink,
   BackingOffHolds, PTL
=============================================================================
