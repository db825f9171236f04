-------------------------- MODULE AdministrationOwner --------------------------
(*****************************************************************************)
(* Who works for which device: what is left once the service has stopped,    *)
(* that a disconnect is alone, that only the owner's device is worked for,   *)
(* that what is reported of a device is so, and that a device that should    *)
(* be connected is looked after.                                             *)
(*                                                                           *)
(* The later theorems are about a service that is asked for less: nothing is *)
(* deleted, only the owner is disconnected, and so on.  Each says for what.  *)
(*****************************************************************************)
EXTENDS AdministrationLock

(***************************************************************************)
(* Kinds of tasks and where each of them may be                            *)
(***************************************************************************)
Alternating == {"disconnect", "reconnect", "recover", "delete"}   \* take the link down first

RoleOK(t, place) ==
  /\ t[1] = "connect" =>
       place \notin {"boot", "check", "sleep", "teardown", "lockOff", "off", "bluez", "lock",
                     "erase"}
  /\ t[1] = "reconnect" => place \notin {"boot", "check", "sleep", "lock", "erase"}
  /\ t[1] = "recover" => place \notin {"queued", "stopRec", "lock", "erase"}
  /\ t[1] = "disconnect" =>
       place \in {"idle", "queued", "stopRec", "begin", "teardown", "lockOff", "off"}
  /\ t[1] = "delete" =>
       place \in {"idle", "stopRec", "begin", "teardown", "lockOff", "off", "erase"}
  /\ t[1] = "poll" => place \in {"idle", "sleep", "lock", "read"}
  /\ t \in {Loop, Scan} => place \in {"idle", "queued", "lock", "discover"}

Roles == \A t \in Task : RoleOK(t, pc[t])

LEMMA TaskKinds ==
  /\ \A t \in Task :
       /\ t \in {Loop, Scan}
          \/ (t[1] \in {"connect", "disconnect", "reconnect", "recover", "poll", "delete"}
              /\ t[2] \in Devices /\ t = <<t[1], t[2]>>)
       /\ t \in Requested <=> t[1] \in {"connect", "disconnect", "reconnect"}
       /\ t[1] = "recover" => t = Recover(t[2])
       /\ t[1] = "poll" => t = Poll(t[2])
       /\ t[1] = "delete" => t = Deletion(t[2])
       /\ t[1] = "disconnect" => t = <<"disconnect", t[2]>>
  /\ \A d : /\ Recover(d)[1] = "recover" /\ Recover(d)[2] = d
            /\ Poll(d)[1] = "poll" /\ Poll(d)[2] = d
            /\ Deletion(d)[1] = "delete" /\ Deletion(d)[2] = d
            /\ <<"disconnect", d>>[1] = "disconnect" /\ <<"disconnect", d>>[2] = d
  /\ Loop[1] = "loop" /\ Scan[1] = "scan"
BY DEF Task, Requested, Recover, Poll, Deletion, Loop, Scan

(***************************************************************************)
(* What a task's step does: to the places of the tasks, to the rows and to *)
(* the owner and the link.                                                 *)
(***************************************************************************)
Moved(t, place) == \A u \in Task : pc'[u] = IF u = t THEN place ELSE pc[u]
MovedBoth(t, place, v, other) ==
  \A u \in Task : pc'[u] = IF u = t THEN place ELSE IF u = v THEN other ELSE pc[u]

\* Whoever waits for the device's recovery to end goes on only when it has.
Waited(t) == t \in Requested /\ pc[t] = "stopRec" => pc[Recover(t[2])] # "unwind"

\* The task goes on.
Works(t, place) ==
  /\ place \in Places \ {"idle", "queued", "stopRec", "unwind"}
  /\ Moved(t, place)
  /\ pc[t] # "unwind"
  /\ t \in Requested /\ place = "begin" => ~Recovering(t[2]) /\ running' = {t}
  /\ t \in Requested /\ place \in {"teardown", "lockOff", "off"} => pc[t] \in {"teardown", "lockOff"}
  /\ place = "off" => link' = NoDevice
  /\ link' \in {link, NoDevice} \/ (link' = t[2] /\ t[1] \in Connecting /\ pc[t] = "linking")
  /\ UNCHANGED <<registered, owner, desired>>
  /\ t[1] # "delete" => UNCHANGED connected
  /\ \A d \in Devices : \/ observed'[d] = observed[d]
                        \/ d = t[2] /\ (t[1] = "poll" \/ observed'[d] = "backoff")
  /\ place \in {"boot", "check"} => t[2] \notin registered \/ observed'[t[2]] = "backoff"

\* A requested operation cancels the recovery and waits for its end.
Cancels(t) ==
  /\ t \in Requested /\ pc[t] = "queued" /\ Recovering(t[2])
  /\ \E place \in {"idle", "unwind"} : MovedBoth(t, "stopRec", Recover(t[2]), place)
  /\ UNCHANGED <<rows, owner, connected, link>>

\* The task takes polling down.
Takes(t) ==
  /\ t[1] \in Alternating /\ pc[t] \in {"begin", "stopRec", "sleep"}
  /\ MovedBoth(t, "teardown", Poll(t[2]), "idle")
  /\ UNCHANGED <<rows, owner, connected, link>>

\* The first reading ends a connection operation and begins polling.
Reads(t) ==
  /\ t[1] \in Connecting /\ pc[t] = "read"
  /\ MovedBoth(t, "idle", Poll(t[2]), "sleep")
  /\ connected' = t[2]
  /\ desired' = Written(desired, t[2], "connected")
  /\ observed' = Written(observed, t[2], "polling")
  /\ UNCHANGED <<registered, owner, link>>

\* The task fails and has the device recovered.
GivesUp(t) ==
  /\ t[1] \in {"connect", "reconnect", "poll"} /\ pc[t] # "unwind"
  /\ Wanted(t[2]) /\ pc[Recover(t[2])] = "idle"
  /\ MovedBoth(t, "idle", Recover(t[2]), "check")
  /\ observed' = Written(observed, t[2], "backoff")
  /\ UNCHANGED <<registered, desired, owner, connected, link>>

\* The task ends, for one of these reasons: it fails and the device is not to be recovered, or is
\* already; it has disconnected the device, or had nothing to disconnect; it has erased the
\* device; or there is nothing left to do.
Fails(t) ==
  /\ t[1] \in {"connect", "reconnect", "poll"}
  /\ ~Wanted(t[2]) \/ Recovering(t[2])
  /\ observed' = Written(observed, t[2], "backoff")
  /\ UNCHANGED <<registered, desired, owner, connected>>
Disconnects(t) ==
  /\ t[1] = "disconnect" /\ pc[t] \in {"teardown", "off"}
  /\ desired' = Written(desired, t[2], "disconnected")
  /\ observed' = Written(observed, t[2], "disconnected")
  /\ UNCHANGED registered
  /\ IF pc[t] = "teardown" THEN UNCHANGED <<owner, connected>>
                           ELSE owner' = NoDevice /\ connected' = NoDevice
Erases(t) ==
  /\ t[1] = "delete"
  /\ registered' = registered \ {t[2]}
  /\ UNCHANGED <<desired, observed, connected>>
Rests(t) ==
  /\ UNCHANGED <<registered, desired, owner, connected>>
  /\ \/ t[1] = "poll" /\ connected # t[2]
        /\ \A d \in Devices : d # t[2] => observed'[d] = observed[d]
     \/ UNCHANGED observed
        /\ \/ t \in {Loop, Scan} \/ pc[t] = "unwind" \/ t[1] = "connect"
           \/ t \in Requested /\ t[2] \notin registered
           \/ t[1] = "recover" /\ pc[t] \in {"boot", "check"} /\ ~Wanted(t[2])
Stops(t) ==
  /\ Moved(t, "idle") /\ UNCHANGED link
  /\ Fails(t) \/ Disconnects(t) \/ Erases(t) \/ Rests(t)

Effect(t) ==
  /\ Alive(t) /\ Runs(t) /\ Waited(t) /\ UNCHANGED <<auto, phase>>
  /\ \/ \E place \in Places : Works(t, place) /\ RoleOK(t, place)
     \/ Cancels(t) \/ Takes(t) \/ Reads(t) \/ GivesUp(t) \/ Stops(t)

LEMMA MovesTo ==
  ASSUME TypeOK, NEW t \in Task, NEW place, pc' = [pc EXCEPT ![t] = place]
  PROVE  Moved(t, place)
BY DEF TypeOK, Moved

LEMMA WrittenBackoff ==
  ASSUME TypeOK, NEW d
  PROVE  /\ \A e \in Devices : \/ Written(observed, d, "backoff")[e] = observed[e]
                               \/ e = d /\ Written(observed, d, "backoff")[e] = "backoff"
         /\ d \in registered => Written(observed, d, "backoff")[d] = "backoff"
BY DEF TypeOK, Written

\* What the end of a failed task does, whether or not the device is to be recovered.
LEMMA GivingUp ==
  ASSUME TypeOK, LockOrder, NEW t \in Task, t[1] \in {"connect", "reconnect", "poll"},
         pc[t] \in Contending, ahead[t] = {}, pc[t] # "unwind",
         pc' = Scheduled([pc EXCEPT ![t] = "idle"], t[2]),
         observed' = Written(observed, t[2], "backoff"),
         UNCHANGED <<registered, desired, owner, connected, link>>
  PROVE  GivesUp(t) \/ Stops(t)
<1>1. t[2] \in Devices /\ Recover(t[2]) \in Task /\ Recover(t[2]) # t
  BY TaskKinds, TaskNames DEF Loop, Scan
<1>2. CASE Wanted(t[2]) /\ ~Recovering(t[2])
  <2>1. pc[Recover(t[2])] = "idle"
    BY <1>1, <1>2, NotUnwinding DEF Recovering
  <2>2. pc' = [[pc EXCEPT ![t] = "idle"] EXCEPT ![Recover(t[2])] = "check"]
    BY <1>2 DEF Scheduled
  <2>3. MovedBoth(t, "idle", Recover(t[2]), "check")
    BY <1>1, <2>2 DEF MovedBoth, TypeOK
  <2> QED BY <1>2, <2>1, <2>3 DEF GivesUp
<1>3. CASE ~Wanted(t[2]) \/ Recovering(t[2])
  <2>1. pc' = [pc EXCEPT ![t] = "idle"]
    BY <1>3 DEF Scheduled
  <2> QED BY <1>3, <2>1, MovesTo DEF Stops, Fails
<1> QED BY <1>2, <1>3

LEMMA FailEffect ==
  ASSUME TypeOK, LockOrder, Roles, NEW t \in Task, t[1] \in Connecting, pc[t] \in Holding,
         pc[t] # "unwind", Alive(t), Runs(t), Fail(t),
         UNCHANGED <<registered, auto, desired, owner, connected, link, phase>>
  PROVE  Effect(t)
<1>1. pc[t] \in Contending /\ ahead[t] = {} /\ Waited(t)
  BY DEF LockOrder, Contending, Holding, Waited
<1>2. observed' = Written(observed, t[2], "backoff")
  BY DEF Fail
<1>3. CASE t[1] = "recover"
  <2>1. Moved(t, "check") /\ t \notin Requested
    BY <1>3, MovesTo, TaskKinds DEF Fail, Proceed, Goto
  <2>2. Works(t, "check")
    BY <1>2, <1>3, <2>1, WrittenBackoff DEF Works, Places
  <2>3. RoleOK(t, "check")
    BY <1>3 DEF RoleOK, Loop, Scan
  <2>4. "check" \in Places
    BY DEF Places
  <2> QED BY <1>1, <2>2, <2>3, <2>4 DEF Effect
<1>4. CASE t[1] # "recover"
  <2>1. GivesUp(t) \/ Stops(t)
    BY <1>1, <1>2, <1>4, GivingUp DEF Fail, Connecting
  <2> QED BY <1>1, <2>1 DEF Effect
<1> QED BY <1>3, <1>4

\* A task goes on from one place to another that changes neither rows nor the owner.
LEMMA WorkEffect ==
  ASSUME TypeOK, NEW t \in Task, Alive(t), Runs(t), pc[t] # "unwind", Waited(t),
         NEW place \in Places \ {"idle", "queued", "stopRec", "unwind", "begin", "boot", "check"},
         pc' = [pc EXCEPT ![t] = place], RoleOK(t, place),
         place \in {"teardown", "lockOff", "off"} => pc[t] \in {"teardown", "lockOff"},
         place = "off" => link' = NoDevice,
         link' \in {link, NoDevice} \/ (link' = t[2] /\ t[1] \in Connecting /\ pc[t] = "linking"),
         UNCHANGED <<rows, owner, connected, phase>>
  PROVE  Effect(t)
<1>1. Moved(t, place)
  BY MovesTo
<1>2. Works(t, place)
  BY <1>1 DEF Works, rows
<1> QED BY <1>2 DEF Effect, rows

LEMMA TaskEffect ==
  ASSUME LockInv, Roles, NEW t \in Task, TaskStep(t)
  PROVE  Effect(t)
<1>0. TypeOK /\ LockOrder /\ RoleOK(t, pc[t]) /\ Alive(t) /\ UNCHANGED phase
  BY TaskStepAlive DEF LockInv, Roles
<1>a. {"lockOn", "lockOff", "off", "bluez", "dial", "discover", "release", "rediscover", "linking",
       "cleanup", "read"} \subseteq Places \ {"idle", "queued", "stopRec", "unwind", "begin", "boot", "check"}
  BY DEF Places, Contending, Waiting, Holding
<1>b. pc[t] # "stopRec" => Waited(t)
  BY DEF Waited
<1>c. {"idle", "begin", "teardown"} \subseteq Places
  BY DEF Places
<1>k. t \in {Loop, Scan} \/ t[1] \in {"connect", "disconnect", "reconnect", "recover", "poll", "delete"}
  BY TaskKinds
<1> USE DEF Goto, Pause, Proceed, Stage, Acquire
<1>1. CASE Start(t)
  <2>1. t \in Requested /\ pc[t] = "queued" /\ Runs(t) /\ UNCHANGED <<rows, mem>>
    BY <1>1 DEF Start
  <2>2. t[2] \in Devices /\ t # Recover(t[2]) /\ t[1] \in {"connect", "disconnect", "reconnect"}
    BY <2>1, TaskKinds DEF Loop, Scan, Requested
  <2>3. CASE t[2] \notin registered
    <3>1. Moved(t, "idle")
      BY <1>0, <1>1, <2>3, MovesTo DEF Start
    <3>2. Stops(t)
      BY <2>1, <2>3, <3>1 DEF Stops, Rests, rows, mem
    <3> QED BY <1>0, <1>b, <2>1, <3>2 DEF Effect, rows
  <2>4. CASE StopRecovery(t) /\ Recovering(t[2])
    <3> DEFINE r == Recover(t[2])
    <3>1. pc' = [CancelledPc({r}) EXCEPT ![t] = "stopRec"]
      BY <2>4 DEF StopRecovery
    <3>2. CancelledPc({r})[r] \in {"idle", "unwind"} /\ \A u \in Task : u # r => CancelledPc({r})[u] = pc[u]
      BY <2>2, TaskNames DEF CancelledPc
    <3>3. MovedBoth(t, "stopRec", r, CancelledPc({r})[r])
      BY <1>0, <2>2, <3>1, <3>2, CancelledType DEF MovedBoth
    <3>4. Cancels(t)
      BY <2>1, <2>4, <3>2, <3>3 DEF Cancels, mem
    <3> QED BY <1>0, <1>b, <2>1, <3>4 DEF Effect, rows
  <2>5. CASE StopRecovery(t) /\ ~Recovering(t[2])
    <3>1. pc' = [pc EXCEPT ![t] = "begin"] /\ running' = {t}
      BY <2>5 DEF StopRecovery
    <3>2. Moved(t, "begin")
      BY <1>0, <3>1, MovesTo
    <3>3. Works(t, "begin")
      BY <1>c, <2>1, <2>5, <3>1, <3>2 DEF Works, rows, mem
    <3>4. RoleOK(t, "begin")
      BY <2>2 DEF RoleOK, Loop, Scan
    <3> QED BY <1>0, <1>b, <1>c, <2>1, <3>3, <3>4 DEF Effect, rows
  <2> QED BY <1>1, <2>3, <2>4, <2>5 DEF Start
<1>2. CASE Prepare(t)
  <2>1. t \in Requested /\ pc[t] \in {"begin", "stopRec"} /\ Runs(t) /\ Waited(t) /\ UNCHANGED <<rows, mem>>
    BY <1>2 DEF Prepare, Stopped, Waited
  <2>2. t[2] \in Devices /\ t # Recover(t[2]) /\ t[1] \in {"connect", "disconnect", "reconnect"}
    BY <2>1, TaskKinds DEF Loop, Scan, Requested
  <2>3. CASE t[1] # "connect" /\ StopPolling(t)
    <3>1. MovedBoth(t, "teardown", Poll(t[2]), "idle")
      BY <1>0, <2>2, <2>3 DEF StopPolling, MovedBoth, TypeOK, Poll
    <3>2. Takes(t)
      BY <2>1, <2>2, <2>3, <3>1 DEF Takes, Alternating, mem
    <3> QED BY <1>0, <2>1, <3>2 DEF Effect, rows
  <2>4. CASE t[1] = "connect" /\ pc' = [pc EXCEPT ![t] = "idle"]
    <3>1. Stops(t)
      BY <1>0, <2>1, <2>4, MovesTo DEF Stops, Rests, rows, mem
    <3> QED BY <1>0, <2>1, <3>1 DEF Effect, rows
  <2>5. CASE t[1] = "connect" /\ pc' = [pc EXCEPT ![t] = "lockOn"]
    <3>1. RoleOK(t, "lockOn")
      BY <2>5 DEF RoleOK, Loop, Scan
    <3> QED BY <1>0, <1>a, <2>1, <2>5, <3>1, WorkEffect DEF mem
  <2> QED BY <1>2, <2>3, <2>4, <2>5 DEF Prepare
<1>3. CASE TakeAdapter(t)
  <2>1. pc[t] = "teardown" /\ Runs(t) /\ Waited(t) /\ UNCHANGED <<registered, auto, mem>>
    BY <1>3, <1>b DEF TakeAdapter
  <2>2. CASE t[1] = "disconnect" /\ Disconnected(t)
    <3>1. Stops(t)
      BY <1>0, <2>1, <2>2, MovesTo DEF Stops, Disconnects, Disconnected, mem
    <3> QED BY <1>0, <2>1, <3>1 DEF Effect
  <2>3. CASE Acquire(t, "lockOff") /\ UNCHANGED <<desired, observed>>
    <3>1. RoleOK(t, "lockOff")
      BY <1>0, <2>1 DEF RoleOK
    <3> QED BY <1>0, <1>a, <2>1, <2>3, <3>1, WorkEffect DEF mem, rows
  <2> QED BY <1>3, <2>2, <2>3 DEF TakeAdapter
<1>4. CASE SwitchOff(t)
  <2>1. RoleOK(t, "off")
    BY <1>0, <1>4 DEF SwitchOff, RoleOK
  <2> QED BY <1>0, <1>a, <1>b, <1>4, <2>1, WorkEffect DEF SwitchOff
<1>5. CASE BeginRelease(t)
  <2>1. RoleOK(t, "bluez")
    BY <1>5 DEF BeginRelease, RoleOK, Loop, Scan
  <2> QED BY <1>0, <1>a, <1>b, <1>5, <2>1, WorkEffect DEF BeginRelease, mem
<1>6. CASE EndRelease(t)
  <2>1. t[1] \in {"reconnect", "recover"} /\ pc[t] = "bluez"
    BY <1>0, <1>6, <1>k DEF EndRelease, RoleOK
  <2>2. CASE Acquire(t, "lockOn") /\ UNCHANGED observed
    <3>1. RoleOK(t, "lockOn")
      BY <2>1 DEF RoleOK, Loop, Scan
    <3> QED BY <1>0, <1>a, <1>b, <1>6, <2>1, <2>2, <3>1, WorkEffect DEF EndRelease, mem, rows
  <2>3. CASE Fail(t)
    BY <1>0, <1>6, <2>1, <2>3, FailEffect DEF EndRelease, mem, Connecting, Holding
  <2> QED BY <1>6, <2>2, <2>3 DEF EndRelease
<1>7. CASE Resolve(t)
  <2>1. PICK place \in {"dial", "discover"} : pc' = [pc EXCEPT ![t] = place]
    BY <1>7 DEF Resolve
  <2>2. RoleOK(t, place)
    BY <1>0, <1>7, <2>1 DEF Resolve, RoleOK
  <2> QED BY <1>0, <1>a, <1>b, <1>7, <2>1, <2>2, WorkEffect DEF Resolve, mem
<1>8. CASE Unhide(t)
  <2>1. RoleOK(t, "rediscover")
    BY <1>0, <1>8 DEF Unhide, RoleOK
  <2> QED BY <1>0, <1>a, <1>b, <1>8, <2>1, WorkEffect DEF Unhide
<1>9. CASE CallFails(t)
  BY <1>0, <1>9, FailEffect DEF CallFails, mem, Holding
<1>10. CASE Dial(t)
  <2>1. PICK place \in {"read", "linking"} : pc' = [pc EXCEPT ![t] = place]
    BY <1>10 DEF Dial
  <2>2. RoleOK(t, place)
    BY <1>0, <1>10, <2>1 DEF Dial, RoleOK
  <2> QED BY <1>0, <1>a, <1>b, <1>10, <2>1, <2>2, WorkEffect DEF Dial, mem
<1>11. CASE Connect(t)
  <2>1. t[1] \in Connecting
    BY <1>0, <1>11, <1>k DEF Connect, RoleOK, Connecting
  <2>2. RoleOK(t, "read")
    BY <2>1 DEF RoleOK, Connecting, Loop, Scan
  <2> QED BY <1>0, <1>a, <1>b, <1>11, <2>1, <2>2, WorkEffect DEF Connect
<1>12. CASE CleanUp(t)
  <2>1. RoleOK(t, "cleanup")
    BY <1>0, <1>12 DEF CleanUp, RoleOK
  <2> QED BY <1>0, <1>a, <1>b, <1>12, <2>1, WorkEffect DEF CleanUp, mem
<1>13. CASE Unwound(t)
  <2>1. Stops(t)
    BY <1>0, <1>13, MovesTo DEF Unwound, Stops, Rests, rows, mem
  <2> QED BY <1>0, <1>b, <1>13, <2>1 DEF Effect, Unwound, rows
<1>14. CASE FirstRead(t)
  <2>1. MovedBoth(t, "idle", Poll(t[2]), "sleep")
    BY <1>0, <1>14, TaskKinds DEF FirstRead, MovedBoth, TypeOK, Connecting, Poll
  <2>2. Reads(t)
    BY <1>14, <2>1 DEF FirstRead, Reads
  <2> QED BY <1>0, <1>b, <1>14, <2>2 DEF Effect, FirstRead
<1>15. CASE ScanBegin(t)
  <2>1. RoleOK(t, "discover")
    BY <1>15 DEF ScanBegin, RoleOK, Loop, Scan
  <2> QED BY <1>0, <1>a, <1>b, <1>15, <2>1, WorkEffect DEF ScanBegin, mem
<1>16. ASSUME NEW S \in SUBSET Devices, Discovered(t, S) PROVE Effect(t)
  <2>1. /\ t[1] \in Connecting /\ pc[t] \in {"discover", "rediscover"} /\ Runs(t)
        /\ UNCHANGED <<registered, auto, desired, owner, connected, link>>
    BY <1>16 DEF Discovered
  <2>2. CASE Fail(t)
    BY <1>0, <2>1, <2>2, FailEffect DEF Holding
  <2>3. ASSUME NEW place \in {"dial", "release"}, pc' = [pc EXCEPT ![t] = place], UNCHANGED observed
        PROVE  Effect(t)
    <3>1. RoleOK(t, place)
      BY <2>1, <2>3 DEF RoleOK, Connecting, Loop, Scan
    <3> QED BY <1>0, <1>a, <1>b, <2>1, <2>3, <3>1, WorkEffect DEF rows
  <2> QED BY <1>16, <2>2, <2>3 DEF Discovered
<1>17. ASSUME NEW S \in SUBSET Devices, NEW ok \in BOOLEAN, ScanEnd(t, S, ok) PROVE Effect(t)
  <2>1. Stops(t)
    BY <1>0, <1>17, MovesTo DEF ScanEnd, Stops, Rests, rows
  <2> QED BY <1>0, <1>b, <1>17, <2>1 DEF Effect, ScanEnd, rows
<1> QED
  BY <1>1, <1>2, <1>3, <1>4, <1>5, <1>6, <1>7, <1>8, <1>9, <1>10, <1>11, <1>12, <1>13, <1>14, <1>15,
     <1>16, <1>17 DEF TaskStep

LEMMA DeviceEffect ==
  ASSUME LockInv, Roles, NEW d \in Devices, DeviceStep(d)
  PROVE  \E t \in Task : Effect(t)
<1>0. TypeOK /\ LockOrder
  BY DEF LockInv
<1>a. {"lockOn", "lockOff", "off", "bluez", "dial", "discover", "release", "rediscover", "linking",
       "cleanup", "read", "lock", "sleep", "erase"}
         \subseteq Places \ {"idle", "queued", "stopRec", "unwind", "begin", "boot", "check"}
  BY DEF Places, Contending, Waiting, Holding
<1>b. {"idle", "begin", "teardown", "check"} \subseteq Places
  BY DEF Places
<1>c. /\ Recover(d) \in Task /\ Poll(d) \in Task /\ Deletion(d) \in Task /\ <<"disconnect", d>> \in Task
      /\ Recover(d) \notin Requested /\ Poll(d) \notin Requested /\ Deletion(d) \notin Requested
  BY TaskNames, TaskKinds
<1>d. \A t \in Task : t \notin Requested \/ pc[t] # "stopRec" => Waited(t)
  BY DEF Waited
<1>e. /\ Recover(d) \notin {Loop, Scan} /\ Poll(d) \notin {Loop, Scan} /\ Deletion(d) \notin {Loop, Scan}
      /\ Recover(d) # Poll(d) /\ Deletion(d) # Poll(d)
  BY DEF Recover, Poll, Deletion, Loop, Scan
<1> USE DEF Goto, Pause, Proceed, Stage, Acquire, Alive
<1>1. CASE FinishDisconnect(d)
  <2> DEFINE t == <<"disconnect", d>>
  <2>1. Stops(t)
    BY <1>0, <1>1, <1>c, MovesTo DEF FinishDisconnect, Disconnected, Stops, Disconnects
  <2> QED BY <1>1, <1>c, <1>d, <2>1 DEF FinishDisconnect, Effect
<1>2. CASE RecoverCheck(d)
  <2> DEFINE t == Recover(d)
  <2>1. pc[t] \in {"boot", "check"} /\ Runs(t) /\ UNCHANGED <<rows, mem, phase>>
    BY <1>2 DEF RecoverCheck
  <2>2. CASE ~Wanted(d) /\ pc' = [pc EXCEPT ![t] = "idle"]
    <3>1. t[1] = "recover" /\ t[2] = d
      BY TaskKinds
    <3>2. Rests(t)
      BY <2>1, <2>2, <3>1 DEF Rests, rows, mem
    <3>3. Moved(t, "idle")
      BY <1>0, <1>c, <2>2, MovesTo
    <3>4. Stops(t)
      BY <2>1, <3>2, <3>3 DEF Stops, mem
    <3> QED BY <1>c, <1>d, <2>1, <3>4 DEF Effect, rows
  <2>3. CASE pc' = [pc EXCEPT ![t] = "begin"]
    <3>1. Moved(t, "begin")
      BY <1>0, <1>c, <2>3, MovesTo
    <3>2. Works(t, "begin")
      BY <1>b, <1>c, <2>1, <3>1 DEF Works, rows, mem
    <3>3. RoleOK(t, "begin")
      BY <1>e, TaskKinds DEF RoleOK
    <3> QED BY <1>b, <1>c, <1>d, <2>1, <3>2, <3>3 DEF Effect, rows
  <2>4. CASE pc' = [pc EXCEPT ![t] = "sleep"]
    <3>1. RoleOK(t, "sleep")
      BY <1>e, TaskKinds DEF RoleOK
    <3>2. Effect(t)
      BY <1>0, <1>a, <1>c, <1>d, <2>1, <2>4, <3>1, WorkEffect DEF mem
    <3> QED BY <1>c, <3>2
  <2> QED BY <1>2, <2>2, <2>3, <2>4 DEF RecoverCheck
<1>3. CASE RecoverRun(d)
  <2> DEFINE t == Recover(d)
  <2>1. pc[t] \in {"begin", "sleep"} /\ Runs(t) /\ UNCHANGED <<rows, mem, phase>> /\ t[2] = d
    BY <1>3, TaskKinds DEF RecoverRun
  <2>2. CASE d \in registered
    <3>1. MovedBoth(t, "teardown", Poll(t[2]), "idle")
      BY <1>0, <1>3, <1>c, <1>e, <2>1, <2>2 DEF RecoverRun, StopPolling, MovedBoth, TypeOK
    <3>2. Takes(t)
      BY <2>1, <3>1, TaskKinds DEF Takes, Alternating, mem
    <3> QED BY <1>c, <1>d, <2>1, <3>2 DEF Effect, rows
  <2>3. CASE d \notin registered
    <3>1. Moved(t, "check")
      BY <1>0, <1>3, <1>c, <2>3, MovesTo DEF RecoverRun
    <3>2. Works(t, "check")
      BY <1>b, <1>c, <2>1, <2>3, <3>1 DEF Works, rows, mem
    <3>3. RoleOK(t, "check")
      BY <1>e, TaskKinds DEF RoleOK
    <3> QED BY <1>b, <1>c, <1>d, <2>1, <3>2, <3>3 DEF Effect, rows
  <2> QED BY <2>2, <2>3
<1>4. CASE PollWake(d)
  <2> DEFINE t == Poll(d)
  <2>1. pc[t] = "sleep" /\ Runs(t) /\ UNCHANGED <<rows, mem, phase>> /\ t[2] = d
    BY <1>4, TaskKinds DEF PollWake
  <2>2. CASE connected = d
    <3>1. RoleOK(t, "lock")
      BY <1>e, TaskKinds DEF RoleOK
    <3>2. Effect(t)
      BY <1>0, <1>4, <1>a, <1>c, <1>d, <2>1, <2>2, <3>1, WorkEffect DEF PollWake, mem
    <3> QED BY <1>c, <3>2
  <2>3. CASE connected # d
    <3>1. Stops(t)
      BY <1>0, <1>4, <1>c, <2>1, <2>3, MovesTo, TaskKinds DEF PollWake, Stops, Rests, rows, mem
    <3> QED BY <1>c, <1>d, <2>1, <3>1 DEF Effect, rows
  <2> QED BY <2>2, <2>3
<1>5. CASE PollRead(d)
  <2> DEFINE t == Poll(d)
  <2>1. RoleOK(t, "read")
    BY <1>e, TaskKinds DEF RoleOK
  <2>2. Effect(t)
    BY <1>0, <1>5, <1>a, <1>c, <1>d, <2>1, WorkEffect DEF PollRead, mem
  <2> QED BY <1>c, <2>2
<1>6. ASSUME NEW valid \in BOOLEAN, NEW overdue \in BOOLEAN, PollDone(d, valid, overdue)
      PROVE  \E t \in Task : Effect(t)
  <2> DEFINE t == Poll(d)
  <2>1. /\ pc[t] \in {"read", "lock"} /\ Runs(t) /\ t[1] = "poll" /\ t[2] = d
        /\ UNCHANGED <<registered, auto, desired, mem, phase>>
    BY <1>6, TaskKinds DEF PollDone
  <2>2. pc[t] \in Contending /\ ahead[t] = {}
    <3>1. pc[t] = "read" \/ (pc[t] = "lock" /\ ahead[t] = {})
      BY <1>6 DEF PollDone
    <3> QED BY <1>0, <1>c, <3>1 DEF LockOrder, Contending, Waiting, Holding
  <2> DEFINE lost == link = NoDevice \/ (~valid /\ overdue)
  <2>3. /\ \E o : observed' = Written(observed, d, o)
        /\ lost => observed' = Written(observed, d, "backoff")
        /\ pc' = IF lost THEN Scheduled([pc EXCEPT ![t] = "idle"], d)
                 ELSE [pc EXCEPT ![t] = IF connected = d THEN "sleep" ELSE "idle"]
        /\ UNCHANGED link
    <3>1. PICK o \in (IF lost THEN {"backoff"} ELSE IF valid THEN {"polling"}
                      ELSE {observed[d], "degraded"}) : observed' = Written(observed, d, o)
      BY <1>6 DEF PollDone
    <3>2. pc' = IF lost THEN Scheduled([pc EXCEPT ![t] = "idle"], d)
                ELSE [pc EXCEPT ![t] = IF connected = d THEN "sleep" ELSE "idle"]
      BY <1>6 DEF PollDone
    <3> QED BY <2>1, <3>1, <3>2 DEF mem
  <2> HIDE DEF lost
  <2>4. \A e \in Devices : e # d => observed'[e] = observed[e]
    BY <1>0, <2>3 DEF Written, TypeOK
  <2>5. CASE lost
    <3>1. GivesUp(t) \/ Stops(t)
      BY <1>0, <1>c, <2>1, <2>2, <2>3, <2>5, GivingUp DEF mem
    <3> QED BY <1>c, <1>d, <2>1, <3>1 DEF Effect
  <2>6. CASE ~lost /\ connected = d
    <3>1. Moved(t, "sleep")
      BY <1>0, <1>c, <2>3, <2>6, MovesTo
    <3>2. Works(t, "sleep")
      BY <1>a, <1>c, <2>1, <2>4, <3>1 DEF Works, mem
    <3>3. RoleOK(t, "sleep")
      BY <1>e, <2>1 DEF RoleOK
    <3> QED BY <1>a, <1>c, <1>d, <2>1, <3>2, <3>3 DEF Effect
  <2>7. CASE ~lost /\ connected # d
    <3>1. Moved(t, "idle")
      BY <1>0, <1>c, <2>3, <2>7, MovesTo
    <3>2. Stops(t)
      BY <2>1, <2>4, <2>7, <3>1 DEF Stops, Rests, mem
    <3> QED BY <1>c, <1>d, <2>1, <3>2 DEF Effect
  <2> QED BY <2>5, <2>6, <2>7
<1>7. CASE DeleteBegin(d)
  <2> DEFINE t == Deletion(d)
  <2>1. pc[t] \in {"begin", "stopRec"} /\ Runs(t) /\ UNCHANGED <<rows, mem, phase>> /\ t[2] = d
    BY <1>7, TaskKinds DEF DeleteBegin, Stopped
  <2>2. CASE connected = d
    <3>1. MovedBoth(t, "teardown", Poll(t[2]), "idle")
      BY <1>0, <1>7, <1>c, <1>e, <2>1, <2>2 DEF DeleteBegin, StopPolling, MovedBoth, TypeOK
    <3>2. Takes(t)
      BY <2>1, <3>1, TaskKinds DEF Takes, Alternating, mem
    <3> QED BY <1>c, <1>d, <2>1, <3>2 DEF Effect, rows
  <2>3. CASE connected # d
    <3>1. RoleOK(t, "erase")
      BY <1>e, TaskKinds DEF RoleOK
    <3>2. Effect(t)
      BY <1>0, <1>7, <1>a, <1>c, <1>d, <2>1, <2>3, <3>1, WorkEffect DEF DeleteBegin, mem
    <3> QED BY <1>c, <3>2
  <2> QED BY <2>2, <2>3
<1>8. CASE DeleteRelease(d)
  <2> DEFINE t == Deletion(d)
  <2>1. pc[t] = "off" /\ Runs(t) /\ UNCHANGED <<rows, owner, link, phase>> /\ t[1] = "delete"
    BY <1>8, TaskKinds DEF DeleteRelease
  <2>2. Moved(t, "erase")
    BY <1>0, <1>8, <1>c, MovesTo DEF DeleteRelease
  <2>3. Works(t, "erase")
    BY <1>a, <1>c, <2>1, <2>2 DEF Works, rows
  <2>4. RoleOK(t, "erase")
    BY <1>e, <2>1 DEF RoleOK
  <2> QED BY <1>a, <1>c, <1>d, <2>1, <2>3, <2>4 DEF Effect, rows
<1>9. CASE DeleteErase(d)
  <2> DEFINE t == Deletion(d)
  <2>1. /\ pc[t] = "erase" /\ Runs(t) /\ t[1] = "delete" /\ t[2] = d
        /\ registered' = registered \ {d} /\ UNCHANGED <<auto, desired, observed, connected, link, phase>>
    BY <1>9, TaskKinds DEF DeleteErase
  <2>2. Moved(t, "idle")
    BY <1>0, <1>9, <1>c, MovesTo DEF DeleteErase
  <2>3. Stops(t)
    BY <2>1, <2>2 DEF Stops, Erases
  <2> QED BY <1>c, <1>d, <2>1, <2>3 DEF Effect
<1> QED BY <1>1, <1>2, <1>3, <1>4, <1>5, <1>6, <1>7, <1>8, <1>9 DEF DeviceStep

LEMMA ScanRunEffect ==
  ASSUME LockInv, Roles, ScanRun
  PROVE  Effect(Scan)
<1>1. Scan \in Task /\ Scan \in {Loop, Scan} /\ TypeOK /\ pc[Scan] = "queued" /\ "lock" \in Places
  BY TaskNames DEF LockInv, ScanRun, Stage, Places, Contending, Waiting
<1>2. RoleOK(Scan, "lock")
  BY DEF RoleOK, Scan
<1> QED BY <1>1, <1>2, WorkEffect DEF ScanRun, Stage, Acquire, Waited, Alive, mem

(***************************************************************************)
(* Every step is a task's, or one of these                                 *)
(***************************************************************************)
Outside == StartScan \/ LoopWake \/ LinkLost \/ Restart \/ Crash \/ Close \/ CloseStep

LEMMA StepCases ==
  ASSUME LockInv, Roles, [Next]_vars
  PROVE  \/ \E t \in Task : Effect(t)
         \/ \E d \in Devices : Request(d)
         \/ Outside
         \/ UNCHANGED vars
BY TaskEffect, DeviceEffect, ScanRunEffect, Kinds DEF Next, Outside

\* Where cancellation leaves the tasks.
LEMMA CancelPlaces ==
  ASSUME TypeOK, NEW T, CancelAll(T)
  PROVE  \A u \in Task : pc'[u] = IF u \notin T THEN pc[u]
                                  ELSE IF pc[u] \in Undoing THEN "unwind" ELSE "idle"
BY DEF CancelAll, CancelledPc, Ends

\* Who is moved by a task's step, and by a request.
LEMMA EffectPlaces ==
  ASSUME NEW t \in Task, Effect(t)
  PROVE  \A u \in Task : \/ pc'[u] = pc[u]
                         \/ u = t
                         \/ u = Poll(t[2]) /\ pc'[u] = "idle"
                         \/ u = Poll(t[2]) /\ Reads(t) /\ pc'[u] = "sleep"
                         \/ u = Recover(t[2]) /\ Cancels(t) /\ pc'[u] \in {"idle", "unwind"}
                         \/ u = Recover(t[2]) /\ GivesUp(t) /\ pc'[u] = "check"
BY DEF Effect, Works, Cancels, Takes, Reads, GivesUp, Stops, Moved, MovedBoth

LEMMA CommandPlaces ==
  ASSUME TypeOK, NEW d \in Devices, NEW a \in Commands[d], Command(d, a)
  PROVE  /\ Moved(<<a, d>>, "queued") /\ <<a, d>> \in Requested
         /\ <<a, d>>[1] = a /\ <<a, d>>[2] = d
BY CommandNames, TaskNames, MovesTo DEF Command, Goto

LEMMA DeletePlaces ==
  ASSUME TypeOK, NEW d \in Devices, Delete(d)
  PROVE  \E place \in {"stopRec", "begin"}, q \in {pc[Recover(d)], "idle", "unwind"} :
           MovedBoth(Deletion(d), place, Recover(d), q)
<1>1. /\ Deletion(d) \in Task /\ Recover(d) \in Task /\ Deletion(d) # Recover(d)
      /\ Deletion(d)[2] = d
  BY TaskNames DEF Deletion, Recover
<1>2. CASE Recovering(d)
  <2> DEFINE r == Recover(d)
  <2>1. pc' = [CancelledPc({r}) EXCEPT ![Deletion(d)] = "stopRec"]
    BY <1>1, <1>2 DEF Delete, StopRecovery
  <2>2. CancelledPc({r})[r] \in {"idle", "unwind"} /\ \A u \in Task : u # r => CancelledPc({r})[u] = pc[u]
    BY <1>1 DEF CancelledPc
  <2>3. MovedBoth(Deletion(d), "stopRec", r, CancelledPc({r})[r])
    BY <1>1, <2>1, <2>2, CancelledType DEF MovedBoth
  <2> QED BY <2>2, <2>3
<1>3. CASE ~Recovering(d)
  <2>1. pc' = [pc EXCEPT ![Deletion(d)] = "begin"]
    BY <1>1, <1>3 DEF Delete, StopRecovery, Proceed, Goto
  <2>2. MovedBoth(Deletion(d), "begin", Recover(d), pc[Recover(d)])
    BY <1>1, <2>1 DEF MovedBoth, TypeOK
  <2> QED BY <2>2
<1> QED BY <1>2, <1>3

(***************************************************************************)
(* What holds whatever is asked: each task stays where its kind may be,    *)
(* close leaves fewer and fewer of them, and a device has one operation.   *)
(***************************************************************************)
Closed ==
  /\ phase # "up" => pc[Loop] = "idle" /\ \A d \in Devices : pc[Deletion(d)] = "idle"
  /\ phase \notin {"up", "closing"} => \A t \in Requested : pc[t] \in {"idle", "unwind"}
  /\ phase \in {"recoveries", "polls", "stopped"} =>
       /\ \A t \in Requested : pc[t] = "idle"
       /\ \A d \in Devices : pc[Recover(d)] \in {"idle", "unwind"}
  /\ phase \in {"polls", "stopped"} =>
       \A d \in Devices : pc[Recover(d)] = "idle" /\ pc[Poll(d)] = "idle"
  /\ phase = "stopped" => link = NoDevice /\ \A j \in Job : op[j] = "done"

OneRequest == \A t, u \in Requested : Alive(t) /\ Alive(u) /\ t[2] = u[2] => t = u

PlainInv == Roles /\ Closed /\ OneRequest

LEMMA RolesStep == ASSUME LockInv, Roles, [Next]_vars PROVE Roles'
<1>0. TypeOK
  BY DEF LockInv
<1>a. \A u \in Task : /\ RoleOK(u, pc[u]) /\ RoleOK(u, "idle")
                      /\ pc[u] \in Undoing => RoleOK(u, "unwind")
  BY TaskKinds DEF Roles, RoleOK, Undoing
<1> SUFFICES ASSUME NEW u \in Task, pc'[u] # pc[u] PROVE RoleOK(u, pc'[u])
  BY <1>a DEF Roles
<1>1. ASSUME NEW t \in Task, Effect(t) PROVE RoleOK(u, pc'[u])
  <2>1. CASE u = t
    <3>1. CASE \E place \in Places : Works(t, place) /\ RoleOK(t, place)
      BY <2>1, <3>1 DEF Works, Moved
    <3>2. CASE Cancels(t)
      <4>1. pc'[t] = "stopRec" /\ t[1] \in {"connect", "disconnect", "reconnect"}
        BY <3>2, TaskKinds DEF Cancels, MovedBoth
      <4> QED BY <2>1, <4>1 DEF RoleOK, Loop, Scan
    <3>3. CASE Takes(t)
      <4>1. pc'[t] = "teardown" /\ t[1] \in Alternating
        BY <3>3 DEF Takes, MovedBoth
      <4> QED BY <2>1, <4>1 DEF RoleOK, Loop, Scan, Alternating
    <3>4. CASE Reads(t) \/ GivesUp(t) \/ Stops(t)
      BY <1>a, <2>1, <3>4 DEF Reads, GivesUp, Stops, Moved, MovedBoth
    <3> QED BY <1>1, <3>1, <3>2, <3>3, <3>4 DEF Effect
  <2>2. CASE u # t
    <3>1. u = Poll(t[2]) => RoleOK(u, "sleep")
      BY TaskKinds DEF RoleOK, Loop, Scan, Poll
    <3>2. u = Recover(t[2]) => RoleOK(u, "check") /\ RoleOK(u, "unwind")
      BY TaskKinds DEF RoleOK, Loop, Scan, Recover
    <3> QED BY <1>1, <1>a, <2>2, <3>1, <3>2, EffectPlaces
  <2> QED BY <2>1, <2>2
<1>2. ASSUME NEW d \in Devices, Request(d) PROVE RoleOK(u, pc'[u])
  <2>1. ASSUME NEW a \in Commands[d], Command(d, a) PROVE RoleOK(u, pc'[u])
    <3>1. Moved(<<a, d>>, "queued") /\ <<a, d>> \in Requested
      BY <1>0, <2>1, CommandPlaces
    <3>2. u = <<a, d>> /\ pc'[u] = "queued" /\ u \in Requested
      BY <3>1 DEF Moved
    <3>3. u[1] \in {"connect", "disconnect", "reconnect"}
      BY <3>2, TaskKinds
    <3> QED BY <3>2, <3>3 DEF RoleOK, Loop, Scan
  <2>2. CASE Delete(d)
    <3>1. \/ u[1] = "delete" /\ pc'[u] \in {"stopRec", "begin"}
          \/ u[1] = "recover" /\ pc'[u] \in {"idle", "unwind"}
      BY <1>0, <2>2, DeletePlaces, TaskKinds DEF MovedBoth
    <3> QED BY <3>1 DEF RoleOK, Loop, Scan
  <2> QED BY <1>2, <2>1, <2>2 DEF Request, Register, Patch
<1>3. CASE StartScan \/ LoopWake
  <2>1. u \in {Loop, Scan} /\ pc'[u] \in {"queued", "lock"}
    BY <1>0, <1>3 DEF StartScan, LoopWake, Goto, Acquire, TypeOK
  <2> QED BY <2>1 DEF RoleOK, Loop, Scan
<1>4. CASE Restart
  <2>1. u[1] = "recover" /\ pc'[u] = "boot"
    BY <1>0, <1>4, TaskKinds DEF Restart, Goto, TypeOK
  <2> QED BY <2>1 DEF RoleOK, Loop, Scan
<1>5. CASE Crash
  BY <1>a, <1>5 DEF Crash
<1>6. ASSUME NEW T, CancelAll(T) PROVE RoleOK(u, pc'[u])
  BY <1>0, <1>a, <1>6, CancelPlaces
<1>7. CASE UNCHANGED pc
  BY <1>7
<1>8. CASE Close \/ CloseStep
  BY <1>6, <1>7, <1>8 DEF Close, CloseStep, CloseOperations, CloseRecoveries, ClosePolls, CloseAdapter
<1> QED BY <1>1, <1>2, <1>3, <1>4, <1>5, <1>7, <1>8, StepCases DEF Outside, LinkLost, vars

LEMMA ClosedStep == ASSUME LockInv, PlainInv, [Next]_vars PROVE Closed'
<1>0. TypeOK /\ Roles /\ Closed /\ DownIdle /\ ScanTracked /\ Roles'
  BY RolesStep DEF LockInv, PlainInv
<1>a. \A d \in Devices : /\ Recover(d) \in Task /\ Poll(d) \in Task /\ Deletion(d) \in Task
                         /\ Recover(d) \notin Requested /\ Poll(d) \notin Requested
                         /\ Deletion(d) \notin Requested
  BY TaskNames, TaskKinds
<1>b. Loop \in Task /\ Loop \notin Requested /\ Requested \subseteq Task /\ Scan \in Task
  BY TaskNames, TaskKinds
<1>c. Phases = {"down", "up", "closing", "operations", "recoveries", "polls", "stopped"}
  BY DEF Phases
<1>1. ASSUME NEW t \in Task, Effect(t) PROVE Closed'
  <2>1. phase' = phase /\ pc[t] # "idle"
    BY <1>1 DEF Effect, Alive
  <2>2. \A u \in Task : u[1] \notin {"poll", "recover"} => pc'[u] = pc[u] \/ u = t
    BY <1>1, EffectPlaces, TaskKinds
  <2>3. phase # "up" => pc'[Loop] = "idle" /\ \A d \in Devices : pc'[Deletion(d)] = "idle"
    BY <1>0, <1>a, <1>b, <2>1, <2>2, TaskKinds DEF Closed
  <2>4. ASSUME phase \notin {"up", "closing"}, NEW u \in Requested PROVE pc'[u] \in {"idle", "unwind"}
    <3>1. u \in Task /\ u[1] \notin {"poll", "recover"} /\ pc[u] \in {"idle", "unwind"}
      BY <1>0, <1>b, <2>4, TaskKinds DEF Closed
    <3>2. CASE u = t
      <4>1. pc[t] = "unwind"
        BY <2>1, <3>1, <3>2
      <4>2. Stops(t)
        BY <1>1, <4>1 DEF Effect, Works, Cancels, Takes, Reads, GivesUp
      <4> QED BY <3>2, <4>2 DEF Stops, Moved
    <3> QED BY <2>2, <3>1, <3>2
  <2>5. ASSUME phase \in {"recoveries", "polls", "stopped"}
        PROVE  /\ t \notin Requested
               /\ \A u \in Requested : pc'[u] = "idle"
               /\ \A d \in Devices : pc'[Recover(d)] = pc[Recover(d)] \/ pc'[Recover(d)] = "idle"
               /\ ~Reads(t)
    <3>1. t \notin Requested /\ \A u \in Requested : pc[u] = "idle"
      BY <2>1, <2>5 DEF Closed, PlainInv
    <3>2. \A u \in Requested : pc'[u] = "idle"
      BY <1>b, <2>2, <3>1, TaskKinds
    <3>3. ~Cancels(t) /\ ~GivesUp(t)
      BY <2>5, <3>1 DEF Cancels, GivesUp, Wanted
    <3>4. t[1] = "recover" => pc[t] = "unwind"
      BY <1>0, <2>1, <2>5, TaskKinds DEF Closed
    <3>5. ~Reads(t)
      BY <3>1, <3>4, TaskKinds DEF Reads, Connecting
    <3>6. t[1] = "recover" => Stops(t)
      BY <1>1, <3>4 DEF Effect, Works, Cancels, Takes, Reads, GivesUp
    <3>7. t[1] = "recover" => pc'[t] = "idle"
      BY <3>6 DEF Stops, Moved
    <3>8. \A d \in Devices : Recover(d)[1] = "recover" /\ Recover(d) # Poll(t[2])
      BY TaskKinds DEF Recover, Poll
    <3>9. \A d \in Devices : pc'[Recover(d)] = pc[Recover(d)] \/ Recover(d) = t
      BY <1>1, <1>a, <3>3, <3>8, EffectPlaces
    <3> QED BY <3>1, <3>2, <3>5, <3>7, <3>8, <3>9
  <2>6. ASSUME phase \in {"polls", "stopped"}, NEW d \in Devices
        PROVE  pc'[Recover(d)] = "idle" /\ pc'[Poll(d)] = "idle"
    <3>1. pc[Recover(d)] = "idle" /\ pc[Poll(d)] = "idle"
      BY <1>0, <2>6 DEF Closed
    <3>2. pc'[Recover(d)] = "idle"
      BY <2>5, <2>6, <3>1
    <3>3. Poll(d) # Recover(t[2]) /\ Poll(d) # t
      BY <2>1, <3>1 DEF Poll, Recover
    <3>4. ~Reads(t)
      BY <2>5, <2>6
    <3> QED BY <1>1, <1>a, <3>1, <3>2, <3>3, <3>4, EffectPlaces
  <2>7. phase # "stopped"
    <3> SUFFICES ASSUME phase = "stopped" PROVE FALSE
      OBVIOUS
    <3>1. pc[Loop] = "idle" /\ pc[Scan] = "idle" /\ t \notin Requested
      BY <1>0, <2>5 DEF Closed, ScanTracked
    <3>2. \A d \in Devices : pc[Recover(d)] = "idle" /\ pc[Poll(d)] = "idle" /\ pc[Deletion(d)] = "idle"
      BY <1>0 DEF Closed
    <3>3. t[1] \in {"recover", "poll", "delete"} /\ t[2] \in Devices
      BY <2>1, <3>1, TaskKinds
    <3> QED BY <2>1, <3>2, <3>3, TaskKinds
  <2> QED BY <2>1, <2>3, <2>4, <2>5, <2>6, <2>7, <1>0 DEF Closed
<1>2. ASSUME phase' = "up" PROVE Closed'
  BY <1>2 DEF Closed
<1>3. CASE \E d \in Devices : Request(d)
  <2>1. phase' = "up"
    BY <1>3 DEF Request, Register, Command, Patch, Delete, Serving
  <2> QED BY <1>2, <2>1
<1>4. CASE StartScan \/ LoopWake \/ Restart
  <2>1. phase' = "up"
    BY <1>4 DEF StartScan, Serving, LoopWake, Restart
  <2> QED BY <1>2, <2>1
<1>5. CASE LinkLost
  BY <1>0, <1>5 DEF LinkLost, Closed
<1>6. CASE Crash
  BY <1>6, <1>a, <1>b DEF Crash, Closed
<1>7. ASSUME NEW T, CancelAll(T)
      PROVE  /\ \A u \in Task : pc'[u] = pc[u] \/ (pc'[u] \in {"idle", "unwind"})
             /\ \A u \in Task : u \in T => pc'[u] \in {"idle", "unwind"}
             /\ \A u \in Task : pc[u] = "idle" => pc'[u] = "idle"
             /\ \A u \in Task : u \notin T => pc'[u] = pc[u]
  BY <1>0, <1>7, CancelPlaces DEF Undoing
<1>8. CASE Close
  <2>1. /\ phase = "up" /\ phase' = "closing" /\ CancelAll({Loop})
        /\ \A d \in Devices : pc[Deletion(d)] = "idle"
    BY <1>8 DEF Close, Alive
  <2>2. pc'[Loop] = "idle"
    <3>1. pc'[Loop] \in {"idle", "unwind"} /\ RoleOK(Loop, pc'[Loop])
      BY <1>0, <1>7, <1>b, <2>1 DEF Roles
    <3> QED BY <3>1 DEF RoleOK
  <2> QED BY <1>7, <1>a, <2>1, <2>2 DEF Closed
<1>9. CASE CloseOperations
  <2>1. phase = "closing" /\ phase' = "operations" /\ CancelAll(Requested \cup {Scan})
    BY <1>9 DEF CloseOperations
  <2>2. \A u \in Requested : pc'[u] \in {"idle", "unwind"}
    BY <1>7, <1>b, <2>1
  <2>3. pc'[Loop] = "idle" /\ \A d \in Devices : pc'[Deletion(d)] = "idle"
    BY <1>0, <1>7, <1>a, <1>b, <2>1 DEF Closed
  <2> QED BY <2>1, <2>2, <2>3 DEF Closed
<1>10. CASE CloseRecoveries
  <2> DEFINE T == {Recover(d) : d \in Devices}
  <2>1. phase = "operations" /\ phase' = "recoveries" /\ CancelAll(T) /\ \A d \in Devices : ~Busy(d)
    BY <1>10 DEF CloseRecoveries
  <2>2. \A u \in Requested : pc[u] = "idle"
    BY <2>1, TaskKinds DEF Busy, Alive, Requested
  <2>3. \A d \in Devices : Recover(d) \in T
    OBVIOUS
  <2> HIDE DEF T
  <2>4. \A u \in Requested : pc'[u] = "idle"
    BY <1>7, <1>b, <2>1, <2>2
  <2>5. \A d \in Devices : pc'[Recover(d)] \in {"idle", "unwind"}
    BY <1>7, <1>a, <2>1, <2>3
  <2>6. pc'[Loop] = "idle" /\ \A d \in Devices : pc'[Deletion(d)] = "idle"
    BY <1>0, <1>7, <1>a, <1>b, <2>1 DEF Closed
  <2> QED BY <2>1, <2>4, <2>5, <2>6 DEF Closed
<1>11. CASE ClosePolls
  <2> DEFINE T == {Poll(d) : d \in Devices}
  <2>1. /\ phase = "recoveries" /\ phase' = "polls" /\ CancelAll(T)
        /\ \A d \in Devices : pc[Recover(d)] # "unwind"
    BY <1>11 DEF ClosePolls
  <2>2. \A d \in Devices : Poll(d) \in T /\ pc[Recover(d)] = "idle"
    BY <1>0, <2>1 DEF Closed
  <2> HIDE DEF T
  <2>3. \A u \in Requested : pc'[u] = "idle"
    BY <1>0, <1>7, <1>b, <2>1 DEF Closed
  <2>4. \A d \in Devices : pc'[Recover(d)] = "idle"
    BY <1>7, <1>a, <2>1, <2>2
  <2>5. \A d \in Devices : pc'[Poll(d)] = "idle"
    <3> TAKE d \in Devices
    <3>1. pc'[Poll(d)] \in {"idle", "unwind"} /\ RoleOK(Poll(d), pc'[Poll(d)])
      BY <1>0, <1>7, <1>a, <2>1, <2>2 DEF Roles
    <3> QED BY <3>1, TaskKinds DEF RoleOK
  <2>6. pc'[Loop] = "idle" /\ \A d \in Devices : pc'[Deletion(d)] = "idle"
    BY <1>0, <1>7, <1>a, <1>b, <2>1 DEF Closed
  <2> QED BY <2>1, <2>3, <2>4, <2>5, <2>6 DEF Closed
<1>12. CASE CloseAdapter
  BY <1>0, <1>12 DEF CloseAdapter, Closed, Interrupted
<1>13. CASE UNCHANGED vars
  BY <1>0, <1>13 DEF vars, Closed, mem
<1> QED
  BY <1>0, <1>1, <1>3, <1>4, <1>5, <1>6, <1>8, <1>9, <1>10, <1>11, <1>12, <1>13, StepCases
     DEF Outside, CloseStep

\* Only a request starts a requested operation, and only on a device that has none.
LEMMA RequestedStep ==
  ASSUME LockInv, PlainInv, [Next]_vars
  PROVE  \/ \A u \in Requested : pc[u] = "idle" => pc'[u] = "idle"
         \/ \E d \in Devices : \E a \in Commands[d] : Command(d, a)
<1>0. TypeOK /\ Roles
  BY DEF LockInv, PlainInv
<1> SUFFICES ASSUME NEW u \in Requested, pc[u] = "idle", pc'[u] # "idle"
             PROVE  \E d \in Devices : \E a \in Commands[d] : Command(d, a)
  OBVIOUS
<1>a. u \in Task /\ u \notin {Loop, Scan} /\ u[1] \notin {"poll", "recover", "delete"}
  BY TaskNames, TaskKinds
<1>1. ~ \E t \in Task : Effect(t)
  <2> SUFFICES ASSUME NEW t \in Task, Effect(t) PROVE FALSE
    OBVIOUS
  <2>1. pc'[u] = pc[u] \/ u = t
    BY <1>a, EffectPlaces, TaskKinds
  <2> QED BY <2>1 DEF Effect, Alive
<1>2. ASSUME NEW d \in Devices, Request(d) PROVE \E a \in Commands[d] : Command(d, a)
  <2>1. ~Delete(d)
    BY <1>0, <1>a, DeletePlaces, TaskKinds DEF MovedBoth
  <2> QED BY <1>2, <2>1 DEF Request, Register, Patch
<1>3. ~Outside
  <2>1. ~StartScan /\ ~LoopWake
    BY <1>0, <1>a DEF StartScan, LoopWake, Goto, Acquire, TypeOK
  <2>2. ~LinkLost /\ ~Crash
    BY <1>a DEF LinkLost, Crash
  <2>3. ~Restart
    BY <1>0, <1>a, TaskKinds DEF Restart, Goto, TypeOK
  <2>4. ASSUME NEW T, CancelAll(T) PROVE FALSE
    BY <1>0, <1>a, <2>4, CancelPlaces DEF Undoing
  <2>5. ~Close /\ ~CloseStep
    BY <2>4 DEF Close, CloseStep, CloseOperations, CloseRecoveries, ClosePolls, CloseAdapter
  <2> QED BY <2>1, <2>2, <2>3, <2>5 DEF Outside
<1> QED BY <1>0, <1>1, <1>2, <1>3, StepCases DEF vars

LEMMA OneRequestStep == ASSUME LockInv, PlainInv, [Next]_vars PROVE OneRequest'
<1>0. TypeOK /\ OneRequest /\ Requested \subseteq Task
  BY TaskNames DEF LockInv, PlainInv
<1>1. CASE \A u \in Requested : pc[u] = "idle" => pc'[u] = "idle"
  BY <1>0, <1>1 DEF OneRequest, Alive
<1>2. ASSUME NEW d \in Devices, NEW a \in Commands[d], Command(d, a) PROVE OneRequest'
  <2>1. Moved(<<a, d>>, "queued") /\ <<a, d>>[2] = d /\ ~Busy(d)
    BY <1>0, <1>2, CommandPlaces DEF Command
  <2>2. \A u \in Requested : u[2] = d => pc[u] = "idle"
    BY <2>1 DEF Busy, Alive
  <2> QED BY <1>0, <2>1, <2>2 DEF OneRequest, Alive, Moved
<1> QED BY <1>1, <1>2, RequestedStep

\* Whatever is asked: tasks stay where their kind may be, each stage of close leaves fewer of
\* them, and a device has one requested operation at a time (service.py, close and
\* start_connection_operation).
THEOREM PlainInvariant == Spec => []PlainInv
<1>1. Init => PlainInv
  <2> SUFFICES ASSUME Init PROVE PlainInv
    OBVIOUS
  <2>1. (\A t \in Task : pc[t] = "idle") /\ link = NoDevice /\ phase = "down"
    BY DEF Init
  <2>2. Roles
    BY <2>1, TaskKinds DEF Roles, RoleOK
  <2>3. Closed
    BY <2>1, TaskNames DEF Closed
  <2>4. OneRequest
    BY <2>1, TaskNames DEF OneRequest, Alive
  <2> QED BY <2>2, <2>3, <2>4 DEF PlainInv
<1>2. LockInv /\ PlainInv /\ [Next]_vars => PlainInv'
  BY RolesStep, ClosedStep, OneRequestStep DEF PlainInv
<1> QED BY <1>1, <1>2, LockInvariant, PTL DEF Spec

\* Once close has returned nothing is left running, linked or pending, whatever was under way
\* when it was called (service.py, close).
THEOREM NothingIsLeft == Spec => []StoppedClean
<1>1. LockInv /\ PlainInv => StoppedClean
  <2> SUFFICES ASSUME LockInv, PlainInv, phase = "stopped" PROVE StoppedClean
    BY DEF StoppedClean
  <2>1. Closed /\ ScanTracked
    BY DEF LockInv, PlainInv
  <2>2. pc[Loop] = "idle" /\ pc[Scan] = "idle" /\ \A u \in Requested : pc[u] = "idle"
    BY <2>1 DEF Closed, ScanTracked
  <2>3. \A d \in Devices : pc[Recover(d)] = "idle" /\ pc[Poll(d)] = "idle" /\ pc[Deletion(d)] = "idle"
    BY <2>1 DEF Closed
  <2>4. \A t \in Task : pc[t] = "idle"
    BY <2>2, <2>3, TaskKinds
  <2>5. link = NoDevice /\ \A j \in Job : op[j] \notin Pending
    BY <2>1, Pendings DEF Closed
  <2> QED BY <2>4, <2>5 DEF StoppedClean, Alive
<1> QED BY <1>1, LockInvariant, PlainInvariant, PTL

(***************************************************************************)
(* A disconnect is alone, as long as nothing is deleted: DELETE cancels    *)
(* the recovery too, and an operation accepted meanwhile does not wait.    *)
(***************************************************************************)
Unlink(d) == <<"disconnect", d>>

NoDeletion == \A d \in Devices : pc[Deletion(d)] = "idle"

\* A recovery that unwinds is waited for.
UnwindOwned ==
  phase \in {"up", "closing"} =>
    \A d \in Devices : pc[Recover(d)] = "unwind" =>
      \E t \in Requested : t[2] = d /\ pc[t] = "stopRec"

\* An operation that had no recovery to cancel has not let anybody else move.
BeginRuns == \A t \in Requested : pc[t] = "begin" => running = {t} /\ pc[Recover(t[2])] = "idle"

\* A first reading may still write connected over the wish of an accepted disconnect, but then
\* the recovery has ended, and once it was cancelled the polling task cannot bring it back.
DisconnectWins ==
  \A d \in Devices :
    /\ pc[Unlink(d)] = "queued" =>
         desired[d] = "disconnected" \/ pc[Poll(d)] = "idle" \/ ~Recovering(d)
    /\ pc[Unlink(d)] = "stopRec" =>
         ~Recovering(d) /\ (desired[d] = "disconnected" \/ pc[Poll(d)] = "idle")

AloneInv == NoDeletion /\ UnwindOwned /\ BeginRuns /\ DisconnectWins /\ DisconnectsAlone

\* Once close has cancelled the requested operations there is nothing to prove.
LEMMA ClosedAlone ==
  ASSUME Roles, Closed, phase \notin {"up", "closing"}
  PROVE  AloneInv
<1>1. \A d \in Devices : Unlink(d) \in Requested /\ Unlink(d) \in Task /\ Unlink(d)[1] = "disconnect"
  BY TaskNames, TaskKinds DEF Unlink, Requested
<1>2. \A d \in Devices : pc[Unlink(d)] = "idle"
  <2> TAKE d \in Devices
  <2>1. pc[Unlink(d)] \in {"idle", "unwind"} /\ RoleOK(Unlink(d), pc[Unlink(d)])
    BY <1>1 DEF Roles, Closed
  <2> QED BY <1>1, <2>1 DEF RoleOK
<1>3. \A t \in Requested : pc[t] # "begin"
  BY DEF Closed
<1>4. NoDeletion
  BY DEF Closed, NoDeletion
<1> QED BY <1>2, <1>3, <1>4 DEF AloneInv, UnwindOwned, BeginRuns, DisconnectWins, DisconnectsAlone, Unlink

LEMMA AloneNames ==
  \A d \in Devices :
    /\ Unlink(d) \in Task /\ Recover(d) \in Task /\ Poll(d) \in Task
    /\ Unlink(d) \in Requested /\ Recover(d) \notin Requested /\ Poll(d) \notin Requested
    /\ Unlink(d)[1] = "disconnect" /\ Unlink(d)[2] = d
    /\ \A e : /\ Recover(d) # Poll(e) /\ Unlink(d) # Poll(e) /\ Unlink(d) # Recover(e)
              /\ Recover(d) = Recover(e) => d = e
              /\ Poll(d) = Poll(e) => d = e
              /\ Unlink(d) = Unlink(e) => d = e
<1> TAKE d \in Devices
<1>1. Unlink(d) \in Task /\ Recover(d) \in Task /\ Poll(d) \in Task
  BY TaskNames DEF Unlink, Task
<1>2. Unlink(d) \in Requested /\ Recover(d) \notin Requested /\ Poll(d) \notin Requested
  BY DEF Unlink, Requested, Recover, Poll
<1>3. Unlink(d)[1] = "disconnect" /\ Unlink(d)[2] = d
  BY DEF Unlink
<1>4. \A e : /\ Recover(d) # Poll(e) /\ Unlink(d) # Poll(e) /\ Unlink(d) # Recover(e)
             /\ Recover(d) = Recover(e) => d = e
             /\ Poll(d) = Poll(e) => d = e
             /\ Unlink(d) = Unlink(e) => d = e
  BY DEF Unlink, Recover, Poll
<1> QED BY <1>1, <1>2, <1>3, <1>4

LEMMA UnwindStep ==
  ASSUME LockInv, PlainInv, AloneInv, NEW t \in Task, Effect(t)
  PROVE  UnwindOwned'
<1>1. phase' = phase /\ Waited(t) /\ UnwindOwned
  BY DEF Effect, AloneInv
<1> SUFFICES ASSUME phase \in {"up", "closing"}, NEW d \in Devices, pc'[Recover(d)] = "unwind"
             PROVE  \E u \in Requested : u[2] = d /\ pc'[u] = "stopRec"
  BY <1>1 DEF UnwindOwned
<1>2. CASE pc[Recover(d)] = "unwind"
  <2>1. PICK u \in Requested : u[2] = d /\ pc[u] = "stopRec"
    BY <1>1, <1>2 DEF UnwindOwned
  <2>2. u # t
    BY <1>1, <1>2, <2>1 DEF Waited
  <2>3. u \in Task /\ u[1] \notin {"poll", "recover"}
    BY TaskNames, TaskKinds
  <2>4. pc'[u] = pc[u]
    BY <2>2, <2>3, EffectPlaces, TaskKinds
  <2> QED BY <2>1, <2>4
<1>3. CASE pc[Recover(d)] # "unwind"
  <2>1. pc'[t] # "unwind"
    BY DEF Effect, Works, Cancels, Takes, Reads, GivesUp, Stops, Moved, MovedBoth
  <2>2. Cancels(t) /\ Recover(t[2]) = Recover(d)
    BY <1>3, <2>1, AloneNames, EffectPlaces
  <2>3. t \in Requested /\ t[2] = d /\ pc'[t] = "stopRec"
    BY <2>2, AloneNames DEF Cancels, MovedBoth
  <2> QED BY <2>3
<1> QED BY <1>2, <1>3

LEMMA BeginStep ==
  ASSUME LockInv, PlainInv, AloneInv, NEW t \in Task, Effect(t)
  PROVE  BeginRuns'
<1>1. Waited(t) /\ Runs(t) /\ Alive(t) /\ BeginRuns /\ UnwindOwned /\ OneRequest /\ Closed
  BY DEF Effect, AloneInv, PlainInv
<1> SUFFICES ASSUME NEW u \in Requested, pc'[u] = "begin"
             PROVE  running' = {u} /\ pc'[Recover(u[2])] = "idle"
  BY DEF BeginRuns
<1>2. u \in Task /\ u[1] \notin {"poll", "recover"} /\ u[2] \in Devices
  BY TaskNames, TaskKinds DEF Loop, Scan
<1>3. u = t
  <2> SUFFICES ASSUME u # t PROVE FALSE
    OBVIOUS
  <2>1. pc[u] = "begin"
    BY <1>2, EffectPlaces, TaskKinds
  <2> QED BY <1>1, <2>1 DEF BeginRuns, Runs
<1>4. Works(t, "begin")
  BY <1>3 DEF Effect, Works, Cancels, Takes, Reads, GivesUp, Stops, Moved, MovedBoth
<1>5. /\ running' = {t} /\ ~Recovering(t[2]) /\ pc[t] \notin {"idle", "unwind"}
      /\ pc'[Recover(t[2])] = pc[Recover(t[2])]
  BY <1>1, <1>2, <1>3, <1>4, AloneNames DEF Works, Moved, Alive
<1>6. phase \in {"up", "closing"}
  BY <1>1, <1>3, <1>5 DEF Closed
<1>7. pc[Recover(t[2])] # "unwind"
  <2> SUFFICES ASSUME pc[Recover(t[2])] = "unwind" PROVE FALSE
    OBVIOUS
  <2>1. PICK w \in Requested : w[2] = t[2] /\ pc[w] = "stopRec"
    BY <1>1, <1>2, <1>3, <1>6 DEF UnwindOwned
  <2>2. w = t
    BY <1>1, <1>3, <2>1 DEF OneRequest, Alive
  <2> QED BY <1>1, <1>3, <2>1, <2>2 DEF Waited
<1> QED BY <1>3, <1>5, <1>7 DEF Recovering

\* What a task's step leaves alone.
LEMMA EffectElsewhere ==
  ASSUME TypeOK, NEW t \in Task, Effect(t), NEW d \in Devices
  PROVE  /\ t[2] # d => /\ pc'[Poll(d)] = pc[Poll(d)] /\ pc'[Recover(d)] = pc[Recover(d)]
                        /\ desired'[d] = desired[d]
         /\ t[1] \notin Connecting \cup {"disconnect"} => desired'[d] = desired[d]
<1>1. \/ UNCHANGED desired
      \/ t[1] \in Connecting \cup {"disconnect"} /\ \E v : desired' = Written(desired, t[2], v)
  BY DEF Effect, Works, Cancels, Takes, Reads, GivesUp, Stops, Fails, Disconnects, Erases, Rests, rows
<1>2. t[2] # d => desired'[d] = desired[d]
  BY <1>1 DEF Written, TypeOK
<1>3. t[1] \notin Connecting \cup {"disconnect"} => desired'[d] = desired[d]
  BY <1>1
<1>4. ASSUME t[2] # d, NEW u \in {Poll(d), Recover(d)} PROVE pc'[u] = pc[u]
  <2>1. u \in Task /\ u[2] = d /\ u # t
    BY <1>4, AloneNames, TaskKinds
  <2>2. u # Poll(t[2]) /\ u # Recover(t[2])
    BY <1>4, <2>1, TaskKinds
  <2> QED BY <2>1, <2>2, EffectPlaces
<1> QED BY <1>2, <1>3, <1>4

\* Who may act for a device that is being disconnected.
LEMMA EffectAgainst ==
  ASSUME LockInv, PlainInv, AloneInv, NEW t \in Task, Effect(t), NEW d \in Devices,
         Alive(Unlink(d)), t # Unlink(d), t[2] = d
  PROVE  t = Recover(d) \/ t = Poll(d)
<1>1. Alive(t) /\ NoDeletion /\ OneRequest
  BY DEF Effect, AloneInv, PlainInv
<1>2. t \notin Requested
  BY <1>1, AloneNames DEF OneRequest
<1>3. t # Deletion(d)
  BY <1>1 DEF NoDeletion, Alive
<1>4. t \notin {Loop, Scan}
  BY NoDeviceAssumption DEF Loop, Scan
<1>5. t[1] \in {"recover", "poll", "delete"}
  BY <1>2, <1>4, TaskKinds
<1> QED BY <1>3, <1>5, TaskKinds

LEMMA AloneStep ==
  ASSUME LockInv, PlainInv, AloneInv, NEW t \in Task, Effect(t)
  PROVE  DisconnectsAlone'
<1>0. /\ TypeOK /\ DisconnectsAlone /\ BeginRuns /\ DisconnectWins /\ Roles /\ Alive(t) /\ Waited(t)
  BY DEF LockInv, PlainInv, AloneInv, Effect
<1> SUFFICES ASSUME NEW d \in Devices, pc'[Unlink(d)] \in {"teardown", "lockOff", "off"}
             PROVE  pc'[Recover(d)] = "idle" /\ pc'[Poll(d)] = "idle"
  BY DEF DisconnectsAlone, Unlink, Alive
<1> DEFINE x == Unlink(d)
<1>1. x \in Task /\ x \in Requested /\ x[1] = "disconnect" /\ x[2] = d
  BY AloneNames
<1> HIDE DEF x
<1>2. CASE t = x
  <2>1. \/ Takes(t)
        \/ \E place \in {"teardown", "lockOff", "off"} : Works(t, place)
    BY <1>2 DEF Effect, Works, Cancels, Takes, Reads, GivesUp, Stops, Moved, MovedBoth, x
  <2>2. CASE Takes(t)
    <3>1. pc[x] \in {"begin", "stopRec"}
      BY <1>0, <1>1, <1>2, <2>2 DEF Takes, Roles, RoleOK
    <3>2. pc[Recover(d)] = "idle"
      BY <1>0, <1>1, <1>2, <3>1 DEF BeginRuns, DisconnectWins, Recovering, Waited, x
    <3> QED BY <1>1, <1>2, <2>2, <3>2, AloneNames DEF Takes, MovedBoth
  <2>3. CASE \E place \in {"teardown", "lockOff", "off"} : Works(t, place)
    <3>1. pc[x] \in {"teardown", "lockOff"} /\ \A u \in Task : u # x => pc'[u] = pc[u]
      BY <1>1, <1>2, <2>3 DEF Works, Moved
    <3>2. pc[Recover(d)] = "idle" /\ pc[Poll(d)] = "idle"
      BY <1>0, <3>1 DEF DisconnectsAlone, Alive, x, Unlink
    <3> QED BY <3>1, <3>2, AloneNames DEF x
  <2> QED BY <2>1, <2>2, <2>3
<1>3. CASE t # x
  <2>1. pc'[x] = pc[x]
    BY <1>1, <1>3, EffectPlaces, TaskKinds
  <2>2. pc[Recover(d)] = "idle" /\ pc[Poll(d)] = "idle" /\ Alive(Unlink(d))
    BY <1>0, <2>1 DEF DisconnectsAlone, Alive, x, Unlink
  <2>3. t[2] # d
    BY <1>0, <1>3, <2>2, EffectAgainst DEF Alive, x
  <2> QED BY <1>0, <2>2, <2>3, EffectElsewhere
<1> QED BY <1>2, <1>3

LEMMA WinsStep ==
  ASSUME LockInv, PlainInv, AloneInv, NEW t \in Task, Effect(t)
  PROVE  DisconnectWins'
<1>0. TypeOK /\ DisconnectWins /\ Roles /\ Alive(t)
  BY DEF LockInv, PlainInv, AloneInv, Effect
<1> SUFFICES ASSUME NEW d \in Devices, pc'[Unlink(d)] \in {"queued", "stopRec"}
             PROVE  /\ pc'[Unlink(d)] = "queued" =>
                         desired'[d] = "disconnected" \/ pc'[Poll(d)] = "idle"
                         \/ pc'[Recover(d)] \in {"idle", "unwind"}
                    /\ pc'[Unlink(d)] = "stopRec" =>
                         /\ pc'[Recover(d)] \in {"idle", "unwind"}
                         /\ desired'[d] = "disconnected" \/ pc'[Poll(d)] = "idle"
  BY DEF DisconnectWins, Recovering
<1> DEFINE x == Unlink(d)
<1>1. /\ x \in Task /\ x \in Requested /\ x[1] = "disconnect" /\ x[2] = d
      /\ Recover(d) \in Task /\ Poll(d) \in Task /\ x # Recover(d) /\ x # Poll(d)
      /\ Recover(d) # Poll(d)
  BY AloneNames
<1>a. /\ pc[x] = "queued" => desired[d] = "disconnected" \/ pc[Poll(d)] = "idle"
                             \/ pc[Recover(d)] \in {"idle", "unwind"}
      /\ pc[x] = "stopRec" => /\ pc[Recover(d)] \in {"idle", "unwind"}
                              /\ desired[d] = "disconnected" \/ pc[Poll(d)] = "idle"
  BY <1>0 DEF DisconnectWins, Recovering
<1> HIDE DEF x
<1>2. CASE t = x
  <2>1. Cancels(t)
    BY <1>2 DEF Effect, Works, Cancels, Takes, Reads, GivesUp, Stops, Moved, MovedBoth, x
  <2>2. /\ pc[x] = "queued" /\ Recovering(d) /\ UNCHANGED desired
        /\ pc'[Recover(d)] \in {"idle", "unwind"} /\ pc'[x] = "stopRec" /\ pc'[Poll(d)] = pc[Poll(d)]
    BY <1>1, <1>2, <2>1 DEF Cancels, MovedBoth, rows
  <2> QED BY <1>a, <2>2 DEF Recovering, x
<1>3. CASE t # x
  <2>1. pc'[x] = pc[x]
    BY <1>1, <1>3, EffectPlaces, TaskKinds
  <2>2. CASE t[2] # d
    BY <1>0, <1>a, <2>1, <2>2, EffectElsewhere DEF x
  <2>3. CASE t = Recover(d)
    <3>1. t[1] = "recover" /\ t[2] = d /\ t \notin Requested
      BY <2>3, TaskKinds, AloneNames
    <3>2. CASE Takes(t)
      <4>1. pc[t] \in {"begin", "stopRec", "sleep"} /\ UNCHANGED desired
        BY <3>2 DEF Takes, rows
      <4>2. Poll(t[2]) = Poll(d) /\ t # Poll(d)
        BY <1>1, <2>3, <3>1
      <4>3. pc'[Poll(d)] = "idle"
        BY <1>1, <3>2, <4>2 DEF Takes, MovedBoth
      <4> QED BY <1>a, <2>1, <2>3, <4>1, <4>3 DEF x
    <3>3. CASE Reads(t)
      <4>1. pc'[t] = "idle" /\ pc[t] = "read"
        BY <3>3 DEF Reads, MovedBoth
      <4> QED BY <1>a, <2>1, <2>3, <4>1 DEF x
    <3>4. CASE Stops(t)
      <4>1. pc'[t] = "idle" /\ pc'[Poll(d)] = pc[Poll(d)] /\ UNCHANGED desired
        BY <1>1, <2>3, <3>1, <3>4 DEF Stops, Moved, Fails, Disconnects, Erases, Rests
      <4> QED BY <1>a, <2>1, <2>3, <4>1 DEF x
    <3>5. CASE \E place \in Places : Works(t, place)
      <4>1. pc[t] \notin {"idle", "unwind"} /\ pc'[Poll(d)] = pc[Poll(d)] /\ UNCHANGED desired
        BY <1>0, <1>1, <2>3, <3>5 DEF Works, Moved, Alive
      <4> QED BY <1>a, <2>1, <2>3, <4>1 DEF x
    <3>6. ~Cancels(t) /\ ~GivesUp(t)
      BY <3>1 DEF Cancels, GivesUp
    <3> QED BY <3>2, <3>3, <3>4, <3>5, <3>6 DEF Effect
  <2>4. CASE t = Poll(d)
    <3>1. t[1] = "poll" /\ t[2] = d /\ t \notin Requested
      BY <2>4, TaskKinds, AloneNames
    <3>2. pc[t] # "idle" /\ desired'[d] = desired[d]
      BY <1>0, <3>1, EffectElsewhere DEF Alive, Connecting
    <3>3. CASE GivesUp(t)
      <4>1. pc'[t] = "idle" /\ desired[d] = "connected" /\ pc[Recover(d)] = "idle"
        BY <3>1, <3>3 DEF GivesUp, MovedBoth, Wanted
      <4> QED BY <1>a, <2>1, <2>4, <3>2, <4>1 DEF x
    <3>4. ~Takes(t) /\ ~Reads(t) /\ ~Cancels(t)
      BY <3>1 DEF Takes, Reads, Cancels, Alternating, Connecting
    <3>5. CASE Stops(t) \/ \E place \in Places : Works(t, place)
      <4>1. pc'[Recover(d)] = pc[Recover(d)]
        BY <1>1, <2>4, <3>5 DEF Stops, Works, Moved
      <4> QED BY <1>a, <2>1, <2>4, <3>2, <4>1 DEF x
    <3> QED BY <3>3, <3>4, <3>5 DEF Effect
  <2> QED
    <3>1. Alive(Unlink(d))
      BY <2>1 DEF Alive, x
    <3> QED BY <1>3, <2>2, <2>3, <2>4, <3>1, EffectAgainst DEF x
<1> QED BY <1>2, <1>3

LEMMA NoDeletionStep ==
  ASSUME LockInv, AloneInv, NEW t \in Task, Effect(t)
  PROVE  NoDeletion'
<1> SUFFICES ASSUME NEW d \in Devices PROVE pc'[Deletion(d)] = "idle"
  BY DEF NoDeletion
<1>1. Deletion(d) \in Task /\ pc[Deletion(d)] = "idle" /\ t # Deletion(d)
  BY TaskNames DEF AloneInv, NoDeletion, Effect, Alive
<1> QED BY <1>1, EffectPlaces, TaskKinds

\* Steps that move none of the tasks of a device.
LEMMA AloneFrame ==
  ASSUME AloneInv,
         \A u \in Task : u \notin {Loop, Scan} => pc'[u] = pc[u],
         \A d \in Devices : desired'[d] \in {desired[d], "disconnected"},
         phase' \in {"up", "closing"} => phase \in {"up", "closing"},
         UNCHANGED running \/ \A u \in Requested : pc[u] # "begin"
  PROVE  AloneInv'
<1>1. \A d \in Devices : /\ pc'[Recover(d)] = pc[Recover(d)] /\ pc'[Poll(d)] = pc[Poll(d)]
                         /\ pc'[Deletion(d)] = pc[Deletion(d)] /\ pc'[Unlink(d)] = pc[Unlink(d)]
  BY TaskNames, TaskKinds, AloneNames
<1>2. \A u \in Requested : pc'[u] = pc[u] /\ u[2] \in Devices
  BY TaskNames, TaskKinds
<1>3. NoDeletion' /\ DisconnectsAlone'
  BY <1>1 DEF AloneInv, NoDeletion, DisconnectsAlone, Alive, Unlink
<1>6. DisconnectWins'
  <2> SUFFICES ASSUME NEW d \in Devices
               PROVE  /\ pc'[Unlink(d)] = "queued" =>
                           desired'[d] = "disconnected" \/ pc'[Poll(d)] = "idle"
                           \/ pc'[Recover(d)] \in {"idle", "unwind"}
                      /\ pc'[Unlink(d)] = "stopRec" =>
                           /\ pc'[Recover(d)] \in {"idle", "unwind"}
                           /\ desired'[d] = "disconnected" \/ pc'[Poll(d)] = "idle"
    BY DEF DisconnectWins, Recovering
  <2>1. /\ pc[Unlink(d)] = "queued" => desired[d] = "disconnected" \/ pc[Poll(d)] = "idle"
                                       \/ pc[Recover(d)] \in {"idle", "unwind"}
        /\ pc[Unlink(d)] = "stopRec" => /\ pc[Recover(d)] \in {"idle", "unwind"}
                                        /\ desired[d] = "disconnected" \/ pc[Poll(d)] = "idle"
    BY DEF AloneInv, DisconnectWins, Recovering
  <2>2. desired'[d] \in {desired[d], "disconnected"}
    OBVIOUS
  <2> QED BY <1>1, <2>1, <2>2
<1>4. UnwindOwned'
  BY <1>1, <1>2 DEF AloneInv, UnwindOwned
<1>5. BeginRuns'
  BY <1>1, <1>2 DEF AloneInv, BeginRuns
<1> QED BY <1>3, <1>4, <1>5, <1>6 DEF AloneInv

LEMMA AloneCommand ==
  ASSUME LockInv, AloneInv, NEW e \in Devices, NEW a \in Commands[e], Command(e, a)
  PROVE  AloneInv'
<1> DEFINE y == <<a, e>>
<1>0. TypeOK
  BY DEF LockInv
<1>1. /\ y \in Requested /\ y[2] = e /\ y \in Task /\ y[1] \in {"connect", "disconnect", "reconnect"}
      /\ pc'[y] = "queued" /\ \A u \in Task : u # y => pc'[u] = pc[u]
  BY <1>0, CommandPlaces, TaskNames, TaskKinds DEF Moved
<1>2. /\ running = {} /\ ~Busy(e) /\ UNCHANGED <<running, phase>>
      /\ desired' = [desired EXCEPT ![e] = IF a = "disconnect" THEN "disconnected" ELSE "connected"]
  BY DEF Command, Serving
<1>3. a = "disconnect" <=> y = Unlink(e)
  BY DEF Unlink
<1> HIDE DEF y
<1>4. \A u \in Requested : u[2] = e => pc[u] = "idle"
  BY <1>2 DEF Busy, Alive
<1>5. \A d \in Devices : /\ pc'[Recover(d)] = pc[Recover(d)] /\ pc'[Poll(d)] = pc[Poll(d)]
                         /\ pc'[Deletion(d)] = pc[Deletion(d)]
  BY <1>1, TaskNames, TaskKinds, AloneNames
<1>6. \A d \in Devices : pc'[Unlink(d)] = pc[Unlink(d)] \/ (y = Unlink(d) /\ d = e)
  BY <1>1, AloneNames
<1>7. NoDeletion'
  BY <1>5 DEF AloneInv, NoDeletion
<1>8. DisconnectsAlone'
  <2>1. \A d \in Devices : pc'[Unlink(d)] \in {"teardown", "lockOff", "off"} =>
          pc[Recover(d)] = "idle" /\ pc[Poll(d)] = "idle"
    BY <1>1, <1>6 DEF AloneInv, DisconnectsAlone, Alive, Unlink
  <2> QED BY <1>5, <2>1 DEF DisconnectsAlone, Alive, Unlink
<1>9. BeginRuns'
  <2>1. \A u \in Requested : pc[u] # "begin"
    BY <1>2 DEF AloneInv, BeginRuns
  <2>2. \A u \in Requested : pc'[u] # "begin"
    BY <1>1, <2>1, TaskNames
  <2> QED BY <2>2 DEF BeginRuns
<1>10. UnwindOwned'
  <2> SUFFICES ASSUME phase \in {"up", "closing"}, NEW d \in Devices, pc'[Recover(d)] = "unwind"
               PROVE  \E u \in Requested : u[2] = d /\ pc'[u] = "stopRec"
    BY <1>2 DEF UnwindOwned
  <2>1. PICK u \in Requested : u[2] = d /\ pc[u] = "stopRec"
    BY <1>5 DEF AloneInv, UnwindOwned
  <2>2. u # y
    BY <1>1, <1>4, <2>1
  <2> QED BY <1>1, <2>1, <2>2, TaskNames
<1>11. DisconnectWins'
  <2> SUFFICES ASSUME NEW d \in Devices
               PROVE  /\ pc'[Unlink(d)] = "queued" =>
                           desired'[d] = "disconnected" \/ pc'[Poll(d)] = "idle"
                           \/ pc'[Recover(d)] \in {"idle", "unwind"}
                      /\ pc'[Unlink(d)] = "stopRec" =>
                           /\ pc'[Recover(d)] \in {"idle", "unwind"}
                           /\ desired'[d] = "disconnected" \/ pc'[Poll(d)] = "idle"
    BY DEF DisconnectWins, Recovering
  <2>1. /\ pc[Unlink(d)] = "queued" => desired[d] = "disconnected" \/ pc[Poll(d)] = "idle"
                                       \/ pc[Recover(d)] \in {"idle", "unwind"}
        /\ pc[Unlink(d)] = "stopRec" => /\ pc[Recover(d)] \in {"idle", "unwind"}
                                        /\ desired[d] = "disconnected" \/ pc[Poll(d)] = "idle"
    BY DEF AloneInv, DisconnectWins, Recovering
  <2>2. CASE y = Unlink(d)
    <3>1. d = e /\ desired'[d] = "disconnected" /\ pc'[Unlink(d)] = "queued"
      BY <1>0, <1>1, <1>2, <1>3, <2>2, AloneNames DEF TypeOK
    <3> QED BY <3>1
  <2>3. CASE d # e
    <3>1. pc'[Unlink(d)] = pc[Unlink(d)] /\ desired'[d] = desired[d]
      BY <1>0, <1>2, <1>6, <2>3 DEF TypeOK
    <3> QED BY <1>5, <2>1, <3>1
  <2>4. CASE d = e /\ y # Unlink(d)
    <3>1. pc'[Unlink(d)] = "idle"
      BY <1>1, <1>4, <2>4, AloneNames
    <3> QED BY <3>1
  <2> QED BY <2>2, <2>3, <2>4
<1> QED BY <1>7, <1>8, <1>9, <1>10, <1>11 DEF AloneInv

LEMMA AloneNext ==
  ASSUME Deletable = {}, LockInv, PlainInv, PlainInv', AloneInv, [Next]_vars
  PROVE  AloneInv'
<1>0. TypeOK /\ Roles /\ DownIdle /\ Roles' /\ Closed'
  BY DEF LockInv, PlainInv
<1>1. ASSUME NEW t \in Task, Effect(t) PROVE AloneInv'
  BY <1>1, NoDeletionStep, UnwindStep, BeginStep, WinsStep, AloneStep DEF AloneInv
<1>2. ASSUME NEW d \in Devices, Request(d) PROVE AloneInv'
  <2>1. CASE \E automatic \in BOOLEAN : Register(d, automatic)
    <3>1. UNCHANGED <<pc, running, phase>> /\ desired' = [desired EXCEPT ![d] = "disconnected"]
      BY <2>1 DEF Register
    <3>2. \A e \in Devices : desired'[e] \in {desired[e], "disconnected"}
      BY <1>0, <3>1 DEF TypeOK
    <3> QED BY <3>1, <3>2, AloneFrame
  <2>2. CASE \E a \in Commands[d] : Command(d, a)
    BY <2>2, AloneCommand
  <2>3. CASE Patch(d)
    BY <2>3, AloneFrame DEF Patch
  <2>4. ~Delete(d)
    BY DEF Delete
  <2> QED BY <1>2, <2>1, <2>2, <2>3, <2>4 DEF Request
<1>3. CASE StartScan
  <2>1. /\ UNCHANGED <<running, phase, desired>>
        /\ \A u \in Task : u \notin {Loop, Scan} => pc'[u] = pc[u]
    BY <1>0, <1>3 DEF StartScan, Goto, rows, TypeOK
  <2> QED BY <2>1, AloneFrame
<1>4. CASE LoopWake
  <2>1. /\ UNCHANGED <<phase, desired>> /\ running \subseteq {Loop}
        /\ \A u \in Task : u \notin {Loop, Scan} => pc'[u] = pc[u]
    BY <1>0, <1>4 DEF LoopWake, Acquire, Stage, Runs, rows, TypeOK
  <2>2. \A u \in Requested : pc[u] # "begin"
    <3> SUFFICES ASSUME NEW u \in Requested, pc[u] = "begin" PROVE FALSE
      OBVIOUS
    <3>1. Loop \notin Requested
      BY DEF Loop, Requested
    <3>2. running = {u}
      BY DEF AloneInv, BeginRuns
    <3> QED BY <2>1, <3>1, <3>2
  <2> QED BY <2>1, <2>2, AloneFrame
<1>5. CASE LinkLost
  BY <1>5, AloneFrame DEF LinkLost, rows
<1>6. CASE Crash
  <2>1. \A u \in Task : pc'[u] = "idle"
    BY <1>6 DEF Crash
  <2>2. \A d \in Devices : pc'[Recover(d)] = "idle" /\ pc'[Deletion(d)] = "idle" /\ pc'[Unlink(d)] = "idle"
    BY <2>1, TaskNames, AloneNames
  <2>3. \A u \in Requested : pc'[u] = "idle"
    BY <2>1, TaskNames
  <2> QED BY <2>2, <2>3 DEF AloneInv, NoDeletion, UnwindOwned, BeginRuns, DisconnectWins,
                            DisconnectsAlone, Unlink
<1>7. CASE Restart
  <2>1. \A u \in Task : pc'[u] = "idle" \/ (pc'[u] = "boot" /\ u[1] = "recover")
    BY <1>0, <1>7, TaskKinds DEF Restart, Goto, DownIdle, TypeOK
  <2>2. \A d \in Devices : /\ pc'[Recover(d)] # "unwind" /\ pc'[Deletion(d)] = "idle"
                           /\ pc'[Unlink(d)] = "idle"
    BY <2>1, TaskNames, TaskKinds, AloneNames
  <2>3. \A u \in Requested : pc'[u] = "idle"
    BY <2>1, TaskNames, TaskKinds
  <2> QED BY <2>2, <2>3 DEF AloneInv, NoDeletion, UnwindOwned, BeginRuns, DisconnectWins,
                            DisconnectsAlone, Unlink
<1>8. CASE Close
  <2>1. /\ phase = "up" /\ UNCHANGED <<desired, running>>
        /\ \A u \in Task : u \notin {Loop, Scan} => pc'[u] = pc[u]
    BY <1>0, <1>8, CancelPlaces DEF Close, CancelAll, rows
  <2> QED BY <2>1, AloneFrame
<1>9. CASE CloseStep
  <2>1. phase' \notin {"up", "closing"}
    BY <1>9 DEF CloseStep, CloseOperations, CloseRecoveries, ClosePolls, CloseAdapter
  <2>2. (Roles /\ Closed /\ phase \notin {"up", "closing"} => AloneInv)'
    BY ClosedAlone, PTL
  <2> QED BY <1>0, <2>1, <2>2
<1>10. CASE UNCHANGED vars
  BY <1>10, AloneFrame DEF vars, rows
<1> QED BY <1>0, <1>1, <1>2, <1>3, <1>4, <1>5, <1>6, <1>7, <1>8, <1>9, <1>10, StepCases DEF Outside

\* If nothing is deleted: a recovery that unwinds is waited for, an operation that found none has
\* let nobody else move, and an accepted disconnect wins over a first reading that comes after it
\* (service.py, _stop_recovery, _stop_polling).
THEOREM AloneInvariant == Deletable = {} => (Spec => []AloneInv)
<1> SUFFICES ASSUME Deletable = {} PROVE Spec => []AloneInv
  OBVIOUS
<1>1. Init => AloneInv
  <2> SUFFICES ASSUME Init PROVE AloneInv
    OBVIOUS
  <2>1. \A u \in Task : pc[u] = "idle"
    BY DEF Init
  <2>2. \A d \in Devices : pc[Recover(d)] = "idle" /\ pc[Deletion(d)] = "idle" /\ pc[Unlink(d)] = "idle"
    BY <2>1, TaskNames, AloneNames
  <2>3. \A u \in Requested : pc[u] = "idle"
    BY <2>1, TaskNames
  <2> QED BY <2>2, <2>3 DEF AloneInv, NoDeletion, UnwindOwned, BeginRuns, DisconnectWins,
                            DisconnectsAlone, Unlink
<1>2. LockInv /\ PlainInv /\ PlainInv' /\ AloneInv /\ [Next]_vars => AloneInv'
  BY AloneNext
<1> QED BY <1>1, <1>2, LockInvariant, PlainInvariant, PTL DEF Spec

\* While a disconnect takes the link down nobody recovers, polls or unwinds for the device, if the
\* administrator deletes nothing (service.py, _stop_recovery and _stop_polling).
THEOREM DisconnectIsAlone == Deletable = {} => (Spec => []DisconnectsAlone)
<1>1. AloneInv => DisconnectsAlone
  BY DEF AloneInv
<1> QED BY <1>1, AloneInvariant, PTL

(***************************************************************************)
(* Everybody works for the owner of the adapter, as long as nothing is     *)
(* deleted and only the owner is disconnected.                             *)
(***************************************************************************)
OwnersWork == \A u \in Task \ {Loop, Scan} : Alive(u) => owner = u[2]

\* The link is the owner's, and it is down while a disconnect waits for it to be closed.
OwnersLink ==
  /\ link \in {NoDevice, owner}
  /\ \A t \in Task : pc[t] = "off" => link = NoDevice

\* A device is polled only while it is the connected one.
PollConnected == \A d \in Devices : Alive(Poll(d)) => connected = d

DownFree == phase = "down" => owner = NoDevice /\ connected = NoDevice /\ link = NoDevice

OwnerInv == OwnersWork /\ OwnersLink /\ PollConnected /\ DownFree

\* A disconnect that ends is the last task of its device.
LEMMA DisconnectLast ==
  ASSUME LockInv, PlainInv, AloneInv, OwnerInv, NEW d \in Devices,
         pc[Unlink(d)] \in {"teardown", "lockOff", "off"}
  PROVE  owner = d /\ \A u \in Task \ {Loop, Scan} : Alive(u) => u = Unlink(d)
<1>0. OwnersWork /\ OneRequest /\ NoDeletion /\ DisconnectsAlone
  BY DEF PlainInv, AloneInv, OwnerInv
<1>1. Alive(Unlink(d)) /\ Unlink(d) \notin {Loop, Scan}
  BY AloneNames, TaskKinds DEF Alive
<1>2. owner = d
  BY <1>0, <1>1, AloneNames DEF OwnersWork
<1> SUFFICES ASSUME NEW u \in Task \ {Loop, Scan}, Alive(u) PROVE u = Unlink(d)
  BY <1>2
<1>3. u[2] = d
  BY <1>0, <1>2 DEF OwnersWork
<1>4. pc[Recover(d)] = "idle" /\ pc[Poll(d)] = "idle" /\ pc[Deletion(d)] = "idle"
  BY <1>0 DEF DisconnectsAlone, NoDeletion, Alive, Unlink
<1>5. u \in Requested
  BY <1>3, <1>4, TaskKinds DEF Alive
<1> QED BY <1>0, <1>1, <1>3, <1>5, AloneNames DEF OneRequest

LEMMA OwnerEffect ==
  ASSUME LockInv, PlainInv, AloneInv, OwnerInv, NEW t \in Task, Effect(t)
  PROVE  OwnerInv'
<1>0. /\ TypeOK /\ Roles /\ OwnersWork /\ OwnersLink /\ PollConnected /\ DownFree /\ Alive(t)
      /\ DownIdle /\ NoDeletion /\ LockOrder
  BY DEF LockInv, PlainInv, AloneInv, OwnerInv, Effect
<1>1. t[1] # "delete"
  BY <1>0, TaskKinds DEF NoDeletion, Alive
<1>2. t \notin {Loop, Scan} => owner = t[2]
  BY <1>0 DEF OwnersWork
<1>3. t \in {Loop, Scan} => t[1] \notin Connecting \cup Alternating \cup {"poll"}
  BY DEF Loop, Scan, Connecting, Alternating
<1>4. DownFree'
  BY <1>0 DEF DownFree, DownIdle, Effect, Alive
<1>5. CASE Disconnects(t) /\ pc[t] = "off" /\ Stops(t)
  <2>1. t[1] = "disconnect" /\ owner' = NoDevice /\ connected' = NoDevice /\ UNCHANGED link
    BY <1>5 DEF Disconnects, Stops
  <2>2. t = Unlink(t[2]) /\ t[2] \in Devices
    BY <2>1, TaskKinds DEF Unlink, Loop, Scan
  <2>3. \A u \in Task \ {Loop, Scan} : Alive(u) => u = t
    BY <1>5, <2>2, DisconnectLast
  <2>4. \A u \in Task \ {Loop, Scan} : pc'[u] = "idle"
    BY <1>5, <2>3 DEF Stops, Moved, Alive
  <2>5. link' = NoDevice
    BY <1>0, <1>5, <2>1 DEF OwnersLink
  <2>6. \A d \in Devices : Poll(d) \in Task \ {Loop, Scan}
    BY AloneNames, TaskKinds
  <2> QED BY <1>4, <2>1, <2>4, <2>5, <2>6 DEF OwnerInv, OwnersWork, OwnersLink, PollConnected, Alive
<1>6. CASE ~(Disconnects(t) /\ pc[t] = "off" /\ Stops(t))
  <2>1. owner' = owner /\ (connected' = connected \/ (Reads(t) /\ connected' = t[2]))
    BY <1>1, <1>6 DEF Effect, Works, Cancels, Takes, Reads, GivesUp, Stops, Fails, Disconnects,
                      Erases, Rests
  <2>2. /\ link' \in {link, NoDevice} \/ (link' = t[2] /\ t[1] \in Connecting /\ pc[t] = "linking")
        /\ pc'[t] = "off" => link' = NoDevice
    BY DEF Effect, Works, Cancels, Takes, Reads, GivesUp, Stops, Moved, MovedBoth
  <2>3. OwnersWork'
    <3> SUFFICES ASSUME NEW u \in Task \ {Loop, Scan}, pc'[u] # "idle" PROVE owner = u[2]
      BY <2>1 DEF OwnersWork, Alive
    <3>1. pc'[u] # pc[u] => u[2] = t[2] /\ t \notin {Loop, Scan}
      <4>1. \A e : Poll(e)[2] = e /\ Recover(e)[2] = e
        BY TaskKinds
      <4>2. Reads(t) \/ Cancels(t) \/ GivesUp(t) => t \notin {Loop, Scan}
        BY <1>3, TaskKinds DEF Reads, Cancels, GivesUp, Loop, Scan, Requested
      <4> QED BY <4>1, <4>2, EffectPlaces
    <3> QED BY <1>0, <1>2, <3>1 DEF OwnersWork, Alive
  <2>4. OwnersLink'
    <3>1. link' \in {NoDevice, owner}
      BY <1>0, <1>2, <1>3, <2>2 DEF OwnersLink
    <3>2. ASSUME NEW u \in Task, pc'[u] = "off" PROVE link' = NoDevice
      <4>1. CASE u = t
        BY <2>2, <3>2, <4>1
      <4>2. CASE u # t
        <5>1. pc[u] = "off" /\ link = NoDevice
          BY <1>0, <3>2, <4>2, EffectPlaces DEF OwnersLink
        <5>2. pc[t] # "linking"
          BY <1>0, <4>2, <5>1, Exclusive DEF CallsApart, Holding
        <5> QED BY <2>2, <5>1, <5>2
      <4> QED BY <4>1, <4>2
    <3> QED BY <2>1, <3>1, <3>2 DEF OwnersLink
  <2>5. PollConnected'
    <3> SUFFICES ASSUME NEW d \in Devices, pc'[Poll(d)] # "idle" PROVE connected' = d
      BY DEF PollConnected, Alive
    <3>1. Poll(d) \in Task \ {Loop, Scan} /\ Poll(d)[2] = d
      BY AloneNames, TaskKinds
    <3>2. owner = d
      BY <2>1, <2>3, <3>1 DEF OwnersWork, Alive
    <3>3. CASE Reads(t)
      <4>1. t \notin {Loop, Scan} /\ connected' = t[2]
        BY <1>3, <3>3 DEF Reads
      <4> QED BY <1>2, <3>2, <4>1
    <3>4. CASE ~Reads(t)
      <4>1. Alive(Poll(d))
        <5>1. Poll(d) # Recover(t[2])
          BY DEF Poll, Recover
        <5> QED BY <1>0, <3>1, <3>4, <5>1, EffectPlaces DEF Alive
      <4> QED BY <1>0, <2>1, <3>4, <4>1 DEF PollConnected
    <3> QED BY <3>3, <3>4
  <2> QED BY <1>4, <2>3, <2>4, <2>5 DEF OwnerInv
<1> QED BY <1>5, <1>6

\* Steps that make nobody alive.
LEMMA OwnerFrame ==
  ASSUME OwnerInv,
         \A u \in Task \ {Loop, Scan} : pc'[u] # "idle" => pc[u] # "idle",
         \A u \in Task : pc'[u] = "off" => pc[u] = "off",
         UNCHANGED <<owner, connected>>, link' \in {link, NoDevice},
         phase' = "down" => phase = "down"
  PROVE  OwnerInv'
<1>1. OwnersWork'
  BY DEF OwnerInv, OwnersWork, Alive
<1>2. OwnersLink'
  BY DEF OwnerInv, OwnersLink
<1>3. PollConnected'
  <2>1. \A d \in Devices : Poll(d) \in Task \ {Loop, Scan}
    BY AloneNames, TaskKinds
  <2> QED BY <2>1 DEF OwnerInv, PollConnected, Alive
<1>4. DownFree'
  BY DEF OwnerInv, DownFree
<1> QED BY <1>1, <1>2, <1>3, <1>4 DEF OwnerInv

LEMMA OwnerCommand ==
  ASSUME StrayDisconnect = FALSE, LockInv, OwnerInv,
         NEW e \in Devices, NEW a \in Commands[e], Command(e, a)
  PROVE  OwnerInv'
<1> DEFINE y == <<a, e>>
<1>0. TypeOK /\ OwnersWork /\ OwnersLink /\ PollConnected
  BY DEF LockInv, OwnerInv
<1>1. /\ y \in Requested /\ y[2] = e /\ y \in Task
      /\ pc'[y] = "queued" /\ \A u \in Task : u # y => pc'[u] = pc[u]
  BY <1>0, CommandPlaces, TaskNames DEF Moved
<1>2. UNCHANGED <<connected, link, phase>> /\ phase = "up"
  BY DEF Command, Serving
<1>3. owner' = e /\ owner \in {NoDevice, e}
  <2>1. CASE a = "disconnect"
    BY <2>1 DEF Command
  <2>2. CASE a # "disconnect"
    BY <2>2 DEF Command, MayOwn
  <2> QED BY <2>1, <2>2
<1> HIDE DEF y
<1>4. \A u \in Task \ {Loop, Scan} : Alive(u) => u[2] = e
  <2>1. \A u \in Task \ {Loop, Scan} : u[2] \in Devices
    BY TaskKinds
  <2> QED BY <1>0, <1>3, <2>1, NoDeviceAssumption DEF OwnersWork
<1>5. OwnersWork'
  BY <1>1, <1>3, <1>4 DEF OwnersWork, Alive
<1>6. OwnersLink'
  BY <1>0, <1>1, <1>2, <1>3 DEF OwnersLink
<1>7. PollConnected'
  <2>1. \A d \in Devices : Poll(d) \in Task /\ Poll(d) # y
    BY <1>1, AloneNames
  <2> QED BY <1>0, <1>1, <1>2, <2>1 DEF PollConnected, Alive
<1>8. DownFree'
  BY <1>2 DEF DownFree
<1> QED BY <1>5, <1>6, <1>7, <1>8 DEF OwnerInv

LEMMA OwnerRestart ==
  ASSUME LockInv, OwnerInv, Restart
  PROVE  OwnerInv'
<1>0. /\ TypeOK /\ \A u \in Task : pc[u] = "idle"
      /\ owner = NoDevice /\ link = NoDevice /\ UNCHANGED link /\ phase' = "up"
  BY DEF LockInv, OwnerInv, DownIdle, DownFree, Restart
<1>1. \A u \in Task : pc'[u] # "idle" => u = Recover(owner') /\ pc'[u] = "boot"
  <2>1. CASE UNCHANGED pc
    BY <1>0, <2>1
  <2>2. ASSUME NEW d \in Devices, owner' = d, Goto(Recover(d), "boot")
        PROVE  \A u \in Task : pc'[u] # "idle" => u = Recover(owner') /\ pc'[u] = "boot"
    BY <1>0, <2>2 DEF Goto, TypeOK
  <2>3. {d \in registered \cap auto : desired[d] = "connected"} \subseteq Devices
    BY <1>0 DEF TypeOK
  <2> QED BY <2>1, <2>2, <2>3 DEF Restart
<1>2. OwnersWork'
  BY <1>1, TaskKinds DEF OwnersWork, Alive
<1>3. OwnersLink'
  BY <1>0, <1>1 DEF OwnersLink
<1>4. PollConnected'
  <2>1. \A d \in Devices : Poll(d) \in Task /\ Poll(d) # Recover(owner')
    BY AloneNames DEF Poll, Recover
  <2> QED BY <1>1, <2>1 DEF PollConnected, Alive
<1>5. DownFree'
  BY <1>0 DEF DownFree
<1> QED BY <1>2, <1>3, <1>4, <1>5 DEF OwnerInv

LEMMA OwnerNext ==
  ASSUME Deletable = {}, StrayDisconnect = FALSE, LockInv, PlainInv, AloneInv, OwnerInv, [Next]_vars
  PROVE  OwnerInv'
<1>0. TypeOK /\ Roles /\ DownIdle /\ OwnersLink
  BY DEF LockInv, PlainInv, OwnerInv
<1>1. ASSUME NEW t \in Task, Effect(t) PROVE OwnerInv'
  BY <1>1, OwnerEffect
<1>2. ASSUME NEW d \in Devices, Request(d) PROVE OwnerInv'
  <2>1. CASE \E a \in Commands[d] : Command(d, a)
    BY <2>1, OwnerCommand
  <2>2. CASE Patch(d) \/ \E automatic \in BOOLEAN : Register(d, automatic)
    BY <2>2, OwnerFrame DEF Patch, Register, mem
  <2>3. ~Delete(d)
    BY DEF Delete
  <2> QED BY <1>2, <2>1, <2>2, <2>3 DEF Request
<1>3. CASE StartScan \/ LoopWake
  <2>1. /\ UNCHANGED <<owner, connected, link, phase>>
        /\ \A u \in Task : pc'[u] = pc[u] \/ (u \in {Loop, Scan} /\ pc'[u] # "off")
    BY <1>0, <1>3 DEF StartScan, LoopWake, Goto, Acquire, mem, TypeOK
  <2> QED BY <2>1, OwnerFrame
<1>4. CASE LinkLost
  BY <1>4, OwnerFrame DEF LinkLost
<1>5. CASE Crash
  <2>1. /\ \A u \in Task : pc'[u] = "idle"
        /\ owner' = NoDevice /\ connected' = NoDevice /\ link' = NoDevice
    BY <1>5 DEF Crash
  <2> QED BY <2>1, AloneNames DEF OwnerInv, OwnersWork, OwnersLink, PollConnected, DownFree, Alive
<1>6. CASE Restart
  BY <1>6, OwnerRestart
<1>7. ASSUME NEW T, CancelAll(T), phase' # "down" PROVE OwnerInv'
  <2>1. \A u \in Task : pc'[u] \in {pc[u], "idle", "unwind"} /\ (pc[u] = "idle" => pc'[u] = "idle")
    BY <1>0, <1>7, CancelPlaces DEF Undoing
  <2>2. UNCHANGED <<owner, connected, link>>
    BY <1>7 DEF CancelAll, mem
  <2> QED BY <1>7, <2>1, <2>2, OwnerFrame
<1>8. CASE CloseAdapter
  BY <1>8, OwnerFrame DEF CloseAdapter
<1>9. CASE Close \/ CloseStep
  BY <1>7, <1>8, <1>9 DEF Close, CloseStep, CloseOperations, CloseRecoveries, ClosePolls
<1>10. CASE UNCHANGED vars
  BY <1>10, OwnerFrame DEF vars, mem
<1> QED BY <1>0, <1>1, <1>2, <1>3, <1>4, <1>5, <1>6, <1>9, <1>10, StepCases DEF Outside

\* If, further, only the owner is disconnected: every task of a device is one of the owner's, the
\* link is the owner's, and a device is polled only while it is the connected one (service.py,
\* _owner and _connected_device).
THEOREM OwnerInvariant == Deletable = {} /\ StrayDisconnect = FALSE => (Spec => []OwnerInv)
<1> SUFFICES ASSUME Deletable = {}, StrayDisconnect = FALSE PROVE Spec => []OwnerInv
  OBVIOUS
<1>1. Init => OwnerInv
  <2> SUFFICES ASSUME Init PROVE OwnerInv
    OBVIOUS
  <2>1. /\ \A u \in Task : pc[u] = "idle"
        /\ owner = NoDevice /\ connected = NoDevice /\ link = NoDevice
    BY DEF Init
  <2> QED BY <2>1, AloneNames DEF OwnerInv, OwnersWork, OwnersLink, PollConnected, DownFree, Alive
<1>2. LockInv /\ PlainInv /\ AloneInv /\ OwnerInv /\ [Next]_vars => OwnerInv'
  BY OwnerNext
<1> QED BY <1>1, <1>2, LockInvariant, PlainInvariant, AloneInvariant, PTL DEF Spec

\* Recovery, polling and connecting happen only for the device that owns the adapter, and the link
\* is its own, if nothing is deleted and only the owner is disconnected (service.py, _owner).
THEOREM OwnerActsAlone == Deletable = {} /\ StrayDisconnect = FALSE => (Spec => []OwnerActs)
<1>1. OwnerInv => OwnerActs
  <2> SUFFICES ASSUME OwnerInv PROVE OwnerActs
    OBVIOUS
  <2>1. link \in {NoDevice, owner}
    BY DEF OwnerInv, OwnersLink
  <2>2. ASSUME NEW d \in Devices, Alive(Recover(d)) \/ Alive(Poll(d)) \/ Busy(d) PROVE owner = d
    <3>1. PICK u \in Task \ {Loop, Scan} : Alive(u) /\ u[2] = d
      BY <2>2, AloneNames, TaskNames, TaskKinds DEF Busy
    <3> QED BY <3>1 DEF OwnerInv, OwnersWork
  <2> QED BY <2>1, <2>2 DEF OwnerActs
<1> QED BY <1>1, OwnerInvariant, PTL

\* No task reads a client that is connected to another device than its own, if nothing is deleted
\* and only the owner is disconnected (docs/api.md:56).
THEOREM TelemetryAttributed == Deletable = {} /\ StrayDisconnect = FALSE => (Spec => []TelemetryAttribution)
<1>1. PlainInv /\ OwnerInv => TelemetryAttribution
  <2> SUFFICES ASSUME PlainInv, OwnerInv, NEW t \in Task, pc[t] = "read" PROVE link \in {NoDevice, t[2]}
    BY DEF TelemetryAttribution
  <2>1. t \notin {Loop, Scan}
    BY DEF PlainInv, Roles, RoleOK
  <2>2. owner = t[2]
    BY <2>1 DEF OwnerInv, OwnersWork, Alive
  <2> QED BY <2>2 DEF OwnerInv, OwnersLink
<1> QED BY <1>1, PlainInvariant, OwnerInvariant, PTL

(***************************************************************************)
(* Nobody is forgotten, as long as nothing is deleted, only the owner is   *)
(* disconnected and devices are connected by reconnect or by recovery: a   *)
(* connect may find the link up and end without a polling task.            *)
(***************************************************************************)
Reported == {"polling", "degraded"}   \* what only a polling task writes

Tended(d) == Alive(Poll(d)) \/ Alive(Recover(d)) \/ Busy(d)

NoConnect == \A t \in Requested : t[1] = "connect" => pc[t] = "idle"

\* Only recoveries are cancelled while the service is up.
Upright == phase = "up" => \A t \in Requested : pc[t] # "unwind"

\* A recovery that may find that it is not wanted leaves nobody's readings behind.
HonestRecovery ==
  phase = "up" =>
    \A d \in registered :
      pc[Recover(d)] \in {"boot", "check"} => Alive(Poll(d)) \/ Busy(d) \/ observed[d] \notin Reported

HonestInv == NoConnect /\ Upright /\ HonestRecovery /\ ObservedHonest

LEMMA DeviceTasks ==
  \A d \in Devices, u \in Task : u[2] = d /\ u[1] # "delete" =>
    u \in Requested \/ u = Recover(d) \/ u = Poll(d)
<1> TAKE d \in Devices, u \in Task
<1> HAVE u[2] = d /\ u[1] # "delete"
<1>1. u \notin {Loop, Scan}
  BY NoDeviceAssumption DEF Loop, Scan
<1> QED BY <1>1, TaskKinds

\* A device's tasks are its polling task, its recovery, its requested operations and its deletion.
LEMMA TendedBy ==
  \A d \in Devices : Tended(d) <=> \E u \in Task : Alive(u) /\ u[2] = d /\ u[1] # "delete"
<1> TAKE d \in Devices
<1>1. ASSUME Tended(d) PROVE \E u \in Task : Alive(u) /\ u[2] = d /\ u[1] # "delete"
  <2>a. /\ Poll(d) \in Task /\ Poll(d)[1] = "poll" /\ Poll(d)[2] = d
        /\ Recover(d) \in Task /\ Recover(d)[1] = "recover" /\ Recover(d)[2] = d
    BY TaskNames, TaskKinds
  <2>1. CASE Alive(Poll(d)) \/ Alive(Recover(d))
    BY <2>1, <2>a
  <2>2. CASE Busy(d)
    <3>1. PICK u \in Requested : u[2] = d /\ Alive(u)
      BY <2>2 DEF Busy
    <3> QED BY <3>1, TaskNames, TaskKinds
  <2> QED BY <1>1, <2>1, <2>2 DEF Tended
<1>2. ASSUME NEW u \in Task, Alive(u), u[2] = d, u[1] # "delete" PROVE Tended(d)
  <2>2. u \in Requested \/ u = Recover(d) \/ u = Poll(d)
    BY <1>2, DeviceTasks
  <2> QED BY <1>2, <2>2 DEF Tended, Busy
<1> QED BY <1>1, <1>2

LEMMA TendedElsewhere ==
  ASSUME TypeOK, NEW t \in Task, Effect(t), NEW d \in Devices, t[2] # d
  PROVE  /\ \A u \in Task : u[2] = d => pc'[u] = pc[u]
         /\ observed'[d] = observed[d] /\ desired'[d] = desired[d]
         /\ d \in registered' => d \in registered
<1>1. \A u \in Task : u[2] = d => pc'[u] = pc[u]
  <2>1. Poll(t[2])[2] = t[2] /\ Recover(t[2])[2] = t[2]
    BY TaskKinds
  <2> QED BY <2>1, EffectPlaces
<1>2. \/ observed'[d] = observed[d]
      \/ \E v : observed' = Written(observed, t[2], v)
  BY DEF Effect, Works, Cancels, Takes, Reads, GivesUp, Stops, Fails, Disconnects, Erases, Rests, rows
<1>3. observed'[d] = observed[d]
  BY <1>2 DEF Written, TypeOK
<1>4. d \in registered' => d \in registered
  BY DEF Effect, Works, Cancels, Takes, Reads, GivesUp, Stops, Fails, Disconnects, Erases, Rests, rows
<1> QED BY <1>1, <1>3, <1>4, EffectElsewhere

\* A task that ends with nothing left to do is a recovery.
LEMMA RestsRecovery ==
  ASSUME LockInv, PlainInv, AloneInv, OwnerInv, HonestInv, phase = "up",
         NEW t \in Task, Alive(t), t[2] \in registered, Rests(t)
  PROVE  /\ t = Recover(t[2]) /\ UNCHANGED <<observed, desired>>
         /\ pc[t] = "unwind" \/ (pc[t] \in {"boot", "check"} /\ ~Wanted(t[2]))
<1>1. t[2] \in Devices /\ NoDeletion /\ Roles
  BY DEF LockInv, TypeOK, AloneInv, PlainInv
<1>2. t \notin {Loop, Scan}
  BY <1>1, NoDeviceAssumption DEF Loop, Scan
<1>3. t[1] # "delete" /\ t[1] # "connect"
  BY <1>1, <1>2, TaskKinds DEF NoDeletion, HonestInv, NoConnect, Alive
<1>4. t[1] # "poll" \/ connected = t[2]
  <2>1. t[1] = "poll" => t = Poll(t[2])
    BY TaskKinds
  <2> QED BY <1>1, <2>1 DEF OwnerInv, PollConnected
<1>5. UNCHANGED <<observed, desired>>
  BY <1>4 DEF Rests
<1>6. \/ pc[t] = "unwind"
      \/ t[1] = "recover" /\ pc[t] \in {"boot", "check"} /\ ~Wanted(t[2])
  BY <1>2, <1>3, <1>4 DEF Rests
<1>7. pc[t] = "unwind" => t[1] = "recover"
  <2>1. pc[t] = "unwind" => t \notin Requested
    BY DEF HonestInv, Upright
  <2>2. pc[t] = "unwind" => t[1] # "poll"
    BY <1>1 DEF Roles, RoleOK
  <2> QED BY <1>2, <1>3, <2>1, <2>2, TaskKinds
<1> QED BY <1>5, <1>6, <1>7, TaskKinds

\* When the last task of a device ends, the device is not said to be read, and it is not to be
\* recovered.
LEMMA LastTask ==
  ASSUME LockInv, PlainInv, AloneInv, OwnerInv, HonestInv, phase = "up",
         NEW t \in Task, Effect(t), t[2] \in registered, Stops(t)
  PROVE  \/ \E u \in Task : pc'[u] # "idle" /\ u[2] = t[2] /\ u[1] # "delete"
         \/ observed'[t[2]] \notin Reported /\ (desired'[t[2]] = "disconnected" \/ t[2] \notin auto)
<1> DEFINE d == t[2]
<1>0. /\ TypeOK /\ Alive(t) /\ d \in registered /\ d \in Devices /\ NoDeletion /\ Roles
      /\ desired[d] \in {"connected", "disconnected"}
  BY DEF LockInv, PlainInv, AloneInv, Effect, TypeOK
<1>1. t[1] # "delete"
  BY <1>0, TaskKinds DEF NoDeletion, Alive
<1>2. \A u \in Task : u # t => pc'[u] = pc[u]
  BY DEF Stops, Moved
<1>3. ASSUME ~Wanted(d) PROVE desired[d] = "disconnected" \/ d \notin auto
  BY <1>0, <1>3 DEF Wanted
<1> HIDE DEF d
<1>4. CASE Fails(t)
  <2>1. observed'[d] = "backoff" /\ UNCHANGED desired
    BY <1>0, <1>4 DEF Fails, Written, TypeOK, d
  <2>2. CASE ~Wanted(d)
    BY <1>3, <2>1, <2>2 DEF Reported, d
  <2>3. CASE Recovering(d)
    <3>1. Recover(d) \in Task /\ Recover(d)[2] = d /\ Recover(d)[1] = "recover"
      BY <1>0, TaskNames, TaskKinds
    <3>2. Recover(d) # t /\ pc[Recover(d)] # "idle"
      BY <1>4, <2>3, <3>1 DEF Fails, Recovering
    <3> QED BY <1>2, <3>1, <3>2 DEF d
  <2> QED BY <1>4, <2>2, <2>3 DEF Fails, d
<1>5. CASE Disconnects(t)
  <2>1. observed'[d] = "disconnected" /\ desired'[d] = "disconnected"
    BY <1>0, <1>5 DEF Disconnects, Written, TypeOK, d
  <2> QED BY <2>1 DEF Reported, d
<1>6. CASE Rests(t)
  <2>1. /\ t = Recover(d) /\ t[1] = "recover" /\ UNCHANGED <<observed, desired>>
        /\ pc[t] = "unwind" \/ (pc[t] \in {"boot", "check"} /\ ~Wanted(d))
    BY <1>0, <1>6, RestsRecovery, TaskKinds DEF d
  <2>3. CASE pc[t] = "unwind"
    <3>2. PICK u \in Requested : u[2] = d /\ pc[u] = "stopRec"
      BY <1>0, <2>1, <2>3 DEF AloneInv, UnwindOwned
    <3>3. u \in Task /\ u # t /\ u[1] # "delete"
      BY <2>3, <3>2, TaskNames, TaskKinds
    <3> QED BY <1>2, <3>2, <3>3 DEF d
  <2>4. CASE pc[t] \in {"boot", "check"} /\ ~Wanted(d)
    <3>1. t = Recover(d)
      BY <2>1
    <3>2. Alive(Poll(d)) \/ Busy(d) \/ observed[d] \notin Reported
      BY <1>0, <2>4, <3>1 DEF HonestInv, HonestRecovery
    <3>3. CASE Alive(Poll(d))
      <4>1. Poll(d) \in Task /\ Poll(d) # t /\ Poll(d)[2] = d /\ Poll(d)[1] = "poll"
        BY <1>0, <3>1, TaskNames, AloneNames, TaskKinds
      <4> QED BY <1>2, <3>3, <4>1 DEF Alive, d
    <3>4. CASE Busy(d)
      <4>1. PICK u \in Requested : u[2] = d /\ Alive(u)
        BY <3>4 DEF Busy
      <4>2. u \in Task /\ u # t /\ u[1] # "delete"
        BY <2>1, <4>1, TaskNames, TaskKinds
      <4> QED BY <1>2, <4>1, <4>2 DEF Alive, d
    <3>5. CASE observed[d] \notin Reported
      BY <1>3, <2>1, <2>4, <3>5 DEF d
    <3> QED BY <3>2, <3>3, <3>4, <3>5
  <2> QED BY <2>1, <2>3, <2>4
<1> QED BY <1>1, <1>4, <1>5, <1>6 DEF Stops, Erases

LEMMA StillTended ==
  ASSUME LockInv, PlainInv, AloneInv, OwnerInv, HonestInv, phase = "up",
         NEW t \in Task, Effect(t), t[2] \in registered
  PROVE  \/ \E u \in Task : pc'[u] # "idle" /\ u[2] = t[2] /\ u[1] # "delete"
         \/ observed'[t[2]] \notin Reported /\ (desired'[t[2]] = "disconnected" \/ t[2] \notin auto)
<1>1. Alive(t) /\ t[2] \in Devices /\ NoDeletion
  BY DEF LockInv, TypeOK, Effect, AloneInv
<1>2. t[1] # "delete"
  BY <1>1, TaskKinds DEF NoDeletion, Alive
<1>3. CASE (\E place \in Places : Works(t, place)) \/ Cancels(t) \/ Takes(t)
  <2>1. pc'[t] # "idle"
    BY <1>3 DEF Works, Cancels, Takes, Moved, MovedBoth
  <2> QED BY <1>2, <2>1
<1>4. CASE Reads(t)
  <2>1. /\ Poll(t[2]) \in Task /\ Poll(t[2])[1] = "poll" /\ Poll(t[2])[2] = t[2]
    BY <1>1, TaskNames, TaskKinds
  <2>2. t # Poll(t[2])
    BY <1>4, <2>1 DEF Reads, Connecting
  <2>3. pc'[Poll(t[2])] = "sleep"
    BY <1>4, <2>1, <2>2 DEF Reads, MovedBoth
  <2> QED BY <2>1, <2>3
<1>5. CASE GivesUp(t)
  <2>1. /\ Recover(t[2]) \in Task /\ Recover(t[2])[1] = "recover" /\ Recover(t[2])[2] = t[2]
    BY <1>1, TaskNames, TaskKinds
  <2>2. t # Recover(t[2])
    BY <1>5, <2>1 DEF GivesUp
  <2>3. pc'[Recover(t[2])] = "check"
    BY <1>5, <2>1, <2>2 DEF GivesUp, MovedBoth
  <2> QED BY <2>1, <2>3
<1>6. CASE Stops(t)
  BY <1>6, LastTask
<1> QED BY <1>3, <1>4, <1>5, <1>6 DEF Effect

\* What a task's step keeps of HonestInv.
LEMMA HonestDevice ==
  ASSUME LockInv, PlainInv, AloneInv, OwnerInv, HonestInv, NEW t \in Task, Effect(t),
         phase = "up", NEW d \in registered'
  PROVE  /\ observed'[d] \in Reported =>
              \E u \in Task : pc'[u] # "idle" /\ u[2] = d /\ u[1] # "delete"
         /\ pc'[Recover(d)] \in {"boot", "check"} /\ observed'[d] \in Reported =>
              \E u \in Task \ {Recover(d)} : pc'[u] # "idle" /\ u[2] = d /\ u[1] # "delete"
<1>0. TypeOK /\ Alive(t) /\ NoDeletion /\ HonestRecovery /\ ObservedHonest /\ Upright
  BY DEF LockInv, AloneInv, HonestInv, Effect
<1>2. d \in registered /\ d \in Devices
  <2>1. registered' \subseteq registered
    BY DEF Effect, Works, Cancels, Takes, Reads, GivesUp, Stops, Fails, Disconnects, Erases, Rests, rows
  <2> QED BY <1>0, <2>1 DEF TypeOK
<1>a. /\ observed[d] \in Reported => \E u \in Task : pc[u] # "idle" /\ u[2] = d /\ u[1] # "delete"
      /\ pc[Recover(d)] \in {"boot", "check"} /\ observed[d] \in Reported =>
           \E u \in Task \ {Recover(d)} : pc[u] # "idle" /\ u[2] = d /\ u[1] # "delete"
  <2>1. observed[d] \in Reported => Tended(d)
    BY <1>0, <1>2 DEF ObservedHonest, Tended, Reported
  <2>2. ASSUME pc[Recover(d)] \in {"boot", "check"}, observed[d] \in Reported
        PROVE  \E u \in Task \ {Recover(d)} : pc[u] # "idle" /\ u[2] = d /\ u[1] # "delete"
    <3>1. CASE Alive(Poll(d))
      <4>1. Poll(d) \in Task \ {Recover(d)} /\ Poll(d)[1] = "poll" /\ Poll(d)[2] = d
        BY <1>2, TaskNames, TaskKinds, AloneNames
      <4> QED BY <3>1, <4>1 DEF Alive
    <3>2. CASE Busy(d)
      <4>1. PICK u \in Requested : u[2] = d /\ Alive(u)
        BY <3>2 DEF Busy
      <4>2. u \in Task \ {Recover(d)} /\ u[1] # "delete"
        BY <1>2, <4>1, TaskNames, TaskKinds, AloneNames
      <4> QED BY <4>1, <4>2 DEF Alive
    <3> QED BY <1>0, <1>2, <2>2, <3>1, <3>2 DEF HonestRecovery
  <2> QED BY <1>2, <2>1, <2>2, TendedBy DEF Alive
<1>3. CASE t[2] # d
  <2>1. Recover(d) \in Task /\ Recover(d)[2] = d
    BY <1>2, TaskNames, TaskKinds
  <2> QED BY <1>0, <1>2, <1>3, <1>a, <2>1, TendedElsewhere
<1>4. CASE t[2] = d
  <2>1. observed'[d] \in Reported => \E u \in Task : pc'[u] # "idle" /\ u[2] = d /\ u[1] # "delete"
    BY <1>2, <1>4, StillTended
  <2>2. ASSUME pc'[Recover(d)] \in {"boot", "check"}, observed'[d] \in Reported
        PROVE  \E u \in Task \ {Recover(d)} : pc'[u] # "idle" /\ u[2] = d /\ u[1] # "delete"
    <3>1. Recover(d) \in Task /\ Recover(d)[1] = "recover" /\ Recover(d)[2] = d
      BY <1>2, TaskNames, TaskKinds
    <3>2. CASE t = Recover(d)
      <4>1. \E place \in {"boot", "check"} : Works(t, place)
        BY <2>2, <3>1, <3>2 DEF Effect, Works, Cancels, Takes, Reads, GivesUp, Stops, Moved, MovedBoth
      <4>2. observed'[d] = "backoff"
        BY <1>2, <1>4, <4>1 DEF Works
      <4> QED BY <2>2, <4>2 DEF Reported
    <3>3. CASE t # Recover(d) /\ pc'[t] # "idle"
      <4>1. t[1] # "delete"
        BY <1>0, TaskKinds, <1>2, <1>4 DEF NoDeletion, Alive
      <4> QED BY <1>4, <3>3, <4>1
    <3>4. CASE t # Recover(d) /\ pc'[t] = "idle"
      <4>1. Reads(t) \/ GivesUp(t) \/ Stops(t)
        BY <3>4 DEF Effect, Works, Cancels, Takes, Moved, MovedBoth
      <4>2. CASE Reads(t)
        <5>1. Poll(d) \in Task \ {Recover(d)} /\ Poll(d)[1] = "poll" /\ Poll(d)[2] = d /\ t # Poll(d)
          BY <1>2, <4>2, TaskNames, TaskKinds, AloneNames DEF Reads, Connecting
        <5>2. pc'[Poll(d)] = "sleep"
          BY <1>4, <4>2, <5>1 DEF Reads, MovedBoth
        <5> QED BY <5>1, <5>2
      <4>3. CASE GivesUp(t)
        <5>1. observed'[d] = "backoff"
          BY <1>0, <1>2, <1>4, <4>3 DEF GivesUp, Written, TypeOK
        <5> QED BY <2>2, <5>1 DEF Reported
      <4>4. CASE Stops(t)
        <5>2. ~Fails(t)
          BY <1>0, <1>2, <1>4, <2>2, WrittenBackoff DEF Fails, Reported
        <5>3. ~Disconnects(t)
          BY <1>0, <1>2, <1>4, <2>2 DEF Disconnects, Reported, Written, TypeOK
        <5>4. ~Erases(t)
          BY <1>0, <1>2, <1>4, TaskKinds DEF Erases, NoDeletion, Alive
        <5> QED BY <1>0, <1>2, <1>4, <3>4, <4>4, <5>2, <5>3, <5>4, RestsRecovery DEF Stops
      <4> QED BY <4>1, <4>2, <4>3, <4>4
    <3> QED BY <3>2, <3>3, <3>4
  <2> QED BY <2>1, <2>2
<1> QED BY <1>3, <1>4

LEMMA HonestEffect ==
  ASSUME LockInv, PlainInv, AloneInv, OwnerInv, HonestInv, NEW t \in Task, Effect(t)
  PROVE  HonestRecovery' /\ ObservedHonest' /\ Upright'
<1>0. TypeOK /\ phase' = phase /\ Upright
  BY DEF LockInv, HonestInv, Effect
<1>1. Upright'
  <2> SUFFICES ASSUME phase = "up", NEW u \in Requested PROVE pc'[u] # "unwind"
    BY <1>0 DEF Upright
  <2>1. u \in Task /\ u[1] \notin {"poll", "recover"} /\ pc[u] # "unwind"
    BY <1>0, TaskNames, TaskKinds DEF Upright
  <2>2. pc'[t] # "unwind"
    BY DEF Effect, Works, Cancels, Takes, Reads, GivesUp, Stops, Moved, MovedBoth
  <2> QED BY <2>1, <2>2, EffectPlaces, TaskKinds
<1>2. registered' \subseteq Devices
  <2>1. registered' \subseteq registered
    BY DEF Effect, Works, Cancels, Takes, Reads, GivesUp, Stops, Fails, Disconnects, Erases, Rests, rows
  <2> QED BY <1>0, <2>1 DEF TypeOK
<1>3. ASSUME NEW d \in registered', NEW u \in Task, pc'[u] # "idle", u[2] = d, u[1] # "delete"
      PROVE  pc'[Poll(d)] # "idle" \/ u = Recover(d) \/ Busy(d)'
  <2>1. u \in Requested \/ u = Recover(d) \/ u = Poll(d)
    BY <1>2, <1>3, DeviceTasks
  <2> QED BY <1>3, <2>1 DEF Busy, Alive
<1>4. ObservedHonest'
  <2> SUFFICES ASSUME phase = "up", NEW d \in registered', observed'[d] \in Reported
               PROVE  pc'[Poll(d)] # "idle" \/ pc'[Recover(d)] # "idle" \/ Busy(d)'
    BY <1>0 DEF ObservedHonest, Reported, Alive
  <2>1. PICK u \in Task : pc'[u] # "idle" /\ u[2] = d /\ u[1] # "delete"
    BY HonestDevice
  <2> QED BY <1>3, <2>1
<1>5. HonestRecovery'
  <2> SUFFICES ASSUME phase = "up", NEW d \in registered', observed'[d] \in Reported,
                      pc'[Recover(d)] \in {"boot", "check"}
               PROVE  pc'[Poll(d)] # "idle" \/ Busy(d)'
    BY <1>0 DEF HonestRecovery, Alive
  <2>1. PICK u \in Task \ {Recover(d)} : pc'[u] # "idle" /\ u[2] = d /\ u[1] # "delete"
    BY HonestDevice
  <2> QED BY <1>3, <2>1
<1> QED BY <1>1, <1>4, <1>5

OnlyReconnects == \A d \in Devices : "connect" \notin Commands[d]

LEMMA NoConnectStep ==
  ASSUME OnlyReconnects, LockInv, PlainInv, NoConnect, [Next]_vars
  PROVE  NoConnect'
<1>0. TypeOK /\ Requested \subseteq Task
  BY TaskNames DEF LockInv
<1>1. CASE \A u \in Requested : pc[u] = "idle" => pc'[u] = "idle"
  BY <1>1 DEF NoConnect
<1>2. ASSUME NEW d \in Devices, NEW a \in Commands[d], Command(d, a) PROVE NoConnect'
  <2>1. Moved(<<a, d>>, "queued") /\ <<a, d>>[1] # "connect"
    BY <1>0, <1>2, CommandPlaces DEF OnlyReconnects
  <2> QED BY <1>0, <2>1 DEF NoConnect, Moved
<1> QED BY <1>1, <1>2, RequestedStep

\* Steps after which whoever works for a registered device still does, at the same place.
LEMMA HonestFrame ==
  ASSUME TypeOK, HonestInv, NoConnect',
         \A u \in Task \ {Loop, Scan} : pc'[u] = pc[u] \/ pc'[u] = "queued",
         \A d \in registered' : (observed'[d] = observed[d] /\ d \in registered) \/ observed'[d] \notin Reported,
         phase' = "up" => phase = "up", registered' \subseteq Devices
  PROVE  HonestInv'
<1>1. \A d \in Devices :
        /\ pc'[Poll(d)] = pc[Poll(d)] \/ pc'[Poll(d)] = "queued"
        /\ pc'[Recover(d)] = pc[Recover(d)] \/ pc'[Recover(d)] = "queued"
        /\ Busy(d) => Busy(d)'
  <2> TAKE d \in Devices
  <2>1. Poll(d) \in Task \ {Loop, Scan} /\ Recover(d) \in Task \ {Loop, Scan}
    BY TaskNames, TaskKinds
  <2>2. \A u \in Requested : u \in Task \ {Loop, Scan}
    BY TaskNames, TaskKinds
  <2> QED BY <2>1, <2>2 DEF Busy, Alive
<1>2. Upright'
  <2>1. \A u \in Requested : pc'[u] = pc[u] \/ pc'[u] = "queued"
    BY TaskNames, TaskKinds
  <2> QED BY <2>1 DEF HonestInv, Upright
<1>3. ASSUME NEW d \in registered', observed'[d] \in Reported
      PROVE  d \in registered /\ d \in Devices /\ observed[d] \in Reported
  BY <1>3
<1>4. ObservedHonest'
  <2> SUFFICES ASSUME phase' = "up", NEW d \in registered', observed'[d] \in Reported
               PROVE  pc'[Poll(d)] # "idle" \/ pc'[Recover(d)] # "idle" \/ Busy(d)'
    BY DEF ObservedHonest, Reported, Alive
  <2>1. pc[Poll(d)] # "idle" \/ pc[Recover(d)] # "idle" \/ Busy(d)
    BY <1>3 DEF HonestInv, ObservedHonest, Reported, Alive
  <2> QED BY <1>1, <1>3, <2>1
<1>5. HonestRecovery'
  <2> SUFFICES ASSUME phase' = "up", NEW d \in registered', observed'[d] \in Reported,
                      pc'[Recover(d)] \in {"boot", "check"}
               PROVE  pc'[Poll(d)] # "idle" \/ Busy(d)'
    BY DEF HonestRecovery, Alive
  <2>1. pc[Recover(d)] \in {"boot", "check"}
    BY <1>1, <1>3
  <2>2. pc[Poll(d)] # "idle" \/ Busy(d)
    BY <1>3, <2>1 DEF HonestInv, HonestRecovery, Alive
  <2> QED BY <1>1, <1>3, <2>2
<1> QED BY <1>2, <1>4, <1>5 DEF HonestInv

LEMMA HonestNext ==
  ASSUME Deletable = {}, OnlyReconnects, LockInv, PlainInv, AloneInv, OwnerInv, HonestInv, [Next]_vars
  PROVE  HonestInv'
<1>0. TypeOK /\ Roles /\ DownIdle /\ NoConnect' /\ NoConnect
  BY NoConnectStep DEF LockInv, PlainInv, HonestInv
<1>1. ASSUME NEW t \in Task, Effect(t) PROVE HonestInv'
  BY <1>0, <1>1, HonestEffect DEF HonestInv
<1>2. ASSUME phase' # "up" PROVE HonestInv'
  BY <1>0, <1>2 DEF HonestInv, Upright, HonestRecovery, ObservedHonest
<1>3. ASSUME NEW d \in Devices, Request(d) PROVE HonestInv'
  <2>1. phase = "up" /\ phase' = "up"
    BY <1>3 DEF Request, Register, Command, Patch, Delete, Serving
  <2>2. CASE \E automatic \in BOOLEAN : Register(d, automatic)
    <3>1. /\ UNCHANGED pc /\ registered' = registered \cup {d}
          /\ observed' = [observed EXCEPT ![d] = "discovered"]
      BY <2>2 DEF Register
    <3>2. registered' \subseteq Devices
      BY <1>0, <3>1 DEF TypeOK
    <3>3. \A e \in registered' : (observed'[e] = observed[e] /\ e \in registered) \/ observed'[e] \notin Reported
      BY <1>0, <3>1 DEF TypeOK, Reported
    <3> QED BY <1>0, <2>1, <3>1, <3>2, <3>3, HonestFrame
  <2>3. CASE Patch(d)
    BY <1>0, <2>1, <2>3, HonestFrame DEF Patch, TypeOK
  <2>4. ASSUME NEW a \in Commands[d], Command(d, a) PROVE HonestInv'
    <3>1. \A u \in Task : pc'[u] = pc[u] \/ pc'[u] = "queued"
      BY <1>0, <2>4, CommandPlaces DEF Moved
    <3>2. UNCHANGED <<registered, observed>>
      BY <2>4 DEF Command
    <3> QED BY <1>0, <2>1, <3>1, <3>2, HonestFrame DEF TypeOK
  <2>5. ~Delete(d)
    BY DEF Delete
  <2> QED BY <1>3, <2>2, <2>3, <2>4, <2>5 DEF Request
<1>4. CASE StartScan \/ LoopWake
  <2>1. /\ UNCHANGED <<registered, observed, phase>>
        /\ \A u \in Task \ {Loop, Scan} : pc'[u] = pc[u]
    BY <1>0, <1>4 DEF StartScan, LoopWake, Goto, Acquire, rows, TypeOK
  <2> QED BY <1>0, <2>1, HonestFrame DEF TypeOK
<1>5. CASE LinkLost
  BY <1>0, <1>5, HonestFrame DEF LinkLost, rows, TypeOK
<1>6. CASE Restart
  <2>1. \A e \in registered' : observed'[e] \notin Reported
    BY <1>0, <1>6 DEF Restart, Rebooted, Reported, TypeOK
  <2>2. \A u \in Task : pc'[u] # "unwind"
    BY <1>0, <1>6 DEF Restart, Goto, DownIdle, TypeOK
  <2> QED BY <1>0, <2>1, <2>2, TaskNames DEF HonestInv, Upright, HonestRecovery, ObservedHonest, Reported
<1>7. CASE Crash \/ Close \/ CloseStep
  <2>1. phase' # "up"
    BY <1>7 DEF Crash, Close, CloseStep, CloseOperations, CloseRecoveries, ClosePolls, CloseAdapter
  <2> QED BY <1>2, <2>1
<1>8. CASE UNCHANGED vars
  BY <1>0, <1>8, HonestFrame DEF vars, rows, TypeOK
<1> QED BY <1>0, <1>1, <1>3, <1>4, <1>5, <1>6, <1>7, <1>8, StepCases DEF Outside

\* If, further, devices are reconnected and never connected: no requested operation unwinds while
\* the service is up, and a recovery that may find it is not wanted leaves nobody's readings
\* reported (service.py, _recover).
THEOREM HonestInvariant ==
  Deletable = {} /\ StrayDisconnect = FALSE /\ OnlyReconnects => (Spec => []HonestInv)
<1> SUFFICES ASSUME Deletable = {}, StrayDisconnect = FALSE, OnlyReconnects PROVE Spec => []HonestInv
  OBVIOUS
<1>1. Init => HonestInv
  <2> SUFFICES ASSUME Init PROVE HonestInv
    OBVIOUS
  <2>1. (\A u \in Task : pc[u] = "idle") /\ phase = "down"
    BY DEF Init
  <2> QED BY <2>1, TaskNames DEF HonestInv, NoConnect, Upright, HonestRecovery, ObservedHonest
<1>2. LockInv /\ PlainInv /\ AloneInv /\ OwnerInv /\ HonestInv /\ [Next]_vars => HonestInv'
  BY HonestNext
<1> QED BY <1>1, <1>2, LockInvariant, PlainInvariant, AloneInvariant, OwnerInvariant, PTL DEF Spec

\* A device reported as polling or degraded has somebody reading it or renewing its link, if
\* nothing is deleted, only the owner is disconnected and no device is connected by connect
\* (service.py, the writes of observed_state).
THEOREM ObservedIsHonest ==
  Deletable = {} /\ StrayDisconnect = FALSE /\ OnlyReconnects => (Spec => []ObservedHonest)
<1>1. HonestInv => ObservedHonest
  BY DEF HonestInv
<1> QED BY <1>1, HonestInvariant, PTL

(***************************************************************************)
(* A device that should be connected is looked after, if automatic         *)
(* reconnection is not switched while its device is registered.            *)
(***************************************************************************)
LookedAfter ==
  phase = "up" =>
    \A d \in registered \cap auto : owner = d /\ desired[d] = "connected" => Tended(d)

LEMMA LookedAfterFrame ==
  ASSUME TypeOK, LookedAfter,
         \A u \in Task \ {Loop, Scan} : pc'[u] = pc[u],
         UNCHANGED <<rows, owner>>, phase' = "up" => phase = "up"
  PROVE  LookedAfter'
<1>1. \A d \in Devices : Tended(d) => Tended(d)'
  <2> TAKE d \in Devices
  <2>1. Poll(d) \in Task \ {Loop, Scan} /\ Recover(d) \in Task \ {Loop, Scan}
    BY TaskNames, TaskKinds
  <2>2. \A u \in Requested : u \in Task \ {Loop, Scan}
    BY TaskNames, TaskKinds
  <2> QED BY <2>1, <2>2 DEF Tended, Busy, Alive
<1> QED BY <1>1 DEF LookedAfter, rows, TypeOK

LEMMA LookedAfterEffect ==
  ASSUME LockInv, PlainInv, AloneInv, OwnerInv, HonestInv, LookedAfter, NEW t \in Task, Effect(t)
  PROVE  LookedAfter'
<1>0. TypeOK /\ phase' = phase /\ UNCHANGED auto
  BY DEF LockInv, Effect
<1> SUFFICES ASSUME phase = "up", NEW d \in registered' \cap auto, owner' = d, desired'[d] = "connected"
             PROVE  \E u \in Task : pc'[u] # "idle" /\ u[2] = d /\ u[1] # "delete"
  <2>1. registered' \subseteq Devices
    <3>1. registered' \subseteq registered
      BY DEF Effect, Works, Cancels, Takes, Reads, GivesUp, Stops, Fails, Disconnects, Erases, Rests, rows
    <3> QED BY <1>0, <3>1 DEF TypeOK
  <2>2. ASSUME NEW d \in registered' \cap auto,
               NEW u \in Task, pc'[u] # "idle", u[2] = d, u[1] # "delete"
        PROVE  Tended(d)'
    <3>1. u \in Requested \/ u = Recover(d) \/ u = Poll(d)
      BY <2>1, <2>2, DeviceTasks
    <3> QED BY <2>2, <3>1 DEF Tended, Busy, Alive
  <2> QED BY <1>0, <2>2 DEF LookedAfter
<1>1. d \in registered /\ d \in Devices
  <2>1. registered' \subseteq registered
    BY DEF Effect, Works, Cancels, Takes, Reads, GivesUp, Stops, Fails, Disconnects, Erases, Rests, rows
  <2> QED BY <1>0, <2>1 DEF TypeOK
<1>2. CASE t[2] # d
  <2>1. desired'[d] = desired[d] /\ \A u \in Task : u[2] = d => pc'[u] = pc[u]
    BY <1>0, <1>1, <1>2, TendedElsewhere
  <2>2. owner = d
    <3>1. owner' = owner \/ owner' = NoDevice \/ t[1] = "delete"
      BY DEF Effect, Works, Cancels, Takes, Reads, GivesUp, Stops, Fails, Disconnects, Erases, Rests
    <3>2. t[1] # "delete"
      BY TaskKinds DEF AloneInv, NoDeletion, Effect, Alive, Loop, Scan
    <3> QED BY <1>1, <3>1, <3>2, NoDeviceAssumption
  <2>3. Tended(d)
    BY <1>1, <2>1, <2>2 DEF LookedAfter
  <2>4. PICK u \in Task : Alive(u) /\ u[2] = d /\ u[1] # "delete"
    BY <1>1, <2>3, TendedBy
  <2> QED BY <2>1, <2>4 DEF Alive
<1>3. CASE t[2] = d
  BY <1>1, <1>3, StillTended
<1> QED BY <1>2, <1>3

LEMMA LookedAfterNext ==
  ASSUME Deletable = {}, Patchable = FALSE,
         LockInv, PlainInv, AloneInv, OwnerInv, HonestInv, LookedAfter, [Next]_vars
  PROVE  LookedAfter'
<1>0. TypeOK /\ Roles /\ DownIdle
  BY DEF LockInv, PlainInv
<1>1. ASSUME NEW t \in Task, Effect(t) PROVE LookedAfter'
  BY <1>1, LookedAfterEffect
<1>2. ASSUME phase' # "up" PROVE LookedAfter'
  BY <1>2 DEF LookedAfter
<1>3. ASSUME NEW d \in Devices, Request(d) PROVE LookedAfter'
  <2>1. phase = "up" /\ phase' = "up"
    BY <1>3 DEF Request, Register, Command, Patch, Delete, Serving
  <2>2. CASE \E automatic \in BOOLEAN : Register(d, automatic)
    <3>1. /\ UNCHANGED <<pc, owner>> /\ registered' = registered \cup {d}
          /\ auto' \subseteq auto \cup {d}
          /\ desired' = [desired EXCEPT ![d] = "disconnected"]
      BY <2>2 DEF Register
    <3>2. \A e \in registered' \cap auto' : desired'[e] = "connected" =>
            e \in registered \cap auto /\ desired[e] = "connected"
      BY <1>0, <3>1 DEF TypeOK
    <3>3. \A e : Tended(e) => Tended(e)'
      BY <3>1 DEF Tended, Busy, Alive
    <3> QED BY <2>1, <3>1, <3>2, <3>3 DEF LookedAfter
  <2>3. ~Patch(d)
    BY DEF Patch
  <2>4. ASSUME NEW a \in Commands[d], Command(d, a) PROVE LookedAfter'
    <3>1. /\ <<a, d>> \in Requested /\ <<a, d>>[2] = d /\ pc'[<<a, d>>] = "queued"
          /\ \A u \in Task : u # <<a, d>> => pc'[u] = pc[u]
      BY <1>0, <2>4, CommandPlaces, TaskNames DEF Moved
    <3>2. Busy(d)'
      BY <3>1 DEF Busy, Alive
    <3>3. UNCHANGED <<registered, auto>> /\ owner' \in {owner, d}
          /\ \A e \in Devices : e # d => desired'[e] = desired[e]
      BY <1>0, <2>4 DEF Command, TypeOK
    <3>4. ASSUME NEW e \in Devices, e # d, Tended(e) PROVE Tended(e)'
      <4>1. PICK u \in Task : Alive(u) /\ u[2] = e /\ u[1] # "delete"
        BY <3>4, TendedBy
      <4>2. pc'[u] = pc[u] /\ (u \in Requested \/ u = Recover(e) \/ u = Poll(e))
        BY <3>1, <3>4, <4>1, DeviceTasks
      <4> QED BY <4>1, <4>2 DEF Tended, Busy, Alive
    <3> SUFFICES ASSUME NEW e \in registered' \cap auto', owner' = e, desired'[e] = "connected"
                 PROVE  Tended(e)'
      BY DEF LookedAfter
    <3>5. CASE e = d
      BY <3>2, <3>5 DEF Tended
    <3>6. CASE e # d
      <4>1. e \in registered \cap auto /\ e \in Devices /\ owner = e /\ desired[e] = "connected"
        BY <1>0, <3>3, <3>6 DEF TypeOK
      <4> QED BY <2>1, <3>4, <3>6, <4>1 DEF LookedAfter
    <3> QED BY <3>5, <3>6
  <2>5. ~Delete(d)
    BY DEF Delete
  <2> QED BY <1>3, <2>2, <2>3, <2>4, <2>5 DEF Request
<1>4. CASE StartScan \/ LoopWake
  <2>1. UNCHANGED <<rows, owner, phase>> /\ \A u \in Task \ {Loop, Scan} : pc'[u] = pc[u]
    BY <1>0, <1>4 DEF StartScan, LoopWake, Goto, Acquire, mem, TypeOK
  <2> QED BY <1>0, <2>1, LookedAfterFrame
<1>5. CASE LinkLost
  BY <1>0, <1>5, LookedAfterFrame DEF LinkLost
<1>6. CASE Restart
  <2>1. registered' \subseteq Devices /\ UNCHANGED <<registered, auto, desired>> /\ phase = "down"
    BY <1>0, <1>6 DEF Restart, TypeOK
  <2>2. owner = NoDevice
    BY <2>1 DEF OwnerInv, DownFree
  <2>3. ASSUME NEW d \in registered, owner' = d PROVE pc'[Recover(d)] = "boot"
    <3>1. owner' # owner
      BY <2>1, <2>2, <2>3, NoDeviceAssumption
    <3>2. PICK e \in {e \in registered \cap auto : desired[e] = "connected"} :
            owner' = e /\ Goto(Recover(e), "boot")
      BY <1>6, <3>1 DEF Restart
    <3>3. Recover(d) \in Task
      BY <2>1, TaskNames
    <3> QED BY <1>0, <2>3, <3>2, <3>3 DEF Goto, TypeOK
  <2> QED BY <2>1, <2>3 DEF LookedAfter, Tended, Alive
<1>7. CASE Crash \/ Close \/ CloseStep
  <2>1. phase' # "up"
    BY <1>7 DEF Crash, Close, CloseStep, CloseOperations, CloseRecoveries, ClosePolls, CloseAdapter
  <2> QED BY <1>2, <2>1
<1>8. CASE UNCHANGED vars
  BY <1>0, <1>8, LookedAfterFrame DEF vars, mem
<1> QED BY <1>0, <1>1, <1>3, <1>4, <1>5, <1>6, <1>7, <1>8, StepCases DEF Outside

\* A device that should be connected, with automatic reconnection, and that owns the adapter is
\* always being polled, recovered or operated on, if nothing is deleted, only the owner is
\* disconnected, no device is connected by connect and automatic reconnection is not switched
\* (docs/architecture.md:85).
THEOREM DeviceSupervised ==
  Deletable = {} /\ StrayDisconnect = FALSE /\ OnlyReconnects /\ Patchable = FALSE
    => (Spec => []Supervised)
<1> SUFFICES ASSUME Deletable = {}, StrayDisconnect = FALSE, OnlyReconnects, Patchable = FALSE
             PROVE  Spec => []Supervised
  OBVIOUS
<1>1. Init => LookedAfter
  BY DEF Init, LookedAfter
<1>2. LockInv /\ PlainInv /\ AloneInv /\ OwnerInv /\ HonestInv /\ LookedAfter /\ [Next]_vars => LookedAfter'
  BY LookedAfterNext
<1>3. LookedAfter => Supervised
  BY DEF LookedAfter, Supervised, Tended
<1> QED BY <1>1, <1>2, <1>3, LockInvariant, PlainInvariant, AloneInvariant, OwnerInvariant,
           HonestInvariant, PTL DEF Spec
=============================================================================
