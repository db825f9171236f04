--------------------------- MODULE Administration ---------------------------
(***************************************************************************)
(* The control of AdministrationService (src/pitblu_core/service.py): the  *)
(* connection operations, automatic recovery, polling, device deletion,    *)
(* background and requested scans, startup and shutdown, over one adapter  *)
(* (adapters/igrill_v202.py) that is guarded by one fair asyncio lock.     *)
(*                                                                         *)
(* asyncio is cooperative: a coroutine gives way only where it really      *)
(* suspends.  An action is the code from one await to the next; `running`  *)
(* names the task that passed an await without suspending (an uncontended  *)
(* lock, nothing to cancel), and no other task moves before it goes on.    *)
(***************************************************************************)
EXTENDS FiniteSets

CONSTANTS
  Devices,          \* thermometers that can be registered
  NoDevice,         \* Python's None
  Commands,         \* connection operations the administrator may ask of each device
  Deletable,        \* devices the administrator may delete
  StrayDisconnect,  \* may a device that does not own the adapter be disconnected?
  Patchable,        \* may automatic reconnection be switched after registration?
  UserScans         \* may the administrator ask for scans?

ASSUME NoDeviceAssumption == NoDevice \notin Devices
ASSUME CommandsAssumption ==
  Commands \in [Devices -> SUBSET {"connect", "disconnect", "reconnect"}]
ASSUME DeletableAssumption == Deletable \subseteq Devices
ASSUME SwitchAssumption ==
  /\ StrayDisconnect \in BOOLEAN
  /\ Patchable \in BOOLEAN
  /\ UserScans \in BOOLEAN

VARIABLES
  registered, auto, desired, observed,  \* the devices table
  op,          \* the latest stored operation of each job: queued, running or done
  owner,       \* _owner
  connected,   \* _connected_device
  link,        \* the device the adapter's live client is connected to
  cache,       \* _candidates, seen from each device's row
  pc, ahead,   \* where each task is, and which tasks hold the lock before it
  running,     \* the task that has not suspended, if any
  phase        \* the life of the process

rows == <<registered, auto, desired, observed>>
mem == <<owner, connected, link, cache>>
vars == <<rows, op, mem, pc, ahead, running, phase>>

(***************************************************************************)
(* Tasks                                                                   *)
(***************************************************************************)
Requested == {"connect", "disconnect", "reconnect"} \X Devices   \* requested operations
Recover(d) == <<"recover", d>>   \* automatic recovery
Poll(d) == <<"poll", d>>         \* the polling loop
Deletion(d) == <<"delete", d>>   \* a DELETE request being served
Loop == <<"loop", NoDevice>>     \* background discovery
Scan == <<"scan", NoDevice>>     \* a requested scan

Connecting == {"connect", "reconnect", "recover"}
Task == ({"connect", "disconnect", "reconnect", "recover", "poll", "delete"} \X Devices)
        \cup {Loop, Scan}
Job == Requested \cup ({"recover"} \X Devices) \cup {Scan}   \* tasks with an operation row

Waiting == {"lockOff", "lockOn", "lock"}
Holding == {"off", "bluez", "discover", "release", "rediscover", "dial", "linking",
            "cleanup", "unwind", "read"}
Contending == Waiting \cup Holding
Undoing == {"linking", "bluez", "release", "unwind"}   \* what a cancelled task must undo first
Places == Contending \cup
          {"idle", "queued", "stopRec", "begin", "teardown", "boot", "check", "sleep", "erase"}

Pending == {"queued", "running"}
Phases == {"down", "up", "closing", "operations", "recoveries", "polls", "stopped"}

Alive(t) == pc[t] # "idle"
Busy(d) == \E t \in Requested : t[2] = d /\ Alive(t)   \* _active

Runs(t) == running \subseteq {t}
Stage(t, place) == pc[t] = place /\ Runs(t)
Goto(t, place) == pc' = [pc EXCEPT ![t] = place]
Pause(t, place) == Goto(t, place) /\ running' = {}
Proceed(t, place) == Goto(t, place) /\ running' = {t}

\* A write to a device row does nothing once the row is gone.
Written(column, d, v) == IF d \in registered THEN [column EXCEPT ![d] = v] ELSE column

(***************************************************************************)
(* _io_lock: a first-come-first-served lock.  ahead[t] is the set of tasks *)
(* that must give the lock up before t has it.                             *)
(***************************************************************************)
\* Fault: only the task that has the lock is waited for.
ContendersFault == {t \in Task : pc[t] \in Holding}
Contenders == {t \in Task : pc[t] \in Contending}
Enqueued(t) == [u \in Task |-> IF u = t THEN Contenders \ {t} ELSE ahead[u] \ {t}]
\* Fault: the lock is given up without waking the next task.
ReleasedFault(T) == [u \in Task |-> IF u \in T THEN {} ELSE ahead[u]]
Released(T) == [u \in Task |-> IF u \in T THEN {} ELSE ahead[u] \ T]

Acquire(t, place) ==
  /\ pc' = [pc EXCEPT ![t] = place]
  /\ ahead' = Enqueued(t)
  /\ running' = IF Contenders \subseteq {t} THEN {t} ELSE {}

(***************************************************************************)
(* task.cancel(): the task ends where it is suspended and gives the lock   *)
(* up, but a connect in progress first takes its client down again, and a  *)
(* command to BlueZ is killed and waited for.                              *)
(***************************************************************************)
Ends(T) == {t \in T : pc[t] \notin Undoing}
CancelledPc(T) == [t \in Task |-> IF t \notin T THEN pc[t]
                                  ELSE IF t \in Ends(T) THEN "idle" ELSE "unwind"]
\* Fault: the operation of a cancelled task is left as it was stored.
CancelledOpFault(T) == op
CancelledOp(T) == [j \in Job |-> IF j \in Ends(T) /\ op[j] = "running" THEN "done" ELSE op[j]]

\* _recoveries: a task that _stop_recovery cancelled is no longer in it.
\* Fault: a recovery that sleeps is overlooked.
RecoveringFault(d) == pc[Recover(d)] \notin {"idle", "unwind", "sleep"}
Recovering(d) == pc[Recover(d)] \notin {"idle", "unwind"}

\* What _schedule_recovery and the loop of _recover ask of a device.
\* Fault: recovery stops when its first attempt failed.
WantedFault(d) ==
  /\ phase = "up" /\ d \in registered \cap auto
  /\ desired[d] = "connected" /\ observed[d] # "backoff"
Wanted(d) == phase = "up" /\ d \in registered \cap auto /\ desired[d] = "connected"

\* _schedule_recovery
\* Fault: not while an operation is in progress, even one that is failing.
ScheduledFault(places, d) ==
  IF Wanted(d) /\ ~Recovering(d) /\ ~Busy(d)
  THEN [places EXCEPT ![Recover(d)] = "check"] ELSE places
\* Fault: also while the service is closing.
ScheduledClosing(places, d) ==
  IF d \in registered \cap auto /\ desired[d] = "connected" /\ ~Recovering(d)
  THEN [places EXCEPT ![Recover(d)] = "check"] ELSE places
Scheduled(places, d) ==
  IF Wanted(d) /\ ~Recovering(d) THEN [places EXCEPT ![Recover(d)] = "check"] ELSE places

Init ==
  /\ registered = {} /\ auto = {}
  /\ desired = [d \in Devices |-> "disconnected"]
  /\ observed = [d \in Devices |-> "discovered"]
  /\ op = [j \in Job |-> "done"]
  /\ owner = NoDevice /\ connected = NoDevice /\ link = NoDevice
  /\ cache = [d \in Devices |-> "none"]
  /\ pc = [t \in Task |-> "idle"]
  /\ ahead = [t \in Task |-> {}]
  /\ running = {}
  /\ phase = "down"

(***************************************************************************)
(* Requests                                                                *)
(***************************************************************************)
Serving == phase = "up" /\ running = {}

\* register
Register(d, automatic) ==
  /\ Serving
  /\ d \notin registered /\ cache[d] # "none"
  /\ registered' = registered \cup {d}
  /\ auto' = IF automatic THEN auto \cup {d} ELSE auto \ {d}
  /\ desired' = [desired EXCEPT ![d] = "disconnected"]
  /\ observed' = [observed EXCEPT ![d] = "discovered"]
  /\ cache' = [cache EXCEPT ![d] = "current"]
  /\ UNCHANGED <<op, owner, connected, link, pc, ahead, running, phase>>

\* patch_device, automatic reconnection
Patch(d) ==
  /\ Serving /\ Patchable
  /\ d \in registered
  /\ auto' = IF d \in auto THEN auto \ {d} ELSE auto \cup {d}
  /\ UNCHANGED <<registered, desired, observed, op, mem, pc, ahead, running, phase>>

\* Fault: connecting does not ask who owns the adapter.
MayOwnFault(d) == TRUE
MayOwn(d) == owner \in {NoDevice, d}

\* start_connection_operation
Command(d, a) ==
  /\ Serving
  /\ d \in registered /\ ~Busy(d)
  /\ a = "disconnect" => StrayDisconnect \/ owner = d
  /\ a # "disconnect" => MayOwn(d)
  /\ owner' = IF a = "disconnect" THEN owner ELSE d
  /\ desired' = [desired EXCEPT ![d] = IF a = "disconnect" THEN "disconnected" ELSE "connected"]
  /\ op' = [op EXCEPT ![<<a, d>>] = "queued"]
  /\ Goto(<<a, d>>, "queued")
  /\ UNCHANGED <<registered, auto, observed, connected, link, cache, ahead, running, phase>>

\* _stop_recovery, on behalf of t
StopRecovery(t) ==
  LET r == {Recover(t[2])} IN
  IF Recovering(t[2])
  THEN /\ pc' = [CancelledPc(r) EXCEPT ![t] = "stopRec"] /\ running' = {}
       /\ ahead' = Released(Ends(r))
  ELSE Proceed(t, "begin") /\ UNCHANGED ahead

\* delete_device, up to its first await
Delete(d) ==
  /\ Serving
  /\ d \in Deletable \cap registered
  /\ ~Busy(d) /\ ~Alive(Deletion(d))
  /\ StopRecovery(Deletion(d))
  /\ op' = CancelledOp({Recover(d)})
  /\ UNCHANGED <<rows, mem, phase>>

\* start_scan
StartScan ==
  /\ Serving /\ UserScans
  /\ op[Scan] \notin Pending
  /\ op' = [op EXCEPT ![Scan] = "queued"]
  /\ Goto(Scan, "queued")
  /\ UNCHANGED <<rows, mem, ahead, running, phase>>

(***************************************************************************)
(* _execute_connection, run by a requested operation or by a recovery;     *)
(* delete_device shares its way of taking the link down.                   *)
(***************************************************************************)
\* The failure branch: the operation fails, and recovery takes over or tries again.
Fail(t) ==
  /\ op' = [op EXCEPT ![t] = "done"]
  /\ observed' = Written(observed, t[2], "backoff")
  /\ ahead' = Released({t})
  /\ IF t[1] = "recover" THEN Proceed(t, "check")
     ELSE pc' = Scheduled([pc EXCEPT ![t] = "idle"], t[2]) /\ running' = {}

\* A requested operation starts: it fails if its row is gone.
Start(t) ==
  /\ t \in Requested /\ Stage(t, "queued")
  /\ IF t[2] \in registered
     THEN /\ StopRecovery(t)
          /\ op' = [CancelledOp({Recover(t[2])}) EXCEPT ![t] = "running"]
     ELSE Pause(t, "idle") /\ op' = [op EXCEPT ![t] = "done"] /\ UNCHANGED ahead
  /\ UNCHANGED <<rows, mem, phase>>

\* Fault: the cancelled recovery is not waited for.
StoppedFault(t) == pc[t] \in {"begin", "stopRec"} /\ Runs(t)
\* The cancelled recovery has ended.
Stopped(t) == Stage(t, "begin") \/ (Stage(t, "stopRec") /\ pc[Recover(t[2])] # "unwind")

\* _stop_polling, on behalf of t
StopPolling(t) ==
  LET p == Poll(t[2]) IN
  /\ pc' = [pc EXCEPT ![p] = "idle", ![t] = "teardown"]
  /\ ahead' = Released({p})
  /\ running' = IF Alive(p) THEN {} ELSE {t}

\* connect succeeds at once if the device's link is up; otherwise it leaves polling alone,
\* which disconnect and reconnect stop.
Prepare(t) ==
  /\ t \in Requested /\ Stopped(t)
  /\ IF t[1] # "connect" THEN StopPolling(t) /\ UNCHANGED op
     ELSE IF connected = t[2] /\ link # NoDevice
     THEN Pause(t, "idle") /\ op' = [op EXCEPT ![t] = "done"] /\ UNCHANGED ahead
     ELSE Acquire(t, "lockOn") /\ UNCHANGED op
  /\ UNCHANGED <<rows, mem, phase>>

\* The end of a disconnect.
Disconnected(t) ==
  /\ desired' = Written(desired, t[2], "disconnected")
  /\ observed' = Written(observed, t[2], "disconnected")
  /\ op' = [op EXCEPT ![t] = "done"]
  /\ Pause(t, "idle")

\* disconnect leaves the adapter alone if another device owns it.
TakeAdapter(t) ==
  /\ Stage(t, "teardown")
  /\ IF t[1] = "disconnect" /\ ~MayOwn(t[2])
     THEN Disconnected(t) /\ UNCHANGED ahead
     ELSE Acquire(t, "lockOff") /\ UNCHANGED <<desired, observed, op>>
  /\ UNCHANGED <<registered, auto, mem, phase>>

\* adapter.disconnect drops its client first, and waits only if there was one.
SwitchOff(t) ==
  /\ Stage(t, "lockOff") /\ ahead[t] = {}
  /\ link' = NoDevice
  /\ Goto(t, "off") /\ running' = IF link = NoDevice THEN {t} ELSE {}
  /\ UNCHANGED <<rows, op, owner, connected, cache, ahead, phase>>

\* disconnect: the adapter is free again.
FinishDisconnect(d) ==
  LET t == <<"disconnect", d>> IN
  /\ Stage(t, "off")
  /\ cache' = [cache EXCEPT ![d] = IF @ = "current" THEN "none" ELSE @]
  /\ owner' = NoDevice /\ connected' = NoDevice
  /\ ahead' = Released({t})
  /\ Disconnected(t)
  /\ UNCHANGED <<registered, auto, link, phase>>

\* reconnect: recover_registered releases the link BlueZ may still hold ...
BeginRelease(t) ==
  /\ t[1] \in {"reconnect", "recover"} /\ Stage(t, "off")
  /\ Pause(t, "bluez")
  /\ UNCHANGED <<rows, op, mem, ahead, phase>>

\* ... and the lock is given up and asked for again.
EndRelease(t) ==
  /\ Stage(t, "bluez")
  /\ (Acquire(t, "lockOn") /\ UNCHANGED <<observed, op>>) \/ Fail(t)
  /\ UNCHANGED <<registered, auto, desired, mem, phase>>

\* Fault: a connect keeps the candidate that it has looked up before it waits for the lock.
ResolveFault(t) ==
  /\ Stage(t, "lockOn") /\ ahead[t] = {}
  /\ IF t[1] = "connect" THEN Proceed(t, "dial") ELSE Pause(t, "discover")
  /\ UNCHANGED <<rows, op, mem, ahead, phase>>
\* The candidate is resolved under the lock: cached for a connect, else by discovery.
Resolve(t) ==
  /\ Stage(t, "lockOn") /\ ahead[t] = {}
  /\ IF t[1] = "connect" /\ cache[t[2]] = "current" THEN Proceed(t, "dial")
                                                    ELSE Pause(t, "discover")
  /\ UNCHANGED <<rows, op, mem, ahead, phase>>

\* Fault: a device that is not seen has no entry at all.
SeenFault(S) == [d \in S |-> "fresh"]
\* Discovery gives every device it sees a new id.
Seen(S) == [d \in Devices |-> IF d \in S THEN "fresh" ELSE "none"]

\* Discovery finds the device, or misses it: then BlueZ is asked to release it, once.
Discovered(t, S) ==
  /\ t[1] \in Connecting /\ pc[t] \in {"discover", "rediscover"} /\ Runs(t)
  /\ IF t[2] \in S
     THEN /\ Proceed(t, "dial") /\ UNCHANGED <<observed, op, ahead>>
          /\ cache' = [Seen(S) EXCEPT ![t[2]] = "current"]
     ELSE /\ IF pc[t] = "rediscover" THEN Fail(t)
             ELSE Pause(t, "release") /\ UNCHANGED <<observed, op, ahead>>
          /\ cache' = Seen(S)
  /\ UNCHANGED <<registered, auto, desired, owner, connected, link, phase>>

\* BlueZ released a device that discovery did not see.
Unhide(t) ==
  /\ Stage(t, "release")
  /\ link' = IF link = t[2] THEN NoDevice ELSE link
  /\ Pause(t, "rediscover")
  /\ UNCHANGED <<rows, op, owner, connected, cache, ahead, phase>>

\* An adapter call raises, or BlueZ has nothing to release.
CallFails(t) ==
  /\ t[1] \in Connecting /\ Runs(t)
  /\ pc[t] \in {"discover", "release", "rediscover", "linking", "cleanup"}
  /\ Fail(t)
  /\ UNCHANGED <<registered, auto, desired, mem, phase>>

\* adapter.connect returns at once when its client is connected, to whatever device.
Dial(t) ==
  /\ Stage(t, "dial")
  /\ Pause(t, IF link # NoDevice THEN "read" ELSE "linking")
  /\ UNCHANGED <<rows, op, mem, ahead, phase>>

\* The client is connected and authenticated, and the first read begins.
Connect(t) ==
  /\ Stage(t, "linking")
  /\ link' = t[2]
  /\ Pause(t, "read")
  /\ UNCHANGED <<rows, op, owner, connected, cache, ahead, phase>>

\* A connect that fails with its transport up takes the client down before it raises.
CleanUp(t) ==
  /\ Stage(t, "linking")
  /\ Pause(t, "cleanup")
  /\ UNCHANGED <<rows, op, mem, ahead, phase>>

\* Fault: taking the client down waits for ever.
UnwoundFault(t) == Stage(t, "unwind") /\ link = t[2] /\ UNCHANGED vars
\* A cancelled connect has taken its client down, a killed command of BlueZ has ended.
Unwound(t) ==
  /\ Stage(t, "unwind")
  /\ op' = [op EXCEPT ![t] = "done"]
  /\ Pause(t, "idle")
  /\ ahead' = Released({t})
  /\ UNCHANGED <<rows, mem, phase>>

\* The first snapshot is recorded, the device becomes the connected one, and a new
\* polling task replaces the previous one.
FirstRead(t) ==
  /\ t[1] \in Connecting /\ Stage(t, "read")
  /\ connected' = t[2]
  /\ desired' = Written(desired, t[2], "connected")
  /\ observed' = Written(observed, t[2], "polling")
  /\ op' = [op EXCEPT ![t] = "done"]
  /\ pc' = [pc EXCEPT ![t] = "idle", ![Poll(t[2])] = "sleep"] /\ running' = {}
  /\ ahead' = Released({t, Poll(t[2])})
  /\ UNCHANGED <<registered, auto, owner, link, cache, phase>>

(***************************************************************************)
(* _recover                                                                *)
(***************************************************************************)
\* The loop head: give up when recovery is no longer wanted, else sleep (at startup, not).
RecoverCheck(d) ==
  LET t == Recover(d) IN
  /\ pc[t] \in {"boot", "check"} /\ Runs(t)
  /\ IF ~Wanted(d) THEN Pause(t, "idle")
     ELSE IF pc[t] = "boot" THEN Proceed(t, "begin") ELSE Pause(t, "sleep")
  /\ UNCHANGED <<rows, op, mem, ahead, phase>>

\* After the delay the row is not looked at again, except that it must exist.
RecoverRun(d) ==
  LET t == Recover(d) IN
  /\ pc[t] \in {"begin", "sleep"} /\ Runs(t)
  /\ IF d \in registered
     THEN StopPolling(t) /\ op' = [op EXCEPT ![t] = "running"]
     ELSE Proceed(t, "check") /\ UNCHANGED <<op, ahead>>
  /\ UNCHANGED <<rows, mem, phase>>

(***************************************************************************)
(* _poll                                                                   *)
(***************************************************************************)
PollWake(d) ==
  LET t == Poll(d) IN
  /\ Stage(t, "sleep")
  /\ IF connected = d THEN Acquire(t, "lock") ELSE Pause(t, "idle") /\ UNCHANGED ahead
  /\ UNCHANGED <<rows, op, mem, phase>>

PollRead(d) ==
  LET t == Poll(d) IN
  /\ Stage(t, "lock") /\ ahead[t] = {} /\ link # NoDevice
  /\ Pause(t, "read")
  /\ UNCHANGED <<rows, op, mem, ahead, phase>>

\* A read ends with `valid` readings, or is a failure that may be one too many (degraded)
\* or the last one allowed (overdue).  Without a client it fails at once.
PollDone(d, valid, overdue) ==
  LET t == Poll(d)
      lost == link = NoDevice \/ (~valid /\ overdue) IN
  /\ Stage(t, "read") \/ (Stage(t, "lock") /\ ahead[t] = {} /\ link = NoDevice /\ ~valid)
  /\ \E o \in IF lost THEN {"backoff"} ELSE IF valid THEN {"polling"}
              ELSE {observed[d], "degraded"} : observed' = Written(observed, d, o)
  /\ pc' = IF lost THEN Scheduled([pc EXCEPT ![t] = "idle"], d)
           ELSE [pc EXCEPT ![t] = IF connected = d THEN "sleep" ELSE "idle"]
  /\ ahead' = Released({t})
  /\ running' = {}
  /\ UNCHANGED <<registered, auto, desired, op, mem, phase>>

(***************************************************************************)
(* delete_device, from the end of _stop_recovery                           *)
(***************************************************************************)
DeleteBegin(d) ==
  LET t == Deletion(d) IN
  /\ Stopped(t)
  /\ IF connected = d THEN StopPolling(t) ELSE Proceed(t, "erase") /\ UNCHANGED ahead
  /\ UNCHANGED <<rows, op, mem, phase>>

DeleteRelease(d) ==
  LET t == Deletion(d) IN
  /\ Stage(t, "off")
  /\ connected' = NoDevice
  /\ ahead' = Released({t})
  /\ Proceed(t, "erase")
  /\ UNCHANGED <<rows, op, owner, link, cache, phase>>

\* The candidate stays behind, under an id that no row holds.
DeleteErase(d) ==
  LET t == Deletion(d) IN
  /\ Stage(t, "erase")
  /\ registered' = registered \ {d}
  /\ cache' = [cache EXCEPT ![d] = IF @ = "current" THEN "fresh" ELSE @]
  /\ owner' = IF owner = d THEN NoDevice ELSE owner
  /\ Pause(t, "idle")
  /\ UNCHANGED <<auto, desired, observed, op, connected, link, ahead, phase>>

(***************************************************************************)
(* Scans                                                                   *)
(***************************************************************************)
\* _discovery_loop wakes up.
LoopWake ==
  /\ phase = "up" /\ Stage(Loop, "idle")
  /\ Acquire(Loop, "lock")
  /\ UNCHANGED <<rows, op, mem, phase>>

\* _execute_scan starts.
ScanRun ==
  /\ Stage(Scan, "queued")
  /\ op' = [op EXCEPT ![Scan] = "running"]
  /\ Acquire(Scan, "lock")
  /\ UNCHANGED <<rows, mem, phase>>

ScanBegin(t) ==
  /\ t \in {Loop, Scan} /\ Stage(t, "lock") /\ ahead[t] = {}
  /\ Pause(t, "discover")
  /\ UNCHANGED <<rows, op, mem, ahead, phase>>

ScanEnd(t, S, ok) ==
  /\ t \in {Loop, Scan} /\ Stage(t, "discover")
  /\ cache' = IF ok THEN Seen(S) ELSE cache
  /\ op' = IF t = Scan THEN [op EXCEPT ![t] = "done"] ELSE op
  /\ Pause(t, "idle")
  /\ ahead' = Released({t})
  /\ UNCHANGED <<rows, owner, connected, link, phase>>

(***************************************************************************)
(* The environment: the link drops, the process starts, stops or dies.     *)
(***************************************************************************)
LinkLost ==
  /\ link # NoDevice /\ running = {}
  /\ link' = NoDevice
  /\ UNCHANGED <<rows, op, owner, connected, cache, pc, ahead, running, phase>>

\* interrupt_operations
Interrupted == [j \in Job |-> "done"]

\* Fault: only the devices that will be recovered are marked as disconnected.
RebootedFault ==
  [d \in Devices |-> IF d \in registered \cap auto THEN "disconnected" ELSE observed[d]]
Rebooted == [d \in Devices |-> IF d \in registered THEN "disconnected" ELSE observed[d]]

\* start: the first device to be connected becomes the owner and recovers at once.
Restart ==
  LET eligible == {d \in registered \cap auto : desired[d] = "connected"} IN
  /\ phase = "down" /\ phase' = "up"
  /\ op' = Interrupted
  /\ observed' = Rebooted
  /\ IF eligible = {} THEN UNCHANGED <<owner, pc>>
     ELSE \E d \in eligible : owner' = d /\ Goto(Recover(d), "boot")
  /\ UNCHANGED <<registered, auto, desired, connected, link, cache, ahead, running>>

\* The process dies, or exits once it has stopped: what is not in the store is gone.
Crash ==
  /\ phase # "down" /\ phase' = "down"
  /\ pc' = [t \in Task |-> "idle"]
  /\ ahead' = [t \in Task |-> {}]
  /\ running' = {}
  /\ owner' = NoDevice /\ connected' = NoDevice /\ link' = NoDevice
  /\ cache' = [d \in Devices |-> "none"]
  /\ UNCHANGED <<rows, op>>

\* close cancels, and waits for, one group of tasks after the other.
CancelAll(T) ==
  /\ running = {}
  /\ pc' = CancelledPc(T)
  /\ ahead' = Released(Ends(T))
  /\ op' = CancelledOp(T)
  /\ UNCHANGED <<rows, mem, running>>

\* Requests are drained before close is called.
Close ==
  /\ phase = "up" /\ phase' = "closing"
  /\ \A d \in Devices : ~Alive(Deletion(d))
  /\ CancelAll({Loop})

CloseOperations ==
  /\ phase = "closing" /\ phase' = "operations"
  /\ CancelAll(Requested \cup {Scan})

CloseRecoveries ==
  /\ phase = "operations" /\ phase' = "recoveries"
  /\ \A d \in Devices : ~Busy(d) /\ pc[Recover(d)] # "unwind"
  /\ CancelAll({Recover(d) : d \in Devices})

ClosePolls ==
  /\ phase = "recoveries" /\ phase' = "polls"
  /\ \A d \in Devices : pc[Recover(d)] # "unwind"
  /\ CancelAll({Poll(d) : d \in Devices})

\* adapter.disconnect, without the lock.
CloseAdapter ==
  /\ phase = "polls" /\ phase' = "stopped"
  /\ running = {}
  /\ op' = Interrupted
  /\ observed' = IF connected = NoDevice THEN observed
                 ELSE Written(observed, connected, "disconnected")
  /\ link' = NoDevice
  /\ UNCHANGED <<registered, auto, desired, owner, connected, cache, pc, ahead, running>>

(***************************************************************************)
(* Next-state relation and fairness                                        *)
(***************************************************************************)
TaskStep(t) ==
  \/ Start(t) \/ Prepare(t) \/ TakeAdapter(t) \/ SwitchOff(t) \/ BeginRelease(t)
  \/ EndRelease(t) \/ Resolve(t) \/ Unhide(t) \/ CallFails(t) \/ Dial(t)
  \/ Connect(t) \/ CleanUp(t) \/ Unwound(t) \/ FirstRead(t) \/ ScanBegin(t)
  \/ \E S \in SUBSET Devices : Discovered(t, S) \/ \E ok \in BOOLEAN : ScanEnd(t, S, ok)
DeviceStep(d) ==
  \/ FinishDisconnect(d) \/ RecoverCheck(d) \/ RecoverRun(d)
  \/ PollWake(d) \/ PollRead(d) \/ \E valid, overdue \in BOOLEAN : PollDone(d, valid, overdue)
  \/ DeleteBegin(d) \/ DeleteRelease(d) \/ DeleteErase(d)
CloseStep == CloseOperations \/ CloseRecoveries \/ ClosePolls \/ CloseAdapter

Request(d) ==
  \/ \E automatic \in BOOLEAN : Register(d, automatic)
  \/ \E a \in Commands[d] : Command(d, a)
  \/ Patch(d) \/ Delete(d)

Next ==
  \/ \E d \in Devices : Request(d) \/ DeviceStep(d)
  \/ \E t \in Task : TaskStep(t)
  \/ StartScan \/ ScanRun \/ LoopWake \/ LinkLost \/ Restart \/ Crash \/ Close \/ CloseStep

Spec == Init /\ [][Next]_vars

\* Every await is bounded by a timeout and sleeps end; the event loop runs the tasks that
\* are ready in turn, so one that is ready again and again, whenever no other runs, moves.
Moves(t) ==
  /\ Alive(t) /\ Runs(t)
  /\ TaskStep(t) \/ ScanRun \/ \E d \in Devices : DeviceStep(d)
  /\ pc'[t] # pc[t]
Fairness ==
  /\ \A d \in Devices : SF_vars(\E t \in Requested : t[2] = d /\ Moves(t))
  /\ \A t \in Task \ Requested : SF_vars(Moves(t))
  /\ SF_vars(CloseStep)

\* The radio is not hopeless: what is tried again and again for a device eventually works.
Radio ==
  \A d \in Devices :
    /\ SF_vars(\E t \in Connecting \X {d}, S \in SUBSET Devices :
                 Discovered(t, S) /\ pc'[t] = "dial")
    /\ SF_vars(\E t \in Connecting \X {d} : EndRelease(t) /\ pc'[t] = "lockOn")
    /\ SF_vars(\E t \in Connecting \X {d} : Connect(t))

\* Reads that bring nothing valid do not go on beyond reconnect_after.
Deadline ==
  \A d \in Devices : SF_vars(PollDone(d, TRUE, TRUE) \/ PollDone(d, FALSE, TRUE))

FairSpec == Spec /\ Fairness
LiveSpec == FairSpec /\ Radio /\ Deadline

(***************************************************************************)
(* Properties                                                              *)
(***************************************************************************)
\* Every variable keeps its type.
TypeOK ==
  /\ registered \subseteq Devices /\ auto \subseteq Devices
  /\ desired \in [Devices -> {"connected", "disconnected"}]
  /\ observed \in [Devices -> {"discovered", "disconnected", "backoff", "degraded", "polling"}]
  /\ op \in [Job -> Pending \cup {"done"}]
  /\ {owner, connected, link} \subseteq Devices \cup {NoDevice}
  /\ cache \in [Devices -> {"none", "fresh", "current"}]
  /\ pc \in [Task -> Places]
  /\ ahead \in [Task -> SUBSET Task]
  /\ running \subseteq Task
  /\ phase \in Phases

\* Adapter calls never overlap, not even when a connect is cancelled half way and still takes
\* its client down, or a command to BlueZ is killed and waited for.
CallsApart ==
  \A t, u \in Task : pc[t] \in Holding /\ pc[u] \in Holding => t = u

\* The candidate that is connected to stays the one its row holds, out of the last discovery,
\* from its resolution to the end of the connect, unless the device is deleted.
Dialling == {"dial", "linking"}
CandidateKept ==
  \A t \in Connecting \X Devices :
    pc[t] \in Dialling /\ t[2] \in registered => cache[t[2]] = "current"

\* Whoever uses the adapter has it for itself: calls do not overlap, and no scan, disconnect,
\* registration or other operation comes between the choice of a candidate and its connection
\* (service.py:444, _io_lock; docs/architecture.md:84).
AdapterExclusive == CallsApart /\ CandidateKept

\* What is read for a device comes from that device: no task reads a client that is
\* connected to another one (docs/api.md:56).
TelemetryAttribution ==
  \A t \in Task : pc[t] = "read" => link \in {NoDevice, t[2]}

\* Recovery, polling and connecting happen only for the device that owns the adapter, and
\* the link belongs to it.
OwnerActs ==
  phase = "up" =>
    /\ link \in {NoDevice, owner}
    /\ \A d \in Devices : Alive(Recover(d)) \/ Alive(Poll(d)) \/ Busy(d) => owner = d

\* A stored operation is pending exactly while a task works on it: none is lost by a
\* failure, a cancellation or a restart, and none is still worked on after its outcome
\* was stored.
OperationsTracked ==
  phase = "up" =>
    \A j \in Job : op[j] \in Pending <=> pc[j] \notin {"idle", "boot", "check", "sleep", "begin"}
                                          \/ (pc[j] = "begin" /\ j[1] # "recover")

\* A device that should be connected, with automatic reconnection, and that owns the adapter
\* is always being polled, recovered or operated on (docs/architecture.md:85).
Supervised ==
  phase = "up" /\ running = {} =>
    \A d \in registered \cap auto :
      owner = d /\ desired[d] = "connected" =>
        Alive(Poll(d)) \/ Alive(Recover(d)) \/ Busy(d) \/ Alive(Deletion(d))

\* A device reported as polling or degraded has somebody reading it or renewing its link.
ObservedHonest ==
  phase = "up" =>
    \A d \in registered :
      observed[d] \in {"polling", "degraded"} => Alive(Poll(d)) \/ Alive(Recover(d)) \/ Busy(d)

\* Once close has returned nothing is left running, linked or pending.
StoppedClean ==
  phase = "stopped" =>
    /\ \A t \in Task : ~Alive(t)
    /\ link = NoDevice
    /\ \A j \in Job : op[j] \notin Pending

\* While a disconnect takes the link down, the device is neither recovered nor polled, not
\* even by a cancelled task that still unwinds, or by a recovery that a late failure of the
\* polling loop might schedule (docs/frontend-integration.md:171).
DisconnectsAlone ==
  \A d \in Devices :
    pc[<<"disconnect", d>>] \in {"teardown", "lockOff", "off"} =>
      ~Alive(Recover(d)) /\ ~Alive(Poll(d))

\* The resting desired state changes from disconnected to connected only by a request: an
\* accepted disconnect is not undone (docs/frontend-integration.md:171).
DisconnectKept ==
  [][\A d \in registered :
       desired[d] = "disconnected" /\ desired'[d] = "connected" =>
         \E t \in Requested : t[2] = d /\ ~Alive(t) /\ pc'[t] = "queued"]_vars

\* A device that was deleted is left alone: it neither owns the adapter nor is linked
\* (docs/frontend-integration.md:86).
DeletedDisconnected ==
  phase = "up" => {owner, link} \subseteq registered \cup {NoDevice}

\* Every accepted operation ends.
OperationEnds ==
  \A d \in Devices : Busy(d) ~> ~Busy(d)

\* Left alone, a device that should be connected is read and polled again, unless the wish or the
\* service ends: no failure is the last word (docs/architecture.md:85).
Recovers ==
  \A d \in Devices :
    phase = "up" /\ d \in registered \cap auto /\ owner = d /\ desired[d] = "connected"
      ~> \/ (observed[d] = "polling" /\ Alive(Poll(d)))
         \/ Busy(d)
         \/ phase # "up" \/ desired[d] = "disconnected" \/ d \notin registered \cap auto

\* close returns.
CloseEnds == phase = "closing" ~> phase \in {"stopped", "down"}

=============================================================================
