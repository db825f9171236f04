------------------------ MODULE AdministrationProofs ------------------------
(* Theorems about Administration, for every set of devices and every choice of *)
(* what the administrator may do.                                              *)
EXTENDS Administration, TLAPS

LEMMA TaskNames ==
  /\ Loop \in Task /\ Scan \in Task
  /\ \A d \in Devices : /\ Recover(d) \in Task /\ Poll(d) \in Task /\ Deletion(d) \in Task
                        /\ <<"disconnect", d>> \in Task
  /\ Requested \subseteq Task /\ Job \subseteq Task
BY DEF Task, Job, Requested, Recover, Poll, Deletion, Loop, Scan

LEMMA JobNames ==
  /\ Scan \in Job /\ Requested \subseteq Job
  /\ \A d \in Devices : Recover(d) \in Job /\ <<"disconnect", d>> \in Job
BY DEF Job, Requested, Recover

LEMMA CommandNames ==
  ASSUME NEW d \in Devices, NEW a \in Commands[d]
  PROVE  <<a, d>> \in Requested /\ a \in {"connect", "disconnect", "reconnect"}
BY CommandsAssumption DEF Requested

LEMMA CancelledType ==
  ASSUME TypeOK, NEW T
  PROVE  /\ CancelledPc(T) \in [Task -> Places]
         /\ CancelledOp(T) \in [Job -> Pending \cup {"done"}]
         /\ Released(T) \in [Task -> SUBSET Task]
BY DEF TypeOK, CancelledPc, CancelledOp, Released, Places, Contending, Waiting, Holding, Pending

LEMMA MovesType ==
  ASSUME TypeOK
  PROVE  /\ \A t \in Task : Enqueued(t) \in [Task -> SUBSET Task]
         /\ \A d, p : p \in [Task -> Places] => Scheduled(p, d) \in [Task -> Places]
         /\ \A c, d, v, V : c \in [Devices -> V] /\ v \in V => Written(c, d, v) \in [Devices -> V]
         /\ \A S : Seen(S) \in [Devices -> {"none", "fresh", "current"}]
BY DEF TypeOK, Enqueued, Contenders, Scheduled, Written, Seen, Places

(***************************************************************************)
(* Every variable keeps its type.                                          *)
(***************************************************************************)
LEMMA InitType == Init => TypeOK
BY DEF Init, TypeOK, Places, Contending, Pending, Phases

LEMMA TaskStepType ==
  ASSUME TypeOK, NEW t \in Task, TaskStep(t)
  PROVE  TypeOK'
<1>0. /\ pc \in [Task -> Places] /\ ahead \in [Task -> SUBSET Task] /\ running \subseteq Task
      /\ {owner, connected, link} \subseteq Devices \cup {NoDevice}
      /\ cache \in [Devices -> {"none", "fresh", "current"}]
      /\ op \in [Job -> Pending \cup {"done"}]
      /\ desired \in [Devices -> {"connected", "disconnected"}]
      /\ observed \in [Devices -> {"discovered", "disconnected", "backoff", "degraded", "polling"}]
  BY DEF TypeOK
<1>a. /\ \A T : Released(T) \in [Task -> SUBSET Task]
      /\ \A u \in Task : Enqueued(u) \in [Task -> SUBSET Task]
      /\ \A T : CancelledPc(T) \in [Task -> Places]
      /\ \A T : CancelledOp(T) \in [Job -> Pending \cup {"done"}]
  BY CancelledType, MovesType
<1>b. /\ \A v \in {"connected", "disconnected"} :
           Written(desired, t[2], v) \in [Devices -> {"connected", "disconnected"}]
      /\ \A v \in {"discovered", "disconnected", "backoff", "degraded", "polling"} :
           Written(observed, t[2], v) \in [Devices -> {"discovered", "disconnected", "backoff", "degraded", "polling"}]
  BY <1>0 DEF Written
<1>c. {"idle", "stopRec", "begin", "teardown", "check", "sleep", "lock", "lockOff", "lockOn", "off",
       "bluez", "discover", "release", "rediscover", "dial", "linking", "cleanup", "read"} \subseteq Places
  BY DEF Places, Contending, Waiting, Holding
<1>d. t[2] \in Devices \cup {NoDevice}
  BY DEF Task, Loop, Scan
<1>e. \A place \in Places : [pc EXCEPT ![t] = place] \in [Task -> Places]
  BY <1>0
<1>f. \A place \in Places : Scheduled([pc EXCEPT ![t] = place], t[2]) \in [Task -> Places]
  BY <1>e, MovesType
<1>g. Fail(t) => pc' \in [Task -> Places]
  <2>1. Fail(t) => \/ pc' = [pc EXCEPT ![t] = "check"]
                   \/ pc' = Scheduled([pc EXCEPT ![t] = "idle"], t[2])
    BY DEF Fail, Proceed, Goto
  <2> QED
    BY <2>1, <1>c, <1>e, <1>f
<1> USE DEF rows, mem, Goto, Pause, Proceed, Acquire
<1>1. CASE Start(t)
  <2>1. pc' \in [Task -> Places]
    <3>1. \/ \E place \in {"idle", "begin"} : pc' = [pc EXCEPT ![t] = place]
          \/ pc' = [CancelledPc({Recover(t[2])}) EXCEPT ![t] = "stopRec"]
      BY <1>1 DEF Start, StopRecovery
    <3> QED
      BY <3>1, <1>a, <1>c, <1>e
  <2>2. ahead' \in [Task -> SUBSET Task]
    BY <1>1, <1>0, <1>a DEF Start, StopRecovery
  <2>3. op' \in [Job -> Pending \cup {"done"}]
    <3>1. \/ op' = [op EXCEPT ![t] = "done"]
          \/ op' = [CancelledOp({Recover(t[2])}) EXCEPT ![t] = "running"]
      BY <1>1 DEF Start
    <3> QED
      BY <3>1, <1>0, <1>a DEF Pending
  <2>4. running' = {} \/ running' = {t}
    BY <1>1 DEF Start, StopRecovery
  <2>5. UNCHANGED <<rows, mem, phase>>
    BY <1>1 DEF Start, StopRecovery
  <2> QED
    BY <2>1, <2>2, <2>3, <2>4, <2>5 DEF TypeOK
<1>2. CASE Prepare(t)
  <2>1. pc' \in [Task -> Places]
    BY <1>2, <1>0, <1>c DEF Prepare, StopPolling
  <2>2. ahead' \in [Task -> SUBSET Task]
    BY <1>2, <1>0, <1>a DEF Prepare, StopPolling
  <2>3. op' \in [Job -> Pending \cup {"done"}]
    BY <1>2, <1>0 DEF Prepare, StopPolling, Pending
  <2>4. running' = {} \/ running' = {t}
    BY <1>2 DEF Prepare, StopPolling
  <2>5. UNCHANGED <<rows, mem, phase>>
    BY <1>2 DEF Prepare, StopPolling
  <2> QED
    BY <2>1, <2>2, <2>3, <2>4, <2>5 DEF TypeOK
<1>3. CASE TakeAdapter(t)
  <2>1. pc' \in [Task -> Places]
    BY <1>3, <1>0, <1>c DEF TakeAdapter, Disconnected
  <2>2. ahead' \in [Task -> SUBSET Task]
    BY <1>3, <1>0, <1>a DEF TakeAdapter, Disconnected
  <2>3. op' \in [Job -> Pending \cup {"done"}]
    BY <1>3, <1>0 DEF TakeAdapter, Disconnected, Pending
  <2>4. desired' \in [Devices -> {"connected", "disconnected"}]
    BY <1>3, <1>0, <1>b DEF TakeAdapter, Disconnected
  <2>5. observed' \in [Devices -> {"discovered", "disconnected", "backoff", "degraded", "polling"}]
    BY <1>3, <1>0, <1>b DEF TakeAdapter, Disconnected
  <2>6. running' = {} \/ running' = {t}
    BY <1>3 DEF TakeAdapter, Disconnected
  <2>7. UNCHANGED <<registered, auto, mem, phase>>
    BY <1>3 DEF TakeAdapter, Disconnected
  <2> QED
    BY <2>1, <2>2, <2>3, <2>4, <2>5, <2>6, <2>7 DEF TypeOK
<1>4. CASE SwitchOff(t)
  <2>1. pc' \in [Task -> Places]
    BY <1>4, <1>0, <1>c DEF SwitchOff
  <2>2. {owner', connected', link'} \subseteq Devices \cup {NoDevice}
    BY <1>4, <1>0, <1>d DEF SwitchOff
  <2>3. running' = {} \/ running' = {t}
    BY <1>4 DEF SwitchOff
  <2>4. UNCHANGED <<rows, op, owner, connected, cache, ahead, phase>>
    BY <1>4 DEF SwitchOff
  <2> QED
    BY <2>1, <2>2, <2>3, <2>4 DEF TypeOK
<1>5. CASE BeginRelease(t)
  <2>1. pc' \in [Task -> Places]
    BY <1>5, <1>0, <1>c DEF BeginRelease
  <2>2. running' = {} \/ running' = {t}
    BY <1>5 DEF BeginRelease
  <2>3. UNCHANGED <<rows, op, mem, ahead, phase>>
    BY <1>5 DEF BeginRelease
  <2> QED
    BY <2>1, <2>2, <2>3 DEF TypeOK
<1>6. CASE EndRelease(t)
  <2>1. pc' \in [Task -> Places]
    BY <1>6, <1>0, <1>c, <1>g DEF EndRelease
  <2>2. ahead' \in [Task -> SUBSET Task]
    BY <1>6, <1>0, <1>a DEF EndRelease, Fail
  <2>3. op' \in [Job -> Pending \cup {"done"}]
    BY <1>6, <1>0 DEF EndRelease, Fail, Pending
  <2>4. observed' \in [Devices -> {"discovered", "disconnected", "backoff", "degraded", "polling"}]
    BY <1>6, <1>0, <1>b DEF EndRelease, Fail
  <2>5. running' = {} \/ running' = {t}
    BY <1>6 DEF EndRelease, Fail
  <2>6. UNCHANGED <<registered, auto, desired, mem, phase>>
    BY <1>6 DEF EndRelease, Fail
  <2> QED
    BY <2>1, <2>2, <2>3, <2>4, <2>5, <2>6 DEF TypeOK
<1>7. CASE Resolve(t)
  <2>1. pc' \in [Task -> Places]
    BY <1>7, <1>0, <1>c DEF Resolve
  <2>2. running' = {} \/ running' = {t}
    BY <1>7 DEF Resolve
  <2>3. UNCHANGED <<rows, op, mem, ahead, phase>>
    BY <1>7 DEF Resolve
  <2> QED
    BY <2>1, <2>2, <2>3 DEF TypeOK
<1>8. CASE Unhide(t)
  <2>1. pc' \in [Task -> Places]
    BY <1>8, <1>0, <1>c DEF Unhide
  <2>2. {owner', connected', link'} \subseteq Devices \cup {NoDevice}
    BY <1>8, <1>0, <1>d DEF Unhide
  <2>3. running' = {} \/ running' = {t}
    BY <1>8 DEF Unhide
  <2>4. UNCHANGED <<rows, op, owner, connected, cache, ahead, phase>>
    BY <1>8 DEF Unhide
  <2> QED
    BY <2>1, <2>2, <2>3, <2>4 DEF TypeOK
<1>9. CASE CallFails(t)
  <2>1. pc' \in [Task -> Places]
    BY <1>9, <1>0, <1>c, <1>g DEF CallFails
  <2>2. ahead' \in [Task -> SUBSET Task]
    BY <1>9, <1>0, <1>a DEF CallFails, Fail
  <2>3. op' \in [Job -> Pending \cup {"done"}]
    BY <1>9, <1>0 DEF CallFails, Fail, Pending
  <2>4. observed' \in [Devices -> {"discovered", "disconnected", "backoff", "degraded", "polling"}]
    BY <1>9, <1>0, <1>b DEF CallFails, Fail
  <2>5. running' = {} \/ running' = {t}
    BY <1>9 DEF CallFails, Fail
  <2>6. UNCHANGED <<registered, auto, desired, mem, phase>>
    BY <1>9 DEF CallFails, Fail
  <2> QED
    BY <2>1, <2>2, <2>3, <2>4, <2>5, <2>6 DEF TypeOK
<1>10. CASE Dial(t)
  <2>1. pc' \in [Task -> Places]
    BY <1>10, <1>0, <1>c DEF Dial
  <2>2. running' = {} \/ running' = {t}
    BY <1>10 DEF Dial
  <2>3. UNCHANGED <<rows, op, mem, ahead, phase>>
    BY <1>10 DEF Dial
  <2> QED
    BY <2>1, <2>2, <2>3 DEF TypeOK
<1>11. CASE Connect(t)
  <2>1. pc' \in [Task -> Places]
    BY <1>11, <1>0, <1>c DEF Connect
  <2>2. {owner', connected', link'} \subseteq Devices \cup {NoDevice}
    BY <1>11, <1>0, <1>d DEF Connect
  <2>3. running' = {} \/ running' = {t}
    BY <1>11 DEF Connect
  <2>4. UNCHANGED <<rows, op, owner, connected, cache, ahead, phase>>
    BY <1>11 DEF Connect
  <2> QED
    BY <2>1, <2>2, <2>3, <2>4 DEF TypeOK
<1>12. CASE CleanUp(t)
  <2>1. pc' \in [Task -> Places]
    BY <1>12, <1>0, <1>c DEF CleanUp
  <2>2. running' = {} \/ running' = {t}
    BY <1>12 DEF CleanUp
  <2>3. UNCHANGED <<rows, op, mem, ahead, phase>>
    BY <1>12 DEF CleanUp
  <2> QED
    BY <2>1, <2>2, <2>3 DEF TypeOK
<1>13. CASE Unwound(t)
  <2>1. pc' \in [Task -> Places]
    BY <1>13, <1>0, <1>c DEF Unwound
  <2>2. ahead' \in [Task -> SUBSET Task]
    BY <1>13, <1>0, <1>a DEF Unwound
  <2>3. op' \in [Job -> Pending \cup {"done"}]
    BY <1>13, <1>0 DEF Unwound, Pending
  <2>4. running' = {} \/ running' = {t}
    BY <1>13 DEF Unwound
  <2>5. UNCHANGED <<rows, mem, phase>>
    BY <1>13 DEF Unwound
  <2> QED
    BY <2>1, <2>2, <2>3, <2>4, <2>5 DEF TypeOK
<1>14. CASE FirstRead(t)
  <2>1. pc' \in [Task -> Places]
    BY <1>14, <1>0, <1>c DEF FirstRead
  <2>2. ahead' \in [Task -> SUBSET Task]
    BY <1>14, <1>0, <1>a DEF FirstRead
  <2>3. op' \in [Job -> Pending \cup {"done"}]
    BY <1>14, <1>0 DEF FirstRead, Pending
  <2>4. desired' \in [Devices -> {"connected", "disconnected"}]
    BY <1>14, <1>0, <1>b DEF FirstRead
  <2>5. observed' \in [Devices -> {"discovered", "disconnected", "backoff", "degraded", "polling"}]
    BY <1>14, <1>0, <1>b DEF FirstRead
  <2>6. {owner', connected', link'} \subseteq Devices \cup {NoDevice}
    BY <1>14, <1>0, <1>d DEF FirstRead
  <2>7. running' = {} \/ running' = {t}
    BY <1>14 DEF FirstRead
  <2>8. UNCHANGED <<registered, auto, owner, link, cache, phase>>
    BY <1>14 DEF FirstRead
  <2> QED
    BY <2>1, <2>2, <2>3, <2>4, <2>5, <2>6, <2>7, <2>8 DEF TypeOK
<1>15. CASE ScanBegin(t)
  <2>1. pc' \in [Task -> Places]
    BY <1>15, <1>0, <1>c DEF ScanBegin
  <2>2. running' = {} \/ running' = {t}
    BY <1>15 DEF ScanBegin
  <2>3. UNCHANGED <<rows, op, mem, ahead, phase>>
    BY <1>15 DEF ScanBegin
  <2> QED
    BY <2>1, <2>2, <2>3 DEF TypeOK
<1>16. CASE \E S \in SUBSET Devices : Discovered(t, S)
  <2>0. PICK S \in SUBSET Devices : Discovered(t, S)
    BY <1>16
  <2>1. pc' \in [Task -> Places]
    BY <2>0, <1>0, <1>c, <1>g DEF Discovered
  <2>2. ahead' \in [Task -> SUBSET Task]
    BY <2>0, <1>0, <1>a DEF Discovered, Fail
  <2>3. op' \in [Job -> Pending \cup {"done"}]
    BY <2>0, <1>0 DEF Discovered, Fail, Pending
  <2>4. observed' \in [Devices -> {"discovered", "disconnected", "backoff", "degraded", "polling"}]
    BY <2>0, <1>0, <1>b DEF Discovered, Fail
  <2>5. cache' \in [Devices -> {"none", "fresh", "current"}]
    BY <2>0, <1>0 DEF Discovered, Fail, Seen
  <2>6. running' = {} \/ running' = {t}
    BY <2>0 DEF Discovered, Fail
  <2>7. UNCHANGED <<registered, auto, desired, owner, connected, link, phase>>
    BY <2>0 DEF Discovered, Fail
  <2> QED
    BY <2>1, <2>2, <2>3, <2>4, <2>5, <2>6, <2>7 DEF TypeOK
<1>17. CASE \E S \in SUBSET Devices, ok \in BOOLEAN : ScanEnd(t, S, ok)
  <2>0. PICK S \in SUBSET Devices, ok \in BOOLEAN : ScanEnd(t, S, ok)
    BY <1>17
  <2>1. pc' \in [Task -> Places]
    BY <2>0, <1>0, <1>c DEF ScanEnd
  <2>2. ahead' \in [Task -> SUBSET Task]
    BY <2>0, <1>0, <1>a DEF ScanEnd
  <2>3. op' \in [Job -> Pending \cup {"done"}]
    BY <2>0, <1>0 DEF ScanEnd, Pending
  <2>4. cache' \in [Devices -> {"none", "fresh", "current"}]
    BY <2>0, <1>0 DEF ScanEnd, Seen
  <2>5. running' = {} \/ running' = {t}
    BY <2>0 DEF ScanEnd
  <2>6. UNCHANGED <<rows, owner, connected, link, phase>>
    BY <2>0 DEF ScanEnd
  <2> QED
    BY <2>1, <2>2, <2>3, <2>4, <2>5, <2>6 DEF TypeOK
<1> QED
  BY <1>1, <1>2, <1>3, <1>4, <1>5, <1>6, <1>7, <1>8, <1>9, <1>10, <1>11, <1>12, <1>13, <1>14,
     <1>15, <1>16, <1>17 DEF TaskStep

LEMMA DeviceStepType ==
  ASSUME TypeOK, NEW d \in Devices, DeviceStep(d)
  PROVE  TypeOK'
<1>0. /\ pc \in [Task -> Places] /\ ahead \in [Task -> SUBSET Task] /\ running \subseteq Task
      /\ {owner, connected, link} \subseteq Devices \cup {NoDevice}
      /\ cache \in [Devices -> {"none", "fresh", "current"}]
      /\ op \in [Job -> Pending \cup {"done"}]
  BY DEF TypeOK
<1>a. /\ \A T : Released(T) \in [Task -> SUBSET Task]
      /\ \A t \in Task : Enqueued(t) \in [Task -> SUBSET Task]
  BY CancelledType, MovesType
<1>b. /\ \A v \in {"connected", "disconnected"} :
           Written(desired, d, v) \in [Devices -> {"connected", "disconnected"}]
      /\ \A v \in {"discovered", "disconnected", "backoff", "degraded", "polling"} :
           Written(observed, d, v) \in [Devices -> {"discovered", "disconnected", "backoff", "degraded", "polling"}]
  BY DEF Written, TypeOK
<1>c. {"idle", "lock", "lockOff", "lockOn", "begin", "sleep", "check", "read", "teardown", "erase"} \subseteq Places
  BY DEF Places, Contending, Waiting, Holding
<1> USE DEF rows, mem, Goto, Pause, Proceed, Acquire, Stage
<1>1. CASE FinishDisconnect(d)
  <2>1. pc' \in [Task -> Places]
    BY <1>1, <1>0, <1>c, TaskNames DEF FinishDisconnect, Disconnected
  <2>2. ahead' \in [Task -> SUBSET Task]
    BY <1>1, <1>0, <1>a, TaskNames DEF FinishDisconnect, Disconnected
  <2>3. op' \in [Job -> Pending \cup {"done"}]
    BY <1>1, <1>0, JobNames DEF FinishDisconnect, Disconnected, Pending
  <2>4. desired' \in [Devices -> {"connected", "disconnected"}]
    BY <1>1, <1>b DEF FinishDisconnect, Disconnected
  <2>5. observed' \in [Devices -> {"discovered", "disconnected", "backoff", "degraded", "polling"}]
    BY <1>1, <1>b DEF FinishDisconnect, Disconnected
  <2>6. {owner', connected', link'} \subseteq Devices \cup {NoDevice}
    BY <1>1, <1>0 DEF FinishDisconnect, Disconnected
  <2>7. cache' \in [Devices -> {"none", "fresh", "current"}]
    BY <1>1, <1>0 DEF FinishDisconnect, Disconnected
  <2>8. running' = {} \/ running' = {<<"disconnect", d>>}
    BY <1>1 DEF FinishDisconnect, Disconnected
  <2>9. UNCHANGED <<registered, auto, phase>>
    BY <1>1 DEF FinishDisconnect, Disconnected
  <2> QED
    BY <2>1, <2>2, <2>3, <2>4, <2>5, <2>6, <2>7, <2>8, <2>9, TaskNames DEF TypeOK
<1>2. CASE RecoverCheck(d)
  <2>1. pc' \in [Task -> Places]
    BY <1>2, <1>0, <1>c, TaskNames DEF RecoverCheck
  <2>2. running' = {} \/ running' = {Recover(d)}
    BY <1>2 DEF RecoverCheck
  <2>3. UNCHANGED <<rows, op, mem, ahead, phase>>
    BY <1>2 DEF RecoverCheck
  <2> QED
    BY <2>1, <2>2, <2>3, TaskNames DEF TypeOK
<1>3. CASE RecoverRun(d)
  <2>1. pc' \in [Task -> Places]
    BY <1>3, <1>0, <1>c, TaskNames DEF RecoverRun, StopPolling
  <2>2. ahead' \in [Task -> SUBSET Task]
    BY <1>3, <1>0, <1>a, TaskNames DEF RecoverRun, StopPolling
  <2>3. op' \in [Job -> Pending \cup {"done"}]
    BY <1>3, <1>0, JobNames DEF RecoverRun, StopPolling, Pending
  <2>4. running' = {} \/ running' = {Recover(d)}
    BY <1>3 DEF RecoverRun, StopPolling
  <2>5. UNCHANGED <<rows, mem, phase>>
    BY <1>3 DEF RecoverRun, StopPolling
  <2> QED
    BY <2>1, <2>2, <2>3, <2>4, <2>5, TaskNames DEF TypeOK
<1>4. CASE PollWake(d)
  <2>1. pc' \in [Task -> Places]
    BY <1>4, <1>0, <1>c, TaskNames DEF PollWake
  <2>2. ahead' \in [Task -> SUBSET Task]
    <3>1. ahead' = Enqueued(Poll(d)) \/ ahead' = ahead
      BY <1>4 DEF PollWake
    <3>2. Poll(d) \in Task
      BY TaskNames
    <3>3. Enqueued(Poll(d)) \in [Task -> SUBSET Task]
      BY <1>a, <3>2
    <3> QED
      BY <3>1, <3>3, <1>0
  <2>3. running' = {} \/ running' = {Poll(d)}
    BY <1>4 DEF PollWake
  <2>4. UNCHANGED <<rows, op, mem, phase>>
    BY <1>4 DEF PollWake
  <2> QED
    BY <2>1, <2>2, <2>3, <2>4, TaskNames DEF TypeOK
<1>5. CASE PollRead(d)
  <2>1. pc' \in [Task -> Places]
    BY <1>5, <1>0, <1>c, TaskNames DEF PollRead
  <2>2. running' = {} \/ running' = {Poll(d)}
    BY <1>5 DEF PollRead
  <2>3. UNCHANGED <<rows, op, mem, ahead, phase>>
    BY <1>5 DEF PollRead
  <2> QED
    BY <2>1, <2>2, <2>3, TaskNames DEF TypeOK
<1>6. CASE DeleteBegin(d)
  <2>1. pc' \in [Task -> Places]
    BY <1>6, <1>0, <1>c, TaskNames DEF DeleteBegin, StopPolling
  <2>2. ahead' \in [Task -> SUBSET Task]
    BY <1>6, <1>0, <1>a, TaskNames DEF DeleteBegin, StopPolling
  <2>3. running' = {} \/ running' = {Deletion(d)}
    BY <1>6 DEF DeleteBegin, StopPolling
  <2>4. UNCHANGED <<rows, op, mem, phase>>
    BY <1>6 DEF DeleteBegin, StopPolling
  <2> QED
    BY <2>1, <2>2, <2>3, <2>4, TaskNames DEF TypeOK
<1>7. CASE DeleteRelease(d)
  <2>1. pc' \in [Task -> Places]
    BY <1>7, <1>0, <1>c, TaskNames DEF DeleteRelease
  <2>2. ahead' \in [Task -> SUBSET Task]
    BY <1>7, <1>0, <1>a, TaskNames DEF DeleteRelease
  <2>3. {owner', connected', link'} \subseteq Devices \cup {NoDevice}
    BY <1>7, <1>0 DEF DeleteRelease
  <2>4. running' = {} \/ running' = {Deletion(d)}
    BY <1>7 DEF DeleteRelease
  <2>5. UNCHANGED <<rows, op, owner, link, cache, phase>>
    BY <1>7 DEF DeleteRelease
  <2> QED
    BY <2>1, <2>2, <2>3, <2>4, <2>5, TaskNames DEF TypeOK
<1>8. CASE DeleteErase(d)
  <2>1. pc' \in [Task -> Places]
    BY <1>8, <1>0, <1>c, TaskNames DEF DeleteErase
  <2>2. {owner', connected', link'} \subseteq Devices \cup {NoDevice}
    BY <1>8, <1>0 DEF DeleteErase
  <2>3. cache' \in [Devices -> {"none", "fresh", "current"}]
    BY <1>8, <1>0 DEF DeleteErase
  <2>4. running' = {} \/ running' = {Deletion(d)}
    BY <1>8 DEF DeleteErase
  <2>5. UNCHANGED <<auto, desired, observed, op, connected, link, ahead, phase>> /\ registered' \subseteq registered
    BY <1>8 DEF DeleteErase
  <2> QED
    BY <2>1, <2>2, <2>3, <2>4, <2>5, TaskNames DEF TypeOK
<1>9. CASE \E valid, overdue \in BOOLEAN : PollDone(d, valid, overdue)
  <2>0. PICK valid, overdue \in BOOLEAN : PollDone(d, valid, overdue)
    BY <1>9
  <2>1. pc' \in [Task -> Places]
    <3>1. \A place \in {"idle", "sleep"} : [pc EXCEPT ![Poll(d)] = place] \in [Task -> Places]
      BY <1>0, <1>c, TaskNames
    <3>2. \/ pc' = Scheduled([pc EXCEPT ![Poll(d)] = "idle"], d)
          \/ \E place \in {"idle", "sleep"} : pc' = [pc EXCEPT ![Poll(d)] = place]
      BY <2>0 DEF PollDone
    <3>3. Scheduled([pc EXCEPT ![Poll(d)] = "idle"], d) \in [Task -> Places]
      BY <3>1, MovesType
    <3> QED
      BY <3>1, <3>2, <3>3
  <2>2. ahead' \in [Task -> SUBSET Task] /\ running' = {}
    BY <2>0, <1>a DEF PollDone
  <2>3. observed' \in [Devices -> {"discovered", "disconnected", "backoff", "degraded", "polling"}]
    <3>1. PICK o \in {"backoff", "polling", "degraded", observed[d]} :
            observed' = Written(observed, d, o)
      BY <2>0 DEF PollDone
    <3>2. observed[d] \in {"discovered", "disconnected", "backoff", "degraded", "polling"}
      BY DEF TypeOK
    <3> QED
      BY <3>1, <3>2, <1>b
  <2>4. UNCHANGED <<registered, auto, desired, op, mem, phase>>
    BY <2>0 DEF PollDone
  <2> QED
    BY <2>1, <2>2, <2>3, <2>4 DEF TypeOK
<1> QED
  BY <1>1, <1>2, <1>3, <1>4, <1>5, <1>6, <1>7, <1>8, <1>9 DEF DeviceStep

LEMMA RequestType ==
  ASSUME TypeOK, NEW d \in Devices, Request(d)
  PROVE  TypeOK'
<1> USE TaskNames, CommandNames, CancelledType DEF rows, mem, Goto, Proceed
<1> USE DEF TypeOK, Places, Contending, Waiting, Holding, Pending
<1>1. CASE \E automatic \in BOOLEAN : Register(d, automatic)
  BY <1>1 DEF Register
<1>2. CASE \E a \in Commands[d] : Command(d, a)
  <2>1. pc' \in [Task -> Places]
    BY <1>2 DEF Command
  <2>2. op' \in [Job -> Pending \cup {"done"}]
    BY <1>2 DEF Command
  <2>3. desired' \in [Devices -> {"connected", "disconnected"}]
    BY <1>2 DEF Command
  <2>4. {owner', connected', link'} \subseteq Devices \cup {NoDevice}
    BY <1>2 DEF Command
  <2> QED
    BY <1>2, <2>1, <2>2, <2>3, <2>4 DEF Command
<1>3. CASE Patch(d)
  BY <1>3 DEF Patch
<1>4. CASE Delete(d)
  <2>1. pc' \in [Task -> Places]
    <3>1. \/ pc' = [pc EXCEPT ![Deletion(d)] = "begin"]
          \/ pc' = [CancelledPc({Recover(d)}) EXCEPT ![Deletion(d)] = "stopRec"]
      BY <1>4 DEF Delete, StopRecovery, Deletion
    <3> QED
      BY <3>1
  <2>2. ahead' \in [Task -> SUBSET Task]
    BY <1>4 DEF Delete, StopRecovery
  <2>3. op' \in [Job -> Pending \cup {"done"}]
    BY <1>4 DEF Delete
  <2>4. running' = {} \/ running' = {Deletion(d)}
    BY <1>4 DEF Delete, StopRecovery
  <2> QED
    BY <1>4, <2>1, <2>2, <2>3, <2>4 DEF Delete
<1> QED
  BY <1>1, <1>2, <1>3, <1>4 DEF Request

LEMMA ServiceStepType ==
  ASSUME TypeOK,
         StartScan \/ ScanRun \/ LoopWake \/ LinkLost \/ Restart \/ Crash \/ Close \/ CloseStep
  PROVE  TypeOK'
<1> USE TaskNames, CancelledType, MovesType DEF rows, mem, Goto, Acquire, CancelAll, Phases
<1> USE DEF TypeOK, Places, Contending, Waiting, Holding, Pending
<1>1. CASE StartScan
  BY <1>1 DEF StartScan
<1>2. CASE ScanRun
  BY <1>2 DEF ScanRun
<1>3. CASE LoopWake
  BY <1>3 DEF LoopWake
<1>4. CASE LinkLost
  BY <1>4 DEF LinkLost
<1>5. CASE Restart
  <2>1. pc' \in [Task -> Places]
    BY <1>5 DEF Restart, Interrupted, Rebooted
  <2>2. op' \in [Job -> Pending \cup {"done"}]
    BY <1>5 DEF Restart, Interrupted, Rebooted
  <2>3. observed' \in [Devices -> {"discovered", "disconnected", "backoff", "degraded", "polling"}]
    BY <1>5 DEF Restart, Interrupted, Rebooted
  <2>4. {owner', connected', link'} \subseteq Devices \cup {NoDevice}
    BY <1>5 DEF Restart, Interrupted, Rebooted
  <2> QED
    BY <1>5, <2>1, <2>2, <2>3, <2>4 DEF Restart, Interrupted, Rebooted
<1>6. CASE Crash
  BY <1>6 DEF Crash
<1>7. CASE Close
  BY <1>7 DEF Close
<1>8. CASE CloseOperations
  BY <1>8 DEF CloseOperations
<1>9. CASE CloseRecoveries
  BY <1>9 DEF CloseRecoveries
<1>10. CASE ClosePolls
  BY <1>10 DEF ClosePolls
<1>11. CASE CloseAdapter
  <2>1. op' \in [Job -> Pending \cup {"done"}]
    BY <1>11 DEF CloseAdapter, Interrupted
  <2>2. observed' \in [Devices -> {"discovered", "disconnected", "backoff", "degraded", "polling"}]
    BY <1>11 DEF CloseAdapter, Interrupted
  <2>3. {owner', connected', link'} \subseteq Devices \cup {NoDevice}
    BY <1>11 DEF CloseAdapter, Interrupted
  <2> QED
    BY <1>11, <2>1, <2>2, <2>3 DEF CloseAdapter, Interrupted
<1> QED
  BY <1>1, <1>2, <1>3, <1>4, <1>5, <1>6, <1>7, <1>8, <1>9, <1>10, <1>11 DEF CloseStep

\* Every variable of the service keeps its type, for every set of devices and every constant.
THEOREM TypeCorrect == Spec => []TypeOK
<1>1. TypeOK /\ [Next]_vars => TypeOK'
  <2> SUFFICES ASSUME TypeOK, [Next]_vars PROVE TypeOK'
    OBVIOUS
  <2>1. CASE UNCHANGED vars
    BY <2>1 DEF TypeOK, vars, rows, mem
  <2> QED
    BY <2>1, TaskStepType, DeviceStepType, RequestType, ServiceStepType DEF Next
<1> QED
  BY InitType, <1>1, PTL DEF Spec
=============================================================================
