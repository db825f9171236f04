--------------------------- MODULE AdministrationLock ---------------------------
(* The adapter lock excludes, and no operation is lost, for every set of       *)
(* devices and whatever is asked.                                              *)
EXTENDS AdministrationProofs

(***************************************************************************)
(* The inductive invariant                                                 *)
(***************************************************************************)
\* Whoever is waited for contends, any two contenders are ordered, and a holder is first.
LockOrder ==
  /\ \A t \in Task : ahead[t] \subseteq Contenders \ {t}
  /\ \A t, u \in Contenders : t = u \/ t \in ahead[u] \/ u \in ahead[t]
  /\ \A t \in Task : pc[t] \in Holding => ahead[t] = {}

\* The task of the requested scan is idle unless its operation is pending, and once close
\* has cancelled it.
ScanTracked ==
  /\ pc[Scan] \in {"idle", "queued", "lock", "discover"}
  /\ op[Scan] \notin Pending => pc[Scan] = "idle"
  /\ phase \notin {"up", "closing"} => pc[Scan] = "idle"

DownIdle == phase = "down" => \A t \in Task : pc[t] = "idle"

LockInv == TypeOK /\ LockOrder /\ ScanTracked /\ DownIdle

(***************************************************************************)
(* What a step may do to the lock                                          *)
(***************************************************************************)
\* Nobody comes or goes, and the lock is taken only by a task that is first.
LEMMA Stay ==
  ASSUME TypeOK, LockOrder, UNCHANGED ahead,
         \A u \in Task : /\ pc'[u] \in Contending <=> pc[u] \in Contending
                         /\ pc'[u] \in Holding => pc[u] \in Holding \/ ahead[u] = {}
  PROVE  LockOrder'
BY DEF LockOrder, Contenders

\* A task joins the end of the queue.
LEMMA Enter ==
  ASSUME TypeOK, LockOrder, NEW t \in Task, NEW place \in Waiting,
         ahead' = Enqueued(t), pc' = [pc EXCEPT ![t] = place]
  PROVE  LockOrder'
<1>1. place \in Contending /\ place \notin Holding
  BY DEF Contending, Waiting, Holding
<1>2. \A u \in Task : pc'[u] = IF u = t THEN place ELSE pc[u]
  BY DEF TypeOK
<1>3. Contenders' = Contenders \cup {t}
  BY <1>1, <1>2 DEF Contenders
<1>4. \A u \in Task : ahead'[u] = IF u = t THEN Contenders \ {t} ELSE ahead[u] \ {t}
  BY DEF Enqueued
<1>5. Contenders \subseteq Task
  BY DEF Contenders
<1>6. ASSUME NEW u \in Task PROVE ahead'[u] \subseteq Contenders' \ {u}
  <2>1. ahead[u] \subseteq Contenders \ {u}
    BY DEF LockOrder
  <2>2. CASE u = t
    BY <1>3, <1>4, <2>2
  <2>3. CASE u # t
    BY <1>3, <1>4, <2>1, <2>3
  <2> QED
    BY <2>2, <2>3
<1>7. ASSUME NEW u \in Contenders', NEW v \in Contenders', u # v
      PROVE  u \in ahead'[v] \/ v \in ahead'[u]
  BY <1>3, <1>4, <1>5, <1>7 DEF LockOrder
<1>8. \A u \in Task : pc'[u] \in Holding => ahead'[u] = {}
  BY <1>1, <1>2, <1>4 DEF LockOrder
<1> QED
  BY <1>6, <1>7, <1>8 DEF LockOrder

\* The tasks of T go.
LEMMA Leave ==
  ASSUME TypeOK, LockOrder, NEW T, ahead' = Released(T),
         \A u \in Task : u \in T => pc'[u] \notin Contending,
         \A u \in Task \ T : /\ pc'[u] \in Contending <=> pc[u] \in Contending
                             /\ pc'[u] \in Holding => pc[u] \in Holding \/ ahead[u] = {}
  PROVE  LockOrder'
<1>1. Contenders' = Contenders \ T
  BY DEF Contenders
<1>2. \A u \in Task : ahead'[u] = IF u \in T THEN {} ELSE ahead[u] \ T
  BY DEF Released
<1>3. ASSUME NEW u \in Task PROVE ahead'[u] \subseteq Contenders' \ {u}
  <2>1. ahead[u] \subseteq Contenders \ {u}
    BY DEF LockOrder
  <2> QED
    BY <1>1, <1>2, <2>1
<1>4. ASSUME NEW u \in Contenders', NEW v \in Contenders', u # v
      PROVE  u \in ahead'[v] \/ v \in ahead'[u]
  <2>1. u \in Task /\ v \in Task
    BY DEF Contenders
  <2>2. u \in ahead[v] \/ v \in ahead[u]
    BY <1>1, <1>4 DEF LockOrder
  <2> QED
    BY <1>1, <1>2, <2>1, <2>2
<1>5. \A u \in Task : pc'[u] \in Holding => ahead'[u] = {}
  BY <1>2 DEF LockOrder, Contending
<1> QED
  BY <1>3, <1>4, <1>5 DEF LockOrder

\* A task that is first is the only one to be first.
LEMMA First ==
  ASSUME LockOrder, NEW t \in Contenders, NEW u \in Contenders, ahead[t] = {}, ahead[u] = {}
  PROVE  t = u
BY DEF LockOrder

LEMMA Exclusive == LockOrder => CallsApart
BY First DEF LockOrder, CallsApart, Contenders, Contending

\* A task moves on without giving the lock up or asking for it.
LEMMA Move ==
  ASSUME TypeOK, LockOrder, NEW t \in Task, NEW place,
         pc' = [pc EXCEPT ![t] = place], UNCHANGED ahead,
         place \in Contending <=> pc[t] \in Contending,
         place \in Holding => pc[t] \in Holding \/ ahead[t] = {}
  PROVE  LockOrder'
<1>1. \A u \in Task : pc'[u] = IF u = t THEN place ELSE pc[u]
  BY DEF TypeOK
<1> QED
  BY <1>1, Stay

\* A task gives the lock up.
LEMMA Quit ==
  ASSUME TypeOK, LockOrder, NEW t \in Task, NEW place, place \notin Contending,
         pc' = [pc EXCEPT ![t] = place], ahead' = Released({t})
  PROVE  LockOrder'
<1>1. \A u \in Task : pc'[u] = IF u = t THEN place ELSE pc[u]
  BY DEF TypeOK
<1> QED
  BY <1>1, Leave

\* A task gives the lock up and has the device recovered: the recovery that may still
\* unwind would hold the lock, so there is none.
LEMMA GiveUp ==
  ASSUME TypeOK, LockOrder, NEW t \in Task, NEW d, t # Recover(d),
         pc[t] \in Contending, ahead[t] = {},
         pc' = Scheduled([pc EXCEPT ![t] = "idle"], d), ahead' = Released({t})
  PROVE  LockOrder'
<1>1. CASE Wanted(d) /\ ~Recovering(d)
  <2>1. Recover(d) \in Task
    BY <1>1, TaskNames DEF Wanted, TypeOK
  <2>2. pc[Recover(d)] # "unwind"
    <3> SUFFICES ASSUME pc[Recover(d)] = "unwind" PROVE FALSE
      OBVIOUS
    <3>1. pc[Recover(d)] \in Holding /\ pc[Recover(d)] \in Contending
      BY DEF Holding, Contending
    <3> QED
      BY <2>1, <3>1, First DEF LockOrder, Contenders
  <2>3. pc[Recover(d)] \notin Contending /\ "check" \notin Contending /\ "idle" \notin Contending
    BY <1>1, <2>2 DEF Recovering, Contending, Waiting, Holding
  <2>4. \A u \in Task : pc'[u] = IF u = Recover(d) THEN "check" ELSE IF u = t THEN "idle" ELSE pc[u]
    BY <1>1, <2>1 DEF Scheduled, TypeOK
  <2>5. \A u \in Task : pc'[u] \in Contending => pc[u] \in Contending /\ u # t
    BY <2>3, <2>4
  <2>6. \A u \in Task \ {t} : pc'[u] \in Contending <=> pc[u] \in Contending
    BY <2>3, <2>4
  <2>7. \A u \in Task \ {t} : pc'[u] \in Holding => pc[u] \in Holding
    BY <2>3, <2>4 DEF Contending
  <2> QED
    BY <2>5, <2>6, <2>7, Leave
<1>2. CASE ~(Wanted(d) /\ ~Recovering(d))
  <2>1. pc' = [pc EXCEPT ![t] = "idle"]
    BY <1>2 DEF Scheduled
  <2> QED
    BY <2>1, Quit DEF Contending, Waiting, Holding
<1> QED
  BY <1>1, <1>2

LEMMA FailLock ==
  ASSUME TypeOK, LockOrder, NEW t \in Task, pc[t] \in Holding, Fail(t)
  PROVE  LockOrder'
<1>1. pc[t] \in Contending /\ ahead[t] = {}
  BY DEF LockOrder, Contending
<1>2. CASE t[1] = "recover"
  <2>1. pc' = [pc EXCEPT ![t] = "check"] /\ ahead' = Released({t})
    BY <1>2 DEF Fail, Proceed, Goto
  <2> QED
    BY <2>1, Quit DEF Contending, Waiting, Holding
<1>3. CASE t[1] # "recover"
  <2>1. t # Recover(t[2])
    BY <1>3 DEF Recover
  <2> QED
    BY <1>1, <1>3, <2>1, GiveUp DEF Fail
<1> QED
  BY <1>2, <1>3

\* Tasks are cancelled: one that still unwinds keeps the lock.
LEMMA Cancelled ==
  ASSUME TypeOK, LockOrder, NEW T,
         \A u \in Task :
           pc'[u] = CancelledPc(T)[u] \/ (pc[u] \notin Contending /\ pc'[u] \notin Contending),
         ahead' = Released(Ends(T))
  PROVE  LockOrder'
<1>1. "idle" \notin Contending /\ Undoing \subseteq Holding
      /\ Undoing \subseteq Contending /\ "unwind" \in Holding /\ "unwind" \in Contending
  BY DEF Contending, Waiting, Holding, Undoing
<1>2. \A u \in Task : CancelledPc(T)[u] = IF u \notin T THEN pc[u]
                                         ELSE IF u \in Ends(T) THEN "idle" ELSE "unwind"
  BY DEF CancelledPc
<1>3. \A u \in T : u \notin Ends(T) => pc[u] \in Holding /\ pc[u] \in Contending
  BY <1>1 DEF Ends
<1>4. \A u \in Task : u \in Ends(T) => pc'[u] \notin Contending
  BY <1>1, <1>2 DEF Ends
<1>5. \A u \in Task \ Ends(T) : pc'[u] \in Contending <=> pc[u] \in Contending
  BY <1>1, <1>2, <1>3
<1>6. \A u \in Task \ Ends(T) : pc'[u] \in Holding => pc[u] \in Holding
  BY <1>1, <1>2, <1>3 DEF Contending
<1> QED
  BY <1>4, <1>5, <1>6, Leave

LEMMA StopRecoveryLock ==
  ASSUME TypeOK, LockOrder, NEW t \in Task, pc[t] \notin Contending, StopRecovery(t)
  PROVE  LockOrder'
<1>1. CASE Recovering(t[2])
  <2>1. /\ pc' = [CancelledPc({Recover(t[2])}) EXCEPT ![t] = "stopRec"]
        /\ ahead' = Released(Ends({Recover(t[2])}))
    BY <1>1 DEF StopRecovery
  <2>2. \A u \in Task : pc'[u] = CancelledPc({Recover(t[2])})[u] \/ (u = t /\ pc'[u] = "stopRec")
    BY <2>1, CancelledType
  <2>3. "stopRec" \notin Contending
    BY DEF Contending, Waiting, Holding
  <2> DEFINE T == {Recover(t[2])}
  <2>4. \A u \in Task :
           pc'[u] = CancelledPc(T)[u] \/ (pc[u] \notin Contending /\ pc'[u] \notin Contending)
    BY <2>2, <2>3
  <2>5. ahead' = Released(Ends(T))
    BY <2>1
  <2> HIDE DEF T
  <2> QED
    BY <2>4, <2>5, Cancelled
<1>2. CASE ~Recovering(t[2])
  <2>1. pc' = [pc EXCEPT ![t] = "begin"] /\ UNCHANGED ahead
    BY <1>2 DEF StopRecovery, Proceed, Goto
  <2> QED
    BY <2>1, Move DEF Contending, Waiting, Holding
<1> QED
  BY <1>1, <1>2

LEMMA StopPollingLock ==
  ASSUME TypeOK, LockOrder, NEW t \in Task, pc[t] \notin Contending, StopPolling(t)
  PROVE  LockOrder'
<1> DEFINE T == {Poll(t[2])}
<1>1. \A u \in Task : pc'[u] = IF u = t THEN "teardown" ELSE IF u = Poll(t[2]) THEN "idle" ELSE pc[u]
  BY DEF StopPolling, TypeOK
<1>2. "idle" \notin Contending /\ "teardown" \notin Contending
  BY DEF Contending, Waiting, Holding
<1>3. ahead' = Released(T)
  BY DEF StopPolling
<1>4. \A u \in Task \ T : /\ pc'[u] \in Contending <=> pc[u] \in Contending
                          /\ pc'[u] \in Holding => pc[u] \in Holding
  BY <1>1, <1>2 DEF Contending
<1>5. \A u \in Task : u \in T => pc'[u] \notin Contending
  BY <1>1, <1>2
<1> HIDE DEF T
<1> QED
  BY <1>3, <1>4, <1>5, Leave

(***************************************************************************)
(* The lock order is kept by every step                                    *)
(***************************************************************************)
LEMMA TaskStepLock ==
  ASSUME LockInv, NEW t \in Task, TaskStep(t)
  PROVE  LockOrder'
<1>0. TypeOK /\ LockOrder
  BY DEF LockInv
<1>a. /\ {"lockOff", "lockOn", "lock"} = Waiting /\ Waiting \subseteq Contending
      /\ Holding \subseteq Contending
      /\ {"idle", "queued", "begin", "stopRec", "teardown", "check", "sleep", "erase"} \cap Contending = {}
      /\ {"off", "bluez", "discover", "release", "rediscover", "dial", "linking", "cleanup", "unwind",
          "read"} \subseteq Holding
  BY DEF Contending, Waiting, Holding
<1> USE DEF Goto, Pause, Proceed, Stage
<1>1. CASE Start(t)
  <2>1. pc[t] = "queued"
    BY <1>1 DEF Start
  <2>2. CASE StopRecovery(t)
    BY <1>0, <1>a, <2>1, <2>2, StopRecoveryLock
  <2>3. CASE pc' = [pc EXCEPT ![t] = "idle"] /\ UNCHANGED ahead
    BY <1>0, <1>a, <2>1, <2>3, Move
  <2> QED
    BY <1>1, <2>2, <2>3 DEF Start
<1>2. CASE Prepare(t)
  <2>1. pc[t] \in {"begin", "stopRec"}
    BY <1>2 DEF Prepare, Stopped
  <2>2. CASE StopPolling(t)
    BY <1>0, <1>a, <2>1, <2>2, StopPollingLock
  <2>3. CASE pc' = [pc EXCEPT ![t] = "idle"] /\ UNCHANGED ahead
    BY <1>0, <1>a, <2>1, <2>3, Move
  <2>4. CASE Acquire(t, "lockOn")
    BY <1>0, <1>a, <2>4, Enter DEF Acquire
  <2> QED
    BY <1>2, <2>2, <2>3, <2>4 DEF Prepare
<1>3. CASE TakeAdapter(t)
  <2>1. pc[t] = "teardown"
    BY <1>3 DEF TakeAdapter
  <2>2. CASE pc' = [pc EXCEPT ![t] = "idle"] /\ UNCHANGED ahead
    BY <1>0, <1>a, <2>1, <2>2, Move
  <2>3. CASE Acquire(t, "lockOff")
    BY <1>0, <1>a, <2>3, Enter DEF Acquire
  <2> QED
    BY <1>3, <2>2, <2>3 DEF TakeAdapter, Disconnected
<1>4. CASE SwitchOff(t)
  <2>1. PICK place \in {"off"} : pc' = [pc EXCEPT ![t] = place] /\ UNCHANGED ahead
    BY <1>4 DEF SwitchOff
  <2>2. pc[t] = "lockOff" /\ ahead[t] = {}
    BY <1>4 DEF SwitchOff
  <2> QED
    BY <1>0, <1>a, <2>1, <2>2, Move
<1>5. CASE BeginRelease(t)
  <2>1. PICK place \in {"bluez"} : pc' = [pc EXCEPT ![t] = place] /\ UNCHANGED ahead
    BY <1>5 DEF BeginRelease
  <2>2. pc[t] = "off"
    BY <1>5 DEF BeginRelease
  <2> QED
    BY <1>0, <1>a, <2>1, <2>2, Move
<1>6. CASE EndRelease(t)
  <2>1. pc[t] = "bluez"
    BY <1>6 DEF EndRelease
  <2>2. CASE Acquire(t, "lockOn")
    BY <1>0, <1>a, <2>2, Enter DEF Acquire
  <2>3. CASE Fail(t)
    BY <1>0, <1>a, <2>1, <2>3, FailLock
  <2> QED
    BY <1>6, <2>2, <2>3 DEF EndRelease
<1>7. CASE Resolve(t)
  <2>1. PICK place \in {"dial", "discover"} : pc' = [pc EXCEPT ![t] = place] /\ UNCHANGED ahead
    BY <1>7 DEF Resolve
  <2>2. pc[t] = "lockOn" /\ ahead[t] = {}
    BY <1>7 DEF Resolve
  <2> QED
    BY <1>0, <1>a, <2>1, <2>2, Move
<1>8. CASE Unhide(t)
  <2>1. PICK place \in {"rediscover"} : pc' = [pc EXCEPT ![t] = place] /\ UNCHANGED ahead
    BY <1>8 DEF Unhide
  <2>2. pc[t] = "release"
    BY <1>8 DEF Unhide
  <2> QED
    BY <1>0, <1>a, <2>1, <2>2, Move
<1>9. CASE CallFails(t)
  <2>1. pc[t] \in Holding /\ Fail(t)
    BY <1>9, <1>a DEF CallFails
  <2> QED
    BY <1>0, <2>1, FailLock
<1>10. CASE Dial(t)
  <2>1. PICK place \in {"read", "linking"} : pc' = [pc EXCEPT ![t] = place] /\ UNCHANGED ahead
    BY <1>10 DEF Dial
  <2>2. pc[t] = "dial"
    BY <1>10 DEF Dial
  <2> QED
    BY <1>0, <1>a, <2>1, <2>2, Move
<1>11. CASE Connect(t)
  <2>1. PICK place \in {"read"} : pc' = [pc EXCEPT ![t] = place] /\ UNCHANGED ahead
    BY <1>11 DEF Connect
  <2>2. pc[t] = "linking"
    BY <1>11 DEF Connect
  <2> QED
    BY <1>0, <1>a, <2>1, <2>2, Move
<1>12. CASE CleanUp(t)
  <2>1. PICK place \in {"cleanup"} : pc' = [pc EXCEPT ![t] = place] /\ UNCHANGED ahead
    BY <1>12 DEF CleanUp
  <2>2. pc[t] = "linking"
    BY <1>12 DEF CleanUp
  <2> QED
    BY <1>0, <1>a, <2>1, <2>2, Move
<1>13. CASE Unwound(t)
  <2>1. pc' = [pc EXCEPT ![t] = "idle"] /\ ahead' = Released({t})
    BY <1>13 DEF Unwound
  <2> QED
    BY <1>0, <1>a, <2>1, Quit
<1>14. CASE FirstRead(t)
  <2> DEFINE T == {t, Poll(t[2])}
  <2>1. ahead' = Released(T)
    BY <1>14 DEF FirstRead
  <2>2. \A u \in Task : pc'[u] = IF u = Poll(t[2]) THEN "sleep" ELSE IF u = t THEN "idle" ELSE pc[u]
    BY <1>0, <1>14 DEF FirstRead, TypeOK
  <2>3. \A u \in Task : u \in T => pc'[u] \notin Contending
    BY <1>a, <2>2
  <2>4. \A u \in Task \ T : pc'[u] = pc[u]
    BY <2>2
  <2> HIDE DEF T
  <2> QED
    BY <1>0, <2>1, <2>3, <2>4, Leave
<1>15. CASE ScanBegin(t)
  <2>1. PICK place \in {"discover"} : pc' = [pc EXCEPT ![t] = place] /\ UNCHANGED ahead
    BY <1>15 DEF ScanBegin
  <2>2. pc[t] = "lock" /\ ahead[t] = {}
    BY <1>15 DEF ScanBegin
  <2> QED
    BY <1>0, <1>a, <2>1, <2>2, Move
<1>16. CASE \E S \in SUBSET Devices : Discovered(t, S)
  <2>0. PICK S \in SUBSET Devices : Discovered(t, S)
    BY <1>16
  <2>1. pc[t] \in Holding
    BY <2>0, <1>a DEF Discovered
  <2>2. CASE Fail(t)
    BY <1>0, <2>1, <2>2, FailLock
  <2>3. CASE \E place \in {"dial", "release"} : pc' = [pc EXCEPT ![t] = place] /\ UNCHANGED ahead
    <3>1. PICK place \in {"dial", "release"} : pc' = [pc EXCEPT ![t] = place] /\ UNCHANGED ahead
      BY <2>3
    <3> QED
      BY <1>0, <1>a, <2>1, <3>1, Move
  <2> QED
    BY <2>0, <2>2, <2>3 DEF Discovered
<1>17. CASE \E S \in SUBSET Devices, ok \in BOOLEAN : ScanEnd(t, S, ok)
  <2>1. pc' = [pc EXCEPT ![t] = "idle"] /\ ahead' = Released({t})
    BY <1>17 DEF ScanEnd
  <2> QED
    BY <1>0, <1>a, <2>1, Quit
<1> QED
  BY <1>1, <1>2, <1>3, <1>4, <1>5, <1>6, <1>7, <1>8, <1>9, <1>10, <1>11, <1>12, <1>13, <1>14,
     <1>15, <1>16, <1>17 DEF TaskStep

LEMMA DeviceStepLock ==
  ASSUME LockInv, NEW d \in Devices, DeviceStep(d)
  PROVE  LockOrder'
<1>0. TypeOK /\ LockOrder
  BY DEF LockInv
<1>a. /\ {"lockOff", "lockOn", "lock"} = Waiting /\ Waiting \subseteq Contending
      /\ Holding \subseteq Contending
      /\ {"idle", "begin", "boot", "stopRec", "teardown", "check", "sleep", "erase"} \cap Contending = {}
      /\ {"off", "read"} \subseteq Holding
  BY DEF Contending, Waiting, Holding
<1>b. /\ Recover(d) \in Task /\ Poll(d) \in Task /\ Deletion(d) \in Task
      /\ <<"disconnect", d>> \in Task
  BY TaskNames
<1> USE DEF Goto, Pause, Proceed, Stage
<1>1. CASE FinishDisconnect(d)
  <2>1. pc' = [pc EXCEPT ![<<"disconnect", d>>] = "idle"] /\ ahead' = Released({<<"disconnect", d>>})
    BY <1>1 DEF FinishDisconnect, Disconnected
  <2> QED
    BY <1>0, <1>a, <1>b, <2>1, Quit
<1>2. CASE RecoverCheck(d)
  <2>1. PICK place \in {"idle", "begin", "sleep"} : pc' = [pc EXCEPT ![Recover(d)] = place] /\ UNCHANGED ahead
    BY <1>2 DEF RecoverCheck
  <2>2. pc[Recover(d)] \in {"boot", "check"}
    BY <1>2 DEF RecoverCheck
  <2> QED
    BY <1>0, <1>a, <1>b, <2>1, <2>2, Move
<1>3. CASE RecoverRun(d)
  <2>1. pc[Recover(d)] \in {"begin", "sleep"}
    BY <1>3 DEF RecoverRun
  <2>2. CASE StopPolling(Recover(d))
    BY <1>0, <1>a, <1>b, <2>1, <2>2, StopPollingLock
  <2>3. CASE pc' = [pc EXCEPT ![Recover(d)] = "check"] /\ UNCHANGED ahead
    BY <1>0, <1>a, <1>b, <2>1, <2>3, Move
  <2> QED
    BY <1>3, <2>2, <2>3 DEF RecoverRun
<1>4. CASE PollWake(d)
  <2>1. pc[Poll(d)] = "sleep"
    BY <1>4 DEF PollWake
  <2>2. CASE Acquire(Poll(d), "lock")
    BY <1>0, <1>a, <1>b, <2>2, Enter DEF Acquire
  <2>3. CASE pc' = [pc EXCEPT ![Poll(d)] = "idle"] /\ UNCHANGED ahead
    BY <1>0, <1>a, <1>b, <2>1, <2>3, Move
  <2> QED
    BY <1>4, <2>2, <2>3 DEF PollWake
<1>5. CASE PollRead(d)
  <2>1. PICK place \in {"read"} : pc' = [pc EXCEPT ![Poll(d)] = place] /\ UNCHANGED ahead
    BY <1>5 DEF PollRead
  <2>2. pc[Poll(d)] = "lock" /\ ahead[Poll(d)] = {}
    BY <1>5 DEF PollRead
  <2> QED
    BY <1>0, <1>a, <1>b, <2>1, <2>2, Move
<1>6. CASE DeleteBegin(d)
  <2>1. pc[Deletion(d)] \in {"begin", "stopRec"}
    BY <1>6 DEF DeleteBegin, Stopped
  <2>2. CASE StopPolling(Deletion(d))
    BY <1>0, <1>a, <1>b, <2>1, <2>2, StopPollingLock
  <2>3. CASE pc' = [pc EXCEPT ![Deletion(d)] = "erase"] /\ UNCHANGED ahead
    BY <1>0, <1>a, <1>b, <2>1, <2>3, Move
  <2> QED
    BY <1>6, <2>2, <2>3 DEF DeleteBegin
<1>7. CASE DeleteRelease(d)
  <2>1. pc' = [pc EXCEPT ![Deletion(d)] = "erase"] /\ ahead' = Released({Deletion(d)})
    BY <1>7 DEF DeleteRelease
  <2> QED
    BY <1>0, <1>a, <1>b, <2>1, Quit
<1>8. CASE DeleteErase(d)
  <2>1. PICK place \in {"idle"} : pc' = [pc EXCEPT ![Deletion(d)] = place] /\ UNCHANGED ahead
    BY <1>8 DEF DeleteErase
  <2>2. pc[Deletion(d)] = "erase"
    BY <1>8 DEF DeleteErase
  <2> QED
    BY <1>0, <1>a, <1>b, <2>1, <2>2, Move
<1>9. CASE \E valid, overdue \in BOOLEAN : PollDone(d, valid, overdue)
  <2>0. PICK valid, overdue \in BOOLEAN : PollDone(d, valid, overdue)
    BY <1>9
  <2>1. pc[Poll(d)] \in Contending /\ ahead[Poll(d)] = {}
    BY <2>0, <1>0, <1>a, <1>b DEF PollDone, LockOrder
  <2>2. ahead' = Released({Poll(d)})
    BY <2>0 DEF PollDone
  <2>3. CASE pc' = Scheduled([pc EXCEPT ![Poll(d)] = "idle"], d)
    <3>1. Poll(d) # Recover(d)
      BY DEF Poll, Recover
    <3> QED
      BY <1>0, <1>b, <2>1, <2>2, <2>3, <3>1, GiveUp
  <2>4. CASE \E place \in {"idle", "sleep"} : pc' = [pc EXCEPT ![Poll(d)] = place]
    BY <1>0, <1>a, <1>b, <2>2, <2>4, Quit
  <2> QED
    BY <2>0, <2>3, <2>4 DEF PollDone
<1> QED
  BY <1>1, <1>2, <1>3, <1>4, <1>5, <1>6, <1>7, <1>8, <1>9 DEF DeviceStep

LEMMA RequestLock ==
  ASSUME LockInv, NEW d \in Devices, Request(d)
  PROVE  LockOrder'
<1>0. TypeOK /\ LockOrder
  BY DEF LockInv
<1>a. {"idle", "queued"} \cap Contending = {}
  BY DEF Contending, Waiting, Holding
<1>b. Holding \subseteq Contending
  BY DEF Contending
<1>1. CASE (\E automatic \in BOOLEAN : Register(d, automatic)) \/ Patch(d)
  <2>1. UNCHANGED <<pc, ahead>>
    BY <1>1 DEF Register, Patch
  <2> QED
    BY <1>0, <2>1, Stay
<1>2. CASE \E a \in Commands[d] : Command(d, a)
  <2>0. PICK a \in Commands[d] : Command(d, a)
    BY <1>2
  <2>1. <<a, d>> \in Requested /\ <<a, d>> \in Task
    BY TaskNames, CommandNames
  <2>2. pc[<<a, d>>] = "idle"
    BY <2>0, <2>1 DEF Command, Busy, Alive
  <2>3. pc' = [pc EXCEPT ![<<a, d>>] = "queued"] /\ UNCHANGED ahead
    BY <2>0 DEF Command, Goto
  <2> QED
    BY <1>0, <1>a, <1>b, <2>1, <2>2, <2>3, Move
<1>3. CASE Delete(d)
  <2>1. pc[Deletion(d)] \notin Contending /\ StopRecovery(Deletion(d))
    BY <1>3, <1>a DEF Delete, Alive
  <2> QED
    BY <1>0, <2>1, TaskNames, StopRecoveryLock
<1> QED
  BY <1>1, <1>2, <1>3 DEF Request

LEMMA ServiceStepLock ==
  ASSUME LockInv,
         StartScan \/ ScanRun \/ LoopWake \/ LinkLost \/ Restart \/ Crash \/ Close \/ CloseStep
  PROVE  LockOrder'
<1>0. TypeOK /\ LockOrder
  BY DEF LockInv
<1>a. {"idle", "queued", "boot"} \cap Contending = {} /\ "lock" \in Waiting
  BY DEF Contending, Waiting, Holding
<1>b. Holding \subseteq Contending
  BY DEF Contending
<1>1. CASE StartScan
  <2>1. pc[Scan] = "idle" /\ pc' = [pc EXCEPT ![Scan] = "queued"] /\ UNCHANGED ahead
    BY <1>1 DEF StartScan, Goto, LockInv, ScanTracked
  <2> QED
    BY <1>0, <1>a, <1>b, <2>1, TaskNames, Move
<1>2. CASE ScanRun
  <2>1. ahead' = Enqueued(Scan) /\ pc' = [pc EXCEPT ![Scan] = "lock"]
    BY <1>2 DEF ScanRun, Acquire
  <2> QED
    BY <1>0, <1>a, <2>1, TaskNames, Enter
<1>3. CASE LoopWake
  <2>1. ahead' = Enqueued(Loop) /\ pc' = [pc EXCEPT ![Loop] = "lock"]
    BY <1>3 DEF LoopWake, Acquire
  <2> QED
    BY <1>0, <1>a, <2>1, TaskNames, Enter
<1>4. CASE LinkLost \/ CloseAdapter
  <2>1. UNCHANGED <<pc, ahead>>
    BY <1>4 DEF LinkLost, CloseAdapter
  <2> QED
    BY <1>0, <2>1, Stay
<1>5. CASE Restart
  <2>1. CASE UNCHANGED <<pc, ahead>>
    BY <1>0, <2>1, Stay
  <2>2. CASE \E d \in Devices : pc' = [pc EXCEPT ![Recover(d)] = "boot"] /\ UNCHANGED ahead
    <3>1. PICK d \in Devices : pc' = [pc EXCEPT ![Recover(d)] = "boot"] /\ UNCHANGED ahead
      BY <2>2
    <3>2. Recover(d) \in Task /\ pc[Recover(d)] = "idle"
      BY <1>5, TaskNames DEF Restart, LockInv, DownIdle
    <3> QED
      BY <1>0, <1>a, <1>b, <3>1, <3>2, Move
  <2> QED
    BY <1>0, <1>5, <2>1, <2>2 DEF Restart, Goto, TypeOK
<1>6. CASE Crash
  <2>1. \A t \in Task : pc'[t] = "idle" /\ ahead'[t] = {}
    BY <1>6 DEF Crash
  <2>2. Contenders' = {}
    BY <1>a, <2>1 DEF Contenders
  <2> QED
    BY <1>a, <1>b, <2>1, <2>2 DEF LockOrder
<1>7. ASSUME NEW T, CancelAll(T) PROVE LockOrder'
  <2>1. pc' = CancelledPc(T) /\ ahead' = Released(Ends(T))
    BY <1>7 DEF CancelAll
  <2>2. \A u \in Task :
           pc'[u] = CancelledPc(T)[u] \/ (pc[u] \notin Contending /\ pc'[u] \notin Contending)
    BY <2>1
  <2> QED
    BY <1>0, <2>1, <2>2, Cancelled
<1> QED
  BY <1>1, <1>2, <1>3, <1>4, <1>5, <1>6, <1>7
     DEF Close, CloseStep, CloseOperations, CloseRecoveries, ClosePolls

(***************************************************************************)
(* The requested scan and the idle tasks                                  *)
(***************************************************************************)
LEMMA Kinds ==
  /\ Scan \notin Requested /\ Scan[1] \notin Connecting /\ Scan \in Job /\ Scan \in Task
  /\ \A d : /\ Scan # Recover(d) /\ Scan # Poll(d) /\ Scan # Deletion(d)
            /\ Scan # <<"disconnect", d>>
BY DEF Requested, Connecting, Scan, Job, Task, Recover, Poll, Deletion

\* What a task step leaves alone.
LEMMA FailFrame ==
  ASSUME TypeOK, NEW t \in Task, t # Scan, Fail(t)
  PROVE  pc'[Scan] = pc[Scan] /\ op'[Scan] = op[Scan]
BY Kinds DEF TypeOK, Fail, Proceed, Goto, Scheduled

LEMMA CancelFrame ==
  \A d : CancelledPc({Recover(d)})[Scan] = pc[Scan] /\ CancelledOp({Recover(d)})[Scan] = op[Scan]
<1> TAKE d
<1>1. Scan \notin {Recover(d)} /\ Scan \notin Ends({Recover(d)})
  BY Kinds DEF Ends
<1> QED
  BY <1>1, Kinds DEF CancelledPc, CancelledOp

LEMMA StopRecoveryFrame ==
  ASSUME TypeOK, NEW t \in Task, t # Scan, StopRecovery(t)
  PROVE  pc'[Scan] = pc[Scan]
<1>1. \/ pc' = [CancelledPc({Recover(t[2])}) EXCEPT ![t] = "stopRec"]
      \/ pc' = [pc EXCEPT ![t] = "begin"]
  BY DEF StopRecovery, Proceed, Goto
<1> QED
  BY <1>1, Kinds, CancelledType, CancelFrame DEF TypeOK

LEMMA StopPollingFrame ==
  ASSUME TypeOK, NEW t \in Task, t # Scan, StopPolling(t)
  PROVE  pc'[Scan] = pc[Scan]
BY Kinds DEF TypeOK, StopPolling

LEMMA TaskStepFrame ==
  ASSUME TypeOK, NEW t \in Task, t # Scan, TaskStep(t)
  PROVE  pc'[Scan] = pc[Scan] /\ op'[Scan] = op[Scan]
<1> USE Kinds DEF TypeOK, Goto, Pause, Proceed, Stage, Acquire
<1>1. CASE Start(t)
  <2>1. pc'[Scan] = pc[Scan]
    BY <1>1, StopRecoveryFrame DEF Start
  <2>2. op'[Scan] = op[Scan]
    <3>1. \/ op' = [CancelledOp({Recover(t[2])}) EXCEPT ![t] = "running"]
          \/ op' = [op EXCEPT ![t] = "done"]
      BY <1>1 DEF Start
    <3>2. CancelledOp({Recover(t[2])}) \in [Job -> Pending \cup {"done"}]
      BY CancelledType
    <3>3. CancelledOp({Recover(t[2])})[Scan] = op[Scan]
      BY CancelFrame
    <3> QED
      BY <3>1, <3>2, <3>3
  <2> QED
    BY <2>1, <2>2
<1>2. CASE Prepare(t)
  BY <1>2, StopPollingFrame DEF Prepare
<1>3. CASE TakeAdapter(t)
  BY <1>3 DEF TakeAdapter, Disconnected
<1>4. CASE SwitchOff(t) \/ BeginRelease(t) \/ Resolve(t) \/ Unhide(t)
  BY <1>4 DEF SwitchOff, BeginRelease, Resolve, Unhide
<1>5. CASE EndRelease(t)
  BY <1>5, FailFrame DEF EndRelease
<1>6. CASE CallFails(t)
  BY <1>6, FailFrame DEF CallFails
<1>7. CASE Dial(t) \/ Connect(t) \/ CleanUp(t)
  BY <1>7 DEF Dial, Connect, CleanUp
<1>8. CASE Unwound(t)
  BY <1>8 DEF Unwound
<1>9. CASE FirstRead(t)
  BY <1>9 DEF FirstRead
<1>10. CASE ScanBegin(t)
  BY <1>10 DEF ScanBegin
<1>11. CASE \E S \in SUBSET Devices : Discovered(t, S)
  BY <1>11, FailFrame DEF Discovered
<1>12. CASE \E S \in SUBSET Devices, ok \in BOOLEAN : ScanEnd(t, S, ok)
  BY <1>12 DEF ScanEnd
<1> QED
  BY <1>1, <1>2, <1>3, <1>4, <1>5, <1>6, <1>7, <1>8, <1>9, <1>10, <1>11, <1>12 DEF TaskStep

\* A task that moves is alive, and does not change the phase.
LEMMA TaskStepAlive ==
  ASSUME NEW t \in Task, TaskStep(t)
  PROVE  Alive(t) /\ UNCHANGED phase
<1> USE DEF Alive, Stage
<1>1. CASE Start(t) \/ Prepare(t) \/ TakeAdapter(t) \/ SwitchOff(t)
  BY <1>1 DEF Start, Prepare, Stopped, TakeAdapter, SwitchOff
<1>2. CASE BeginRelease(t) \/ EndRelease(t) \/ Resolve(t) \/ Unhide(t) \/ CallFails(t)
  BY <1>2 DEF BeginRelease, EndRelease, Resolve, Unhide, CallFails
<1>3. CASE Dial(t) \/ Connect(t) \/ CleanUp(t) \/ Unwound(t) \/ FirstRead(t) \/ ScanBegin(t)
  BY <1>3 DEF Dial, Connect, CleanUp, Unwound, FirstRead, ScanBegin
<1>4. CASE \E S \in SUBSET Devices : Discovered(t, S)
  BY <1>4 DEF Discovered
<1>5. CASE \E S \in SUBSET Devices, ok \in BOOLEAN : ScanEnd(t, S, ok)
  BY <1>5 DEF ScanEnd
<1> QED
  BY <1>1, <1>2, <1>3, <1>4, <1>5 DEF TaskStep

LEMMA TaskStepScan ==
  ASSUME LockInv, NEW t \in Task, TaskStep(t)
  PROVE  ScanTracked' /\ DownIdle'
<1>0. TypeOK /\ ScanTracked /\ DownIdle
  BY DEF LockInv
<1>1. phase # "down" /\ phase' = phase
  BY <1>0, TaskStepAlive DEF DownIdle, Alive
<1>2. CASE t # Scan
  BY <1>0, <1>1, <1>2, TaskStepFrame DEF ScanTracked, DownIdle
<1>3. CASE t = Scan
  <2>1. pc[t] \in {"queued", "lock", "discover"}
    BY <1>0, <1>3, TaskStepAlive DEF ScanTracked, Alive
  <2>2. phase \in {"up", "closing"}
    BY <1>0, <1>3, <2>1 DEF ScanTracked
  <2>3. ScanBegin(t) \/ \E S \in SUBSET Devices, ok \in BOOLEAN : ScanEnd(t, S, ok)
    BY <1>3, <2>1, Kinds
       DEF TaskStep, Stage, Start, Prepare, TakeAdapter, SwitchOff, BeginRelease, EndRelease, Resolve,
           Unhide, CallFails, Dial, Connect, CleanUp, Unwound, FirstRead, Discovered, Stopped
  <2>4. CASE ScanBegin(t)
    <3>1. pc'[Scan] = "discover" /\ op' = op
      BY <1>0, <1>3, <2>4, Kinds DEF ScanBegin, Pause, Goto, TypeOK
    <3> QED
      BY <1>0, <1>1, <1>3, <2>1, <2>2, <3>1 DEF ScanTracked, DownIdle
  <2>5. CASE \E S \in SUBSET Devices, ok \in BOOLEAN : ScanEnd(t, S, ok)
    <3>1. pc'[Scan] = "idle"
      BY <1>0, <1>3, <2>5, Kinds DEF ScanEnd, Pause, Goto, TypeOK
    <3> QED
      BY <1>1, <3>1 DEF ScanTracked, DownIdle
  <2> QED
    BY <2>3, <2>4, <2>5
<1> QED
  BY <1>2, <1>3

LEMMA DeviceStepScan ==
  ASSUME LockInv, NEW d \in Devices, DeviceStep(d)
  PROVE  ScanTracked' /\ DownIdle'
<1>0. TypeOK /\ ScanTracked /\ DownIdle
  BY DEF LockInv
<1>a. pc'[Scan] = pc[Scan] /\ op'[Scan] = op[Scan]
  <2> USE <1>0, Kinds, TaskNames DEF TypeOK, Goto, Pause, Proceed, Stage, Acquire
  <2>1. CASE FinishDisconnect(d)
    BY <2>1 DEF FinishDisconnect, Disconnected
  <2>2. CASE RecoverCheck(d)
    BY <2>2 DEF RecoverCheck
  <2>3. CASE RecoverRun(d)
    <3>1. CASE StopPolling(Recover(d)) /\ op' = [op EXCEPT ![Recover(d)] = "running"]
      BY <3>1, StopPollingFrame
    <3>2. CASE pc' = [pc EXCEPT ![Recover(d)] = "check"] /\ op' = op
      BY <3>2
    <3> QED
      BY <2>3, <3>1, <3>2 DEF RecoverRun
  <2>4. CASE PollWake(d) \/ PollRead(d)
    BY <2>4 DEF PollWake, PollRead
  <2>5. CASE DeleteBegin(d)
    BY <2>5, StopPollingFrame DEF DeleteBegin
  <2>6. CASE DeleteRelease(d) \/ DeleteErase(d)
    BY <2>6 DEF DeleteRelease, DeleteErase
  <2>7. CASE \E valid, overdue \in BOOLEAN : PollDone(d, valid, overdue)
    BY <2>7 DEF PollDone, Scheduled
  <2> QED
    BY <2>1, <2>2, <2>3, <2>4, <2>5, <2>6, <2>7 DEF DeviceStep
<1>b. UNCHANGED phase /\ \E t \in Task : Alive(t)
  <2> USE TaskNames DEF Alive, Stage
  <2>1. CASE FinishDisconnect(d) \/ RecoverCheck(d) \/ RecoverRun(d)
    BY <2>1 DEF FinishDisconnect, RecoverCheck, RecoverRun
  <2>2. CASE PollWake(d) \/ PollRead(d) \/ \E valid, overdue \in BOOLEAN : PollDone(d, valid, overdue)
    BY <2>2 DEF PollWake, PollRead, PollDone
  <2>3. CASE DeleteBegin(d) \/ DeleteRelease(d) \/ DeleteErase(d)
    BY <2>3 DEF DeleteBegin, Stopped, DeleteRelease, DeleteErase
  <2> QED
    BY <2>1, <2>2, <2>3 DEF DeviceStep
<1>c. phase # "down"
  BY <1>0, <1>b DEF DownIdle, Alive
<1> QED
  BY <1>0, <1>a, <1>b, <1>c DEF ScanTracked, DownIdle

LEMMA RequestScan ==
  ASSUME LockInv, NEW d \in Devices, Request(d)
  PROVE  ScanTracked' /\ DownIdle'
<1>0. TypeOK /\ ScanTracked
  BY DEF LockInv
<1>a. phase = "up" /\ UNCHANGED phase
  BY DEF Request, Register, Command, Patch, Delete, Serving
<1>1. CASE (\E automatic \in BOOLEAN : Register(d, automatic)) \/ Patch(d)
  BY <1>0, <1>1, <1>a DEF Register, Patch, ScanTracked, DownIdle
<1>2. CASE \E a \in Commands[d] : Command(d, a)
  <2>0. PICK a \in Commands[d] : Command(d, a)
    BY <1>2
  <2>1. <<a, d>> # Scan
    BY CommandNames, Kinds
  <2>2. pc'[Scan] = pc[Scan] /\ op'[Scan] = op[Scan]
    BY <1>0, <2>0, <2>1, Kinds DEF Command, Goto, TypeOK
  <2> QED
    BY <1>0, <1>a, <2>2 DEF ScanTracked, DownIdle
<1>3. CASE Delete(d)
  <2>1. pc'[Scan] = pc[Scan]
    BY <1>0, <1>3, Kinds, TaskNames, StopRecoveryFrame DEF Delete
  <2>2. op'[Scan] = op[Scan]
    BY <1>3, CancelFrame DEF Delete
  <2> QED
    BY <1>0, <1>a, <2>1, <2>2 DEF ScanTracked, DownIdle
<1> QED
  BY <1>1, <1>2, <1>3 DEF Request

\* Cancelling does not wake the scan, and does not store it as done while it lives.
LEMMA CancelScan ==
  ASSUME LockInv, NEW T, CancelAll(T)
  PROVE  /\ Scan \in T => pc'[Scan] = "idle"
         /\ Scan \notin T => pc'[Scan] = pc[Scan] /\ op'[Scan] = op[Scan]
<1>1. pc[Scan] \notin Undoing
  BY DEF LockInv, ScanTracked, Undoing
<1> QED
  BY <1>1, Kinds DEF CancelAll, CancelledPc, CancelledOp, Ends

LEMMA ServiceStepScan ==
  ASSUME LockInv,
         StartScan \/ ScanRun \/ LoopWake \/ LinkLost \/ Restart \/ Crash \/ Close \/ CloseStep
  PROVE  ScanTracked' /\ DownIdle'
<1>0. TypeOK /\ ScanTracked /\ DownIdle
  BY DEF LockInv
<1>1. CASE StartScan
  <2>1. pc'[Scan] = "queued" /\ op'[Scan] = "queued" /\ phase = "up" /\ phase' = "up"
    BY <1>0, <1>1, Kinds DEF StartScan, Serving, Goto, TypeOK
  <2> QED
    BY <2>1 DEF ScanTracked, DownIdle, Pending
<1>2. CASE ScanRun
  <2>1. pc[Scan] = "queued" /\ pc'[Scan] = "lock" /\ op'[Scan] = "running" /\ phase' = phase
    BY <1>0, <1>2, Kinds DEF ScanRun, Stage, Acquire, TypeOK
  <2> QED
    BY <1>0, <2>1, Kinds DEF ScanTracked, DownIdle, Pending
<1>3. CASE LoopWake
  <2>1. Loop # Scan
    BY DEF Loop, Scan
  <2>2. pc'[Scan] = pc[Scan] /\ op' = op /\ phase = "up" /\ phase' = "up"
    BY <1>0, <1>3, <2>1, Kinds DEF LoopWake, Acquire, TypeOK
  <2> QED
    BY <1>0, <2>2 DEF ScanTracked, DownIdle
<1>4. CASE LinkLost
  BY <1>0, <1>4 DEF LinkLost, ScanTracked, DownIdle
<1>5. CASE Restart
  <2>1. pc[Scan] = "idle" /\ phase' = "up"
    BY <1>0, <1>5, Kinds DEF Restart, DownIdle
  <2>2. pc'[Scan] = pc[Scan]
    BY <1>0, <1>5, Kinds DEF Restart, Goto, TypeOK
  <2> QED
    BY <2>1, <2>2 DEF ScanTracked, DownIdle
<1>6. CASE Crash
  BY <1>6, Kinds DEF Crash, ScanTracked, DownIdle
<1>7. CASE Close
  <2>1. Scan \notin {Loop}
    BY DEF Loop, Scan
  <2>2. pc'[Scan] = pc[Scan] /\ op'[Scan] = op[Scan] /\ phase' = "closing"
    BY <1>7, <2>1, CancelScan DEF Close
  <2> QED
    BY <1>0, <2>2 DEF ScanTracked, DownIdle
<1>8. CASE CloseOperations
  <2>1. pc'[Scan] = "idle" /\ phase' = "operations"
    BY <1>8, CancelScan DEF CloseOperations
  <2> QED
    BY <2>1 DEF ScanTracked, DownIdle
<1>9. CASE CloseRecoveries
  <2>1. Scan \notin {Recover(d) : d \in Devices}
    BY Kinds
  <2>2. pc'[Scan] = pc[Scan] /\ phase = "operations" /\ phase' = "recoveries"
    BY <1>9, <2>1, CancelScan DEF CloseRecoveries
  <2> QED
    BY <1>0, <2>2 DEF ScanTracked, DownIdle
<1>10. CASE ClosePolls
  <2>1. Scan \notin {Poll(d) : d \in Devices}
    BY Kinds
  <2>2. pc'[Scan] = pc[Scan] /\ phase = "recoveries" /\ phase' = "polls"
    BY <1>10, <2>1, CancelScan DEF ClosePolls
  <2> QED
    BY <1>0, <2>2 DEF ScanTracked, DownIdle
<1>11. CASE CloseAdapter
  <2>1. pc' = pc /\ phase = "polls" /\ phase' = "stopped"
    BY <1>11 DEF CloseAdapter
  <2> QED
    BY <1>0, <2>1 DEF ScanTracked, DownIdle
<1> QED
  BY <1>1, <1>2, <1>3, <1>4, <1>5, <1>6, <1>7, <1>8, <1>9, <1>10, <1>11 DEF CloseStep

(***************************************************************************)
(* The theorems                                                            *)
(***************************************************************************)
\* LockInv is inductive: in every reachable state the contenders of the adapter lock are in
\* one order, a holder has nobody before it, and no task outlives the process.
THEOREM LockInvariant == Spec => []LockInv
<1>1. Init => LockInv
  <2> SUFFICES ASSUME Init PROVE LockInv
    OBVIOUS
  <2>1. \A t \in Task : pc[t] = "idle" /\ ahead[t] = {}
    BY DEF Init
  <2>2. Contenders = {}
    BY <2>1 DEF Contenders, Contending, Waiting, Holding
  <2>3. LockOrder
    BY <2>1, <2>2 DEF LockOrder, Holding
  <2> QED
    BY <2>1, <2>3, InitType, Kinds DEF LockInv, ScanTracked, DownIdle
<1>2. LockInv /\ [Next]_vars => LockInv'
  <2> SUFFICES ASSUME LockInv, [Next]_vars PROVE LockInv'
    OBVIOUS
  <2>0. TypeOK
    BY DEF LockInv
  <2>1. CASE UNCHANGED vars
    <3>1. TypeOK'
      BY <2>0, <2>1 DEF TypeOK, vars, rows, mem
    <3>2. LockOrder'
      BY <2>1 DEF LockInv, LockOrder, Contenders, vars
    <3>3. ScanTracked' /\ DownIdle'
      BY <2>1 DEF LockInv, ScanTracked, DownIdle, vars
    <3> QED
      BY <3>1, <3>2, <3>3 DEF LockInv
  <2>2. ASSUME NEW d \in Devices, Request(d) PROVE LockInv'
    BY <2>0, <2>2, RequestType, RequestLock, RequestScan DEF LockInv
  <2>3. ASSUME NEW d \in Devices, DeviceStep(d) PROVE LockInv'
    BY <2>0, <2>3, DeviceStepType, DeviceStepLock, DeviceStepScan DEF LockInv
  <2>4. ASSUME NEW t \in Task, TaskStep(t) PROVE LockInv'
    BY <2>0, <2>4, TaskStepType, TaskStepLock, TaskStepScan DEF LockInv
  <2>5. ASSUME StartScan \/ ScanRun \/ LoopWake \/ LinkLost \/ Restart \/ Crash \/ Close \/ CloseStep
        PROVE LockInv'
    BY <2>0, <2>5, ServiceStepType, ServiceStepLock, ServiceStepScan DEF LockInv
  <2> QED
    BY <2>1, <2>2, <2>3, <2>4, <2>5 DEF Next
<1> QED
  BY <1>1, <1>2, PTL DEF Spec

\* No two tasks are inside the adapter at once (service.py, _io_lock): cancellation, which
\* leaves a connect unwinding, does not break it, nor do restarts, deletion and scans.
THEOREM CallsAreApart == Spec => []CallsApart
<1>1. LockInv => CallsApart
  BY Exclusive DEF LockInv
<1> QED
  BY <1>1, LockInvariant, PTL

(***************************************************************************)
(* The candidate under the lock                                            *)
(***************************************************************************)
LEMMA KeptFrame ==
  ASSUME CandidateKept, UNCHANGED <<registered, cache>>,
         \A t \in Connecting \X Devices : pc'[t] \in Dialling => pc[t] \in Dialling
  PROVE  CandidateKept'
BY DEF CandidateKept

\* Whoever connects is a task, and nobody else is inside the adapter.
LEMMA DiallingAlone ==
  ASSUME LockInv, NEW t \in Connecting \X Devices, pc[t] \in Dialling,
         NEW u \in Task, pc[u] \in Holding
  PROVE  u = t
<1>1. t \in Task /\ pc[t] \in Holding
  BY DEF Task, Connecting, Dialling, Holding
<1> QED
  BY <1>1, Exclusive DEF LockInv, CallsApart

\* Cancellation and the start of others bring nobody to the candidate.
LEMMA CancelDialling ==
  ASSUME NEW T, NEW t \in Task, CancelledPc(T)[t] \in Dialling
  PROVE  pc[t] \in Dialling
BY DEF CancelledPc, Dialling

LEMMA StopRecoveryDialling ==
  ASSUME TypeOK, NEW u \in Task, StopRecovery(u), NEW t \in Task, pc'[t] \in Dialling
  PROVE  pc[t] \in Dialling
<1>1. \/ pc' = [CancelledPc({Recover(u[2])}) EXCEPT ![u] = "stopRec"]
      \/ pc' = [pc EXCEPT ![u] = "begin"]
  BY DEF StopRecovery, Proceed, Goto
<1>2. CancelledPc({Recover(u[2])})[t] \in Dialling \/ pc[t] \in Dialling
  BY <1>1, CancelledType DEF TypeOK, Dialling
<1> QED
  BY <1>2, CancelDialling

LEMMA StopPollingDialling ==
  ASSUME TypeOK, NEW u \in Task, StopPolling(u), NEW t \in Task, pc'[t] \in Dialling
  PROVE  pc[t] \in Dialling
BY DEF TypeOK, StopPolling, Dialling

LEMMA FailDialling ==
  ASSUME TypeOK, NEW u \in Task, Fail(u), NEW t \in Task, pc'[t] \in Dialling
  PROVE  pc[t] \in Dialling
BY DEF TypeOK, Fail, Proceed, Goto, Scheduled, Dialling

LEMMA TaskStepKept ==
  ASSUME LockInv, CandidateKept, NEW u \in Task, TaskStep(u)
  PROVE  CandidateKept'
<1>0. TypeOK /\ \A t \in Connecting \X Devices : t \in Task /\ t[2] \in Devices
  BY DEF LockInv, Task, Connecting
<1> DEFINE Nobody == \A t \in Connecting \X Devices : pc'[t] \in Dialling => pc[t] \in Dialling
<1>1. CASE Start(u) \/ Prepare(u)
  <2>1. UNCHANGED <<registered, cache>>
    BY <1>1 DEF Start, Prepare, rows, mem
  <2>2. \/ StopRecovery(u) \/ StopPolling(u)
        \/ pc' = [pc EXCEPT ![u] = "idle"] \/ pc' = [pc EXCEPT ![u] = "lockOn"]
    BY <1>1 DEF Start, Prepare, Pause, Goto, Acquire
  <2>3. Nobody
    BY <1>0, <2>2, StopRecoveryDialling, StopPollingDialling DEF TypeOK, Dialling
  <2> QED
    BY <2>1, <2>3, KeptFrame
<1>2. CASE TakeAdapter(u) \/ SwitchOff(u) \/ BeginRelease(u) \/ Unhide(u) \/ CleanUp(u) \/ ScanBegin(u)
           \/ Unwound(u) \/ FirstRead(u) \/ Connect(u)
  <2>1. UNCHANGED <<registered, cache>>
    BY <1>2 DEF TakeAdapter, SwitchOff, BeginRelease, Unhide, CleanUp, ScanBegin, Unwound, FirstRead,
                Connect, rows, mem
  <2>2. \/ \E place \in Places \ Dialling : pc' = [pc EXCEPT ![u] = place]
        \/ pc' = [pc EXCEPT ![u] = "idle", ![Poll(u[2])] = "sleep"]
    BY <1>2 DEF TakeAdapter, Disconnected, SwitchOff, BeginRelease, Unhide, CleanUp, ScanBegin,
                Unwound, FirstRead, Connect, Pause, Goto, Acquire, Places, Contending, Waiting,
                Holding, Dialling
  <2>3. Nobody
    BY <1>0, <2>2 DEF TypeOK, Dialling
  <2> QED
    BY <2>1, <2>3, KeptFrame
<1>3. CASE EndRelease(u) \/ CallFails(u)
  <2>1. UNCHANGED <<registered, cache>>
    BY <1>3 DEF EndRelease, CallFails, mem
  <2>2. Fail(u) \/ pc' = [pc EXCEPT ![u] = "lockOn"]
    BY <1>3 DEF EndRelease, CallFails, Acquire
  <2>3. Nobody
    BY <1>0, <2>2, FailDialling DEF TypeOK, Dialling
  <2> QED
    BY <2>1, <2>3, KeptFrame
<1>4. CASE Dial(u)
  <2>1. UNCHANGED <<registered, cache>>
    BY <1>4 DEF Dial, rows, mem
  <2>2. Nobody
    BY <1>0, <1>4 DEF Dial, Stage, Pause, Goto, TypeOK, Dialling
  <2> QED
    BY <2>1, <2>2, KeptFrame
<1>5. CASE Resolve(u)
  <2>1. UNCHANGED <<registered, cache>>
    BY <1>5 DEF Resolve, rows, mem
  <2>2. \A t \in Connecting \X Devices :
          pc'[t] \in Dialling => pc[t] \in Dialling \/ cache[t[2]] = "current"
    BY <1>0, <1>5 DEF Resolve, Proceed, Pause, Goto, TypeOK, Dialling
  <2> QED
    BY <2>1, <2>2 DEF CandidateKept
<1>6. ASSUME NEW S, Discovered(u, S) PROVE CandidateKept'
  <2>1. pc[u] \in Holding /\ pc[u] \notin Dialling
    BY <1>6 DEF Discovered, Holding, Dialling
  <2>2. \A t \in Connecting \X Devices : pc[t] \notin Dialling
    BY <2>1, DiallingAlone
  <2>3. \/ pc' = [pc EXCEPT ![u] = "dial"] /\ cache' = [Seen(S) EXCEPT ![u[2]] = "current"]
        \/ Fail(u) \/ pc' = [pc EXCEPT ![u] = "release"]
    BY <1>6 DEF Discovered, Proceed, Pause, Goto
  <2>4. \A t \in Connecting \X Devices : pc'[t] \in Dialling => cache'[t[2]] = "current"
    BY <1>0, <2>2, <2>3, FailDialling DEF TypeOK, Dialling, Seen
  <2> QED
    BY <2>4 DEF CandidateKept
<1>7. ASSUME NEW S, NEW ok, ScanEnd(u, S, ok) PROVE CandidateKept'
  <2>1. pc[u] \in Holding /\ pc[u] \notin Dialling /\ pc' = [pc EXCEPT ![u] = "idle"]
    BY <1>7 DEF ScanEnd, Stage, Pause, Goto, Holding, Dialling
  <2>2. \A t \in Connecting \X Devices : pc[t] \notin Dialling
    BY <2>1, DiallingAlone
  <2>3. \A t \in Connecting \X Devices : pc'[t] \notin Dialling
    BY <1>0, <2>1, <2>2 DEF TypeOK, Dialling
  <2> QED
    BY <2>3 DEF CandidateKept
<1> QED
  BY <1>1, <1>2, <1>3, <1>4, <1>5, <1>6, <1>7 DEF TaskStep

LEMMA DeviceStepKept ==
  ASSUME LockInv, CandidateKept, NEW d \in Devices, DeviceStep(d)
  PROVE  CandidateKept'
<1>0. TypeOK /\ \A t \in Connecting \X Devices : t \in Task /\ t[2] \in Devices
  BY DEF LockInv, Task, Connecting
<1> DEFINE Nobody == \A t \in Connecting \X Devices : pc'[t] \in Dialling => pc[t] \in Dialling
<1>t. Recover(d) \in Task /\ Poll(d) \in Task /\ Deletion(d) \in Task /\ <<"disconnect", d>> \in Task
  BY DEF Recover, Poll, Deletion, Task
<1>1. CASE RecoverCheck(d) \/ RecoverRun(d) \/ DeleteBegin(d)
  <2>1. UNCHANGED <<registered, cache>>
    BY <1>1 DEF RecoverCheck, RecoverRun, DeleteBegin, rows, mem
  <2>2. \/ StopPolling(Recover(d)) \/ StopPolling(Deletion(d))
        \/ \E u \in Task, place \in Places \ Dialling : pc' = [pc EXCEPT ![u] = place]
    BY <1>1, <1>t DEF RecoverCheck, RecoverRun, DeleteBegin, Pause, Proceed, Goto, Places, Contending,
                Waiting, Holding, Dialling
  <2>3. Nobody
    BY <1>0, <1>t, <2>2, StopPollingDialling DEF TypeOK, Dialling
  <2> QED
    BY <2>1, <2>3, KeptFrame
<1>2. CASE PollWake(d) \/ PollRead(d) \/ DeleteRelease(d)
  <2>1. UNCHANGED <<registered, cache>>
    BY <1>2 DEF PollWake, PollRead, DeleteRelease, rows, mem
  <2>2. \E u \in Task, place \in Places \ Dialling : pc' = [pc EXCEPT ![u] = place]
    BY <1>2, <1>t DEF PollWake, PollRead, DeleteRelease, Pause, Proceed, Goto, Acquire, Places,
                Contending, Waiting, Holding, Dialling
  <2>3. Nobody
    BY <1>0, <2>2 DEF TypeOK, Dialling
  <2> QED
    BY <2>1, <2>3, KeptFrame
<1>3. ASSUME NEW valid, NEW overdue, PollDone(d, valid, overdue) PROVE CandidateKept'
  <2>1. UNCHANGED <<registered, cache>>
    BY <1>3 DEF PollDone, mem
  <2>2. Nobody
    BY <1>0, <1>3 DEF PollDone, Scheduled, TypeOK, Dialling
  <2> QED
    BY <2>1, <2>2, KeptFrame
<1>4. CASE FinishDisconnect(d)
  <2>1. pc[<<"disconnect", d>>] \in Holding /\ pc' = [pc EXCEPT ![<<"disconnect", d>>] = "idle"]
    BY <1>4 DEF FinishDisconnect, Disconnected, Stage, Pause, Goto, Holding
  <2>2. \A t \in Connecting \X Devices : t # <<"disconnect", d>>
    BY DEF Connecting
  <2>3. \A t \in Connecting \X Devices : pc[t] \notin Dialling
    BY <1>t, <2>1, <2>2, DiallingAlone
  <2>4. \A t \in Connecting \X Devices : pc'[t] \notin Dialling
    BY <1>0, <2>1, <2>3 DEF TypeOK, Dialling
  <2> QED
    BY <2>4 DEF CandidateKept
<1>5. CASE DeleteErase(d)
  <2>1. /\ pc' = [pc EXCEPT ![Deletion(d)] = "idle"] /\ registered' = registered \ {d}
        /\ cache' = [cache EXCEPT ![d] = IF @ = "current" THEN "fresh" ELSE @]
    BY <1>5 DEF DeleteErase, Pause, Goto
  <2>2. Nobody
    BY <1>0, <2>1 DEF TypeOK, Dialling
  <2>3. \A e \in registered' : e \in registered /\ cache'[e] = cache[e]
    BY <1>0, <2>1 DEF TypeOK
  <2> QED
    BY <2>2, <2>3 DEF CandidateKept
<1> QED
  BY <1>1, <1>2, <1>3, <1>4, <1>5 DEF DeviceStep

LEMMA OtherStepKept ==
  ASSUME LockInv, CandidateKept,
         \/ \E d \in Devices : Request(d)
         \/ StartScan \/ ScanRun \/ LoopWake \/ LinkLost \/ Restart \/ Crash \/ Close \/ CloseStep
  PROVE  CandidateKept'
<1>0. TypeOK /\ \A t \in Connecting \X Devices : t \in Task /\ t[2] \in Devices
  BY DEF LockInv, Task, Connecting
<1> DEFINE Nobody == \A t \in Connecting \X Devices : pc'[t] \in Dialling => pc[t] \in Dialling
<1>1. ASSUME NEW d \in Devices, NEW automatic, Register(d, automatic) PROVE CandidateKept'
  <2>1. /\ pc' = pc /\ registered' = registered \cup {d}
        /\ cache' = [cache EXCEPT ![d] = "current"]
    BY <1>1 DEF Register
  <2> QED
    BY <1>0, <2>1 DEF CandidateKept, TypeOK
<1>2. ASSUME NEW d \in Devices, NEW a, Command(d, a) PROVE CandidateKept'
  <2>1. UNCHANGED <<registered, cache>> /\ pc' = [pc EXCEPT ![<<a, d>>] = "queued"]
    BY <1>2 DEF Command, Goto
  <2>2. Nobody
    BY <1>0, <2>1 DEF TypeOK, Dialling
  <2> QED
    BY <2>1, <2>2, KeptFrame
<1>3. ASSUME NEW d \in Devices, Patch(d) \/ Delete(d) PROVE CandidateKept'
  <2>1. UNCHANGED <<registered, cache>>
    BY <1>3 DEF Patch, Delete, rows, mem
  <2>2. Deletion(d) \in Task /\ (pc' = pc \/ StopRecovery(Deletion(d)))
    BY <1>3 DEF Patch, Delete, Deletion, Task
  <2>3. Nobody
    BY <1>0, <2>2, StopRecoveryDialling
  <2> QED
    BY <2>1, <2>3, KeptFrame
<1>4. CASE StartScan \/ ScanRun \/ LoopWake \/ LinkLost
  <2>1. UNCHANGED <<registered, cache>>
    BY <1>4 DEF StartScan, ScanRun, LoopWake, LinkLost, rows, mem
  <2>2. pc' = pc \/ \E place \in {"queued", "lock"} :
                     pc' = [pc EXCEPT ![Scan] = place] \/ pc' = [pc EXCEPT ![Loop] = place]
    BY <1>4 DEF StartScan, ScanRun, LoopWake, LinkLost, Goto, Acquire
  <2>3. Nobody
    BY <1>0, <2>2 DEF TypeOK, Dialling
  <2> QED
    BY <2>1, <2>3, KeptFrame
<1>5. CASE Restart
  <2>1. UNCHANGED <<registered, cache>>
    BY <1>5 DEF Restart
  <2>2. pc' = pc \/ \E d : pc' = [pc EXCEPT ![Recover(d)] = "boot"]
    BY <1>5 DEF Restart, Goto
  <2>3. Nobody
    BY <1>0, <2>2 DEF TypeOK, Dialling
  <2> QED
    BY <2>1, <2>3, KeptFrame
<1>6. CASE Crash
  BY <1>0, <1>6 DEF Crash, CandidateKept, Dialling
<1>7. ASSUME NEW T, CancelAll(T) PROVE CandidateKept'
  <2>1. UNCHANGED <<registered, cache>>
    BY <1>7 DEF CancelAll, rows, mem
  <2>2. Nobody
    BY <1>0, <1>7, CancelDialling DEF CancelAll
  <2> QED
    BY <2>1, <2>2, KeptFrame
<1>8. CASE CloseAdapter
  BY <1>8, KeptFrame DEF CloseAdapter
<1>9. CASE Close \/ CloseStep
  BY <1>7, <1>8, <1>9 DEF Close, CloseStep, CloseOperations, CloseRecoveries, ClosePolls
<1> QED
  BY <1>1, <1>2, <1>3, <1>4, <1>5, <1>6, <1>9 DEF Request

\* What is connected to is what was resolved, out of the last discovery: whoever else uses
\* the candidates needs the lock, which is held from the resolution to the end of the connect.
THEOREM CandidateIsKept == Spec => []CandidateKept
<1>1. Init => CandidateKept
  <2> SUFFICES ASSUME Init PROVE CandidateKept
    OBVIOUS
  <2>1. \A t \in Connecting \X Devices : pc[t] = "idle"
    BY DEF Init, Task, Connecting
  <2> QED
    BY <2>1 DEF CandidateKept, Dialling
<1>2. LockInv /\ CandidateKept /\ [Next]_vars => CandidateKept'
  <2> SUFFICES ASSUME LockInv, CandidateKept, [Next]_vars PROVE CandidateKept'
    OBVIOUS
  <2>1. CASE UNCHANGED vars
    BY <2>1 DEF vars, rows, mem, CandidateKept
  <2> QED
    BY <2>1, TaskStepKept, DeviceStepKept, OtherStepKept DEF Next
<1> QED
  BY <1>1, <1>2, LockInvariant, PTL DEF Spec

\* Both together: whoever uses the adapter has it for itself, from the choice of a candidate
\* to the end of the connect.
THEOREM LockExclusive == Spec => []AdapterExclusive
<1>1. CallsApart /\ CandidateKept => AdapterExclusive
  BY DEF AdapterExclusive
<1> QED
  BY <1>1, CallsAreApart, CandidateIsKept, PTL

(***************************************************************************)
(* The stored operations                                                   *)
(***************************************************************************)
\* Where a job works on its operation: not before a recovery's attempt begins.
Working(j, place) ==
  place \notin {"idle", "boot", "check", "sleep"} /\ (place = "begin" => j[1] # "recover")

AllTracked == \A j \in Job : op[j] \in Pending <=> Working(j, pc[j])
RecoveryOps == \A d \in Devices : op[Recover(d)] # "queued"
TrackInv == RecoveryOps /\ (phase = "up" => AllTracked)

LEMMA NotJobs ==
  /\ Loop \notin Job
  /\ \A d : Poll(d) \notin Job /\ Deletion(d) \notin Job
BY DEF Job, Requested, Poll, Deletion, Loop, Scan

LEMMA Pendings == "done" \notin Pending /\ "running" \in Pending /\ "queued" \in Pending
BY DEF Pending

\* One job and its operation move; others stay, or begin or stop to rest.
LEMMA OneJob ==
  ASSUME AllTracked, NEW t,
         \A j \in Job : j # t => op'[j] = op[j] /\ (Working(j, pc'[j]) <=> Working(j, pc[j])),
         t \in Job => (op'[t] \in Pending <=> Working(t, pc'[t]))
  PROVE  AllTracked'
BY DEF AllTracked, Working

LEMMA JobGoes ==
  ASSUME TypeOK, AllTracked, NEW t \in Task, NEW place, pc' = [pc EXCEPT ![t] = place],
         NEW status, op' = [op EXCEPT ![t] = status], status \in Pending <=> Working(t, place)
  PROVE  AllTracked'
<1>1. \A u \in Task : pc'[u] = IF u = t THEN place ELSE pc[u]
  BY DEF TypeOK
<1>2. \A j \in Job : op'[j] = IF j = t THEN status ELSE op[j]
  BY DEF TypeOK
<1>3. \A j \in Job : j # t => op'[j] = op[j] /\ pc'[j] = pc[j]
  BY <1>1, <1>2, TaskNames
<1>4. t \in Job => op'[t] = status /\ pc'[t] = place
  BY <1>1, <1>2
<1> QED BY <1>3, <1>4, OneJob

LEMMA JobStays ==
  ASSUME TypeOK, AllTracked, NEW t \in Task, NEW place, pc' = [pc EXCEPT ![t] = place],
         UNCHANGED op, t \in Job => (Working(t, pc[t]) <=> Working(t, place))
  PROVE  AllTracked'
<1>1. \A u \in Task : pc'[u] = IF u = t THEN place ELSE pc[u]
  BY DEF TypeOK
<1>2. \A j \in Job : j # t => op'[j] = op[j] /\ pc'[j] = pc[j]
  BY <1>1, TaskNames
<1>3. t \in Job => op'[t] = op[t] /\ pc'[t] = place /\ (op[t] \in Pending <=> Working(t, pc[t]))
  BY <1>1 DEF AllTracked
<1> QED BY <1>2, <1>3, OneJob

LEMMA NotUnwinding ==
  ASSUME LockOrder, NEW t \in Task, NEW r \in Task, r # t, pc[t] \in Contending, ahead[t] = {}
  PROVE  pc[r] # "unwind"
<1> SUFFICES ASSUME pc[r] = "unwind" PROVE FALSE
  OBVIOUS
<1>1. pc[r] \in Holding /\ pc[r] \in Contending
  BY DEF Holding, Contending
<1>2. ahead[r] = {} /\ r \in Contenders /\ t \in Contenders
  BY <1>1 DEF LockOrder, Contenders
<1> QED BY <1>2, First

\* A task that has the lock gives it up, and the device may be recovered.
LEMMA JobGivesUp ==
  ASSUME TypeOK, LockOrder, AllTracked, NEW t \in Task, NEW d, t # Recover(d),
         pc[t] \in Contending, ahead[t] = {},
         pc' = Scheduled([pc EXCEPT ![t] = "idle"], d),
         op' = [op EXCEPT ![t] = "done"] \/ (t \notin Job /\ op' = op)
  PROVE  AllTracked'
<1>1. \A j \in Job : op'[j] = IF j = t THEN "done" ELSE op[j]
  BY DEF TypeOK
<1>2. CASE Wanted(d) /\ ~Recovering(d)
  <2>1. Recover(d) \in Task
    BY <1>2, TaskNames DEF Wanted, TypeOK
  <2>2. pc[Recover(d)] = "idle"
    BY <1>2, <2>1, NotUnwinding DEF Recovering
  <2>3. pc' = [[pc EXCEPT ![t] = "idle"] EXCEPT ![Recover(d)] = "check"]
    BY <1>2 DEF Scheduled
  <2>4. \A u \in Task : pc'[u] = IF u = Recover(d) THEN "check" ELSE IF u = t THEN "idle" ELSE pc[u]
    BY <2>3 DEF TypeOK
  <2>5. \A j \in Job : j # t => op'[j] = op[j] /\ (Working(j, pc'[j]) <=> Working(j, pc[j]))
    BY <1>1, <2>2, <2>4, TaskNames DEF Working
  <2>6. t \in Job => op'[t] = "done" /\ pc'[t] = "idle"
    BY <1>1, <2>4
  <2>7. t \in Job => (op'[t] \in Pending <=> Working(t, pc'[t]))
    BY <2>6, Pendings DEF Working
  <2> QED BY <2>5, <2>7, OneJob
<1>3. CASE ~(Wanted(d) /\ ~Recovering(d))
  <2>1. pc' = [pc EXCEPT ![t] = "idle"]
    BY <1>3 DEF Scheduled
  <2>2. \A u \in Task : pc'[u] = IF u = t THEN "idle" ELSE pc[u]
    BY <2>1 DEF TypeOK
  <2>3. \A j \in Job : j # t => op'[j] = op[j] /\ pc'[j] = pc[j]
    BY <1>1, <2>2, TaskNames
  <2>4. t \in Job => op'[t] = "done" /\ pc'[t] = "idle"
    BY <1>1, <2>2
  <2> QED BY <2>3, <2>4, OneJob, Pendings DEF Working
<1> QED BY <1>2, <1>3

LEMMA FailTracked ==
  ASSUME TypeOK, LockOrder, AllTracked, NEW t \in Task, pc[t] \in Holding, Fail(t)
  PROVE  AllTracked'
<1>1. CASE t[1] = "recover"
  <2>1. pc' = [pc EXCEPT ![t] = "check"] /\ op' = [op EXCEPT ![t] = "done"]
    BY <1>1 DEF Fail, Proceed, Goto
  <2> QED BY <2>1, JobGoes, Pendings DEF Working
<1>2. CASE t[1] # "recover"
  <2>1. t # Recover(t[2])
    BY <1>2 DEF Recover
  <2>2. pc[t] \in Contending /\ ahead[t] = {}
    BY DEF LockOrder, Contending
  <2>3. pc' = Scheduled([pc EXCEPT ![t] = "idle"], t[2]) /\ op' = [op EXCEPT ![t] = "done"]
    BY <1>2 DEF Fail
  <2> QED BY <2>1, <2>2, <2>3, JobGivesUp
<1> QED BY <1>1, <1>2

\* The recovery is cancelled, and its operation with it.
LEMMA StopRecoveryTracked ==
  ASSUME TypeOK, RecoveryOps, AllTracked, NEW t \in Task, t[2] \in Devices, t # Recover(t[2]),
         StopRecovery(t)
  PROVE  /\ pc'[t] \in {"stopRec", "begin"}
         /\ \A j \in Job : j # t =>
              (CancelledOp({Recover(t[2])})[j] \in Pending <=> Working(j, pc'[j]))
<1>1. PICK r : r = Recover(t[2])
  OBVIOUS
<1>2. r \in Job /\ r \in Task /\ r # t /\ op[r] # "queued" /\ op[r] \in Pending \cup {"done"}
  BY <1>1, JobNames, TaskNames DEF RecoveryOps, TypeOK
<1>3. \A j \in Job : CancelledOp({r})[j] = IF j \in Ends({r}) /\ op[j] = "running" THEN "done" ELSE op[j]
  BY DEF CancelledOp
<1>4. \A j : j \in Ends({r}) <=> j = r /\ pc[r] \notin Undoing
  BY DEF Ends
<1>5. CASE Recovering(t[2])
  <2>1. pc' = [CancelledPc({r}) EXCEPT ![t] = "stopRec"]
    BY <1>1, <1>5 DEF StopRecovery
  <2>2. \A u \in Task : CancelledPc({r})[u] = IF u # r THEN pc[u]
                                               ELSE IF u \in Ends({r}) THEN "idle" ELSE "unwind"
    BY DEF CancelledPc
  <2>3. \A u \in Task : pc'[u] = IF u = t THEN "stopRec" ELSE CancelledPc({r})[u]
    BY <2>1, CancelledType
  <2>4. pc[r] # "unwind" /\ pc[r] # "idle"
    BY <1>1, <1>5 DEF Recovering
  <2>5. \A j \in Job : j # t /\ j # r => CancelledOp({r})[j] = op[j] /\ pc'[j] = pc[j]
    BY <1>3, <1>4, <2>2, <2>3, TaskNames
  <2>6. CASE pc[r] \in Undoing
    <3>1. CancelledOp({r})[r] = op[r] /\ pc'[r] = "unwind"
      BY <1>2, <1>3, <1>4, <2>2, <2>3, <2>6
    <3>2. op[r] \in Pending
      BY <1>2, <2>6 DEF AllTracked, Working, Undoing
    <3> QED BY <1>1, <2>3, <2>5, <3>1, <3>2 DEF AllTracked, Working
  <2>7. CASE pc[r] \notin Undoing
    <3>1. CancelledOp({r})[r] = "done" /\ pc'[r] = "idle"
      BY <1>2, <1>3, <1>4, <2>2, <2>3, <2>4, <2>7 DEF Pending
    <3> QED BY <1>1, <2>3, <2>5, <3>1, Pendings DEF AllTracked, Working
  <2> QED BY <2>6, <2>7
<1>6. CASE ~Recovering(t[2])
  <2>1. pc' = [pc EXCEPT ![t] = "begin"]
    BY <1>6 DEF StopRecovery, Proceed, Goto
  <2>2. \A u \in Task : pc'[u] = IF u = t THEN "begin" ELSE pc[u]
    BY <2>1 DEF TypeOK
  <2>3. pc[r] \in {"idle", "unwind"}
    BY <1>1, <1>6 DEF Recovering
  <2>4. CancelledOp({r})[r] = op[r]
    <3>1. pc[r] = "idle" => op[r] # "running"
      BY <1>2, Pendings DEF AllTracked, Working
    <3> QED BY <1>2, <1>3, <1>4, <2>3, <3>1 DEF Undoing
  <2>5. \A j \in Job : j # t => CancelledOp({r})[j] = op[j] /\ pc'[j] = pc[j]
    BY <1>3, <1>4, <2>2, <2>4, TaskNames
  <2> QED BY <1>1, <2>2, <2>5 DEF AllTracked
<1> QED BY <1>5, <1>6

\* Polling is stopped by a task that works on.
LEMMA StopPollingTracked ==
  ASSUME TypeOK, AllTracked, NEW t \in Task, t[2] \in Devices, StopPolling(t),
         \/ t \notin Job /\ op' = op
         \/ op' = op /\ Working(t, pc[t])
         \/ op' = [op EXCEPT ![t] = "running"]
  PROVE  AllTracked'
<1>1. Poll(t[2]) \in Task /\ Poll(t[2]) \notin Job
  BY TaskNames, NotJobs
<1>2. pc' = [pc EXCEPT ![Poll(t[2])] = "idle", ![t] = "teardown"]
  BY DEF StopPolling
<1>3. \A u \in Task : pc'[u] = IF u = t THEN "teardown" ELSE IF u = Poll(t[2]) THEN "idle" ELSE pc[u]
  BY <1>1, <1>2 DEF TypeOK
<1>4. \A j \in Job : j # t => op'[j] = op[j] /\ pc'[j] = pc[j]
  BY <1>1, <1>3, TaskNames DEF TypeOK
<1>5. t \in Job => op'[t] \in Pending /\ pc'[t] = "teardown"
  BY <1>3, Pendings DEF TypeOK, AllTracked
<1> QED BY <1>4, <1>5, OneJob DEF Working

LEMMA TaskStepTracked ==
  ASSUME LockInv, RecoveryOps, AllTracked, NEW t \in Task, TaskStep(t)
  PROVE  AllTracked'
<1>0. TypeOK /\ LockOrder
  BY DEF LockInv
<1> USE <1>0
<1>1. CASE Start(t)
  <2>1. t \in Requested /\ t[2] \in Devices /\ t # Recover(t[2]) /\ t \in Job
    BY <1>1, JobNames DEF Start, Requested, Recover
  <2>2. CASE t[2] \in registered
    <3>1. StopRecovery(t) /\ op' = [CancelledOp({Recover(t[2])}) EXCEPT ![t] = "running"]
      BY <1>1, <2>2 DEF Start
    <3>2. \A j \in Job : op'[j] = IF j = t THEN "running" ELSE CancelledOp({Recover(t[2])})[j]
      BY <3>1, CancelledType
    <3>3. /\ pc'[t] \in {"stopRec", "begin"}
          /\ \A j \in Job : j # t =>
               (CancelledOp({Recover(t[2])})[j] \in Pending <=> Working(j, pc'[j]))
      BY <2>1, <3>1, StopRecoveryTracked
    <3>4. Working(t, pc'[t])
      BY <2>1, <3>3 DEF Working, Requested
    <3> QED BY <3>2, <3>3, <3>4, Pendings DEF AllTracked, Working
  <2>3. CASE t[2] \notin registered
    <3>1. pc' = [pc EXCEPT ![t] = "idle"] /\ op' = [op EXCEPT ![t] = "done"]
      BY <1>1, <2>3 DEF Start, Pause, Goto
    <3> QED BY <3>1, JobGoes, Pendings DEF Working
  <2> QED BY <2>2, <2>3
<1>2. CASE Prepare(t)
  <2>1. t \in Requested /\ t[2] \in Devices /\ t[1] # "recover" /\ Working(t, pc[t])
    BY <1>2 DEF Prepare, Stopped, Stage, Requested, Working
  <2>2. CASE StopPolling(t) /\ op' = op
    BY <2>1, <2>2, StopPollingTracked
  <2>3. CASE pc' = [pc EXCEPT ![t] = "idle"] /\ op' = [op EXCEPT ![t] = "done"]
    BY <2>3, JobGoes, Pendings DEF Working
  <2>4. CASE pc' = [pc EXCEPT ![t] = "lockOn"] /\ op' = op
    BY <2>1, <2>4, JobStays DEF Working
  <2> QED BY <1>2, <2>2, <2>3, <2>4 DEF Prepare, Pause, Goto, Acquire
<1>3. CASE TakeAdapter(t)
  <2>1. pc[t] = "teardown"
    BY <1>3 DEF TakeAdapter, Stage
  <2>2. CASE pc' = [pc EXCEPT ![t] = "idle"] /\ op' = [op EXCEPT ![t] = "done"]
    BY <2>2, JobGoes, Pendings DEF Working
  <2>3. CASE pc' = [pc EXCEPT ![t] = "lockOff"] /\ op' = op
    BY <2>1, <2>3, JobStays DEF Working
  <2> QED BY <1>3, <2>2, <2>3 DEF TakeAdapter, Disconnected, Pause, Goto, Acquire
<1>4. ASSUME NEW place \in Places, pc' = [pc EXCEPT ![t] = place], op' = op,
             pc[t] \notin {"idle", "boot", "check", "sleep", "begin"},
             place \notin {"idle", "boot", "check", "sleep", "begin"}
      PROVE  AllTracked'
  BY <1>4, JobStays DEF Working
<1>5. CASE SwitchOff(t)
  BY <1>5, <1>4 DEF SwitchOff, Stage, Goto, Places, Contending, Holding
<1>6. CASE BeginRelease(t)
  BY <1>6, <1>4 DEF BeginRelease, Stage, Pause, Goto, Places, Contending, Holding
<1>7. CASE EndRelease(t)
  <2>1. pc[t] = "bluez" /\ pc[t] \in Holding
    BY <1>7 DEF EndRelease, Stage, Holding
  <2>2. CASE pc' = [pc EXCEPT ![t] = "lockOn"] /\ op' = op
    BY <2>1, <2>2, <1>4 DEF Places, Contending, Waiting
  <2>3. CASE Fail(t)
    BY <2>1, <2>3, FailTracked
  <2> QED BY <1>7, <2>2, <2>3 DEF EndRelease, Acquire
<1>8. CASE Resolve(t)
  BY <1>8, <1>4 DEF Resolve, Stage, Pause, Proceed, Goto, Places, Contending, Holding
<1>9. CASE Unhide(t)
  BY <1>9, <1>4 DEF Unhide, Stage, Pause, Goto, Places, Contending, Holding
<1>10. CASE CallFails(t)
  BY <1>10, FailTracked DEF CallFails, Holding
<1>11. CASE Dial(t)
  BY <1>11, <1>4 DEF Dial, Stage, Pause, Goto, Places, Contending, Holding
<1>12. CASE Connect(t)
  BY <1>12, <1>4 DEF Connect, Stage, Pause, Goto, Places, Contending, Holding
<1>13. CASE CleanUp(t)
  BY <1>13, <1>4 DEF CleanUp, Stage, Pause, Goto, Places, Contending, Holding
<1>14. CASE Unwound(t)
  BY <1>14, JobGoes, Pendings DEF Unwound, Pause, Goto, Working
<1>15. CASE FirstRead(t)
  <2>1. pc' = [pc EXCEPT ![t] = "idle", ![Poll(t[2])] = "sleep"] /\ op' = [op EXCEPT ![t] = "done"]
    BY <1>15 DEF FirstRead
  <2>2. \A u \in Task : u # Poll(t[2]) => pc'[u] = IF u = t THEN "idle" ELSE pc[u]
    BY <2>1 DEF TypeOK
  <2>3. \A j \in Job : j # Poll(t[2]) /\ j \in Task
    BY NotJobs, TaskNames
  <2>4. \A j \in Job : j # t => op'[j] = op[j] /\ pc'[j] = pc[j]
    BY <2>1, <2>2, <2>3 DEF TypeOK
  <2>5. t \in Job => op'[t] = "done" /\ pc'[t] = "idle"
    BY <2>1, <2>2, <2>3 DEF TypeOK
  <2> QED BY <2>4, <2>5, OneJob, Pendings DEF Working
<1>16. CASE ScanBegin(t)
  BY <1>16, <1>4 DEF ScanBegin, Stage, Pause, Goto, Places, Contending, Holding
<1>17. ASSUME NEW S \in SUBSET Devices, Discovered(t, S) PROVE AllTracked'
  <2>1. pc[t] \in {"discover", "rediscover"} /\ pc[t] \in Holding
    BY <1>17 DEF Discovered, Holding
  <2>2. CASE Fail(t)
    BY <2>1, <2>2, FailTracked
  <2>3. CASE pc' = [pc EXCEPT ![t] = "dial"] /\ op' = op
    BY <2>1, <2>3, <1>4 DEF Places, Contending, Holding
  <2>4. CASE pc' = [pc EXCEPT ![t] = "release"] /\ op' = op
    BY <2>1, <2>4, <1>4 DEF Places, Contending, Holding
  <2> QED BY <1>17, <2>2, <2>3, <2>4 DEF Discovered, Pause, Proceed, Goto
<1>18. ASSUME NEW S \in SUBSET Devices, NEW ok \in BOOLEAN, ScanEnd(t, S, ok) PROVE AllTracked'
  <2>1. pc' = [pc EXCEPT ![t] = "idle"]
    BY <1>18 DEF ScanEnd, Pause, Goto
  <2>2. CASE t = Scan
    <3>1. op' = [op EXCEPT ![t] = "done"]
      BY <1>18, <2>2 DEF ScanEnd
    <3> QED BY <2>1, <3>1, JobGoes, Pendings DEF Working
  <2>3. CASE t # Scan
    <3>1. op' = op /\ t = Loop
      BY <1>18, <2>3 DEF ScanEnd
    <3> QED BY <2>1, <3>1, JobStays, NotJobs
  <2> QED BY <2>2, <2>3
<1> QED
  BY <1>1, <1>2, <1>3, <1>5, <1>6, <1>7, <1>8, <1>9, <1>10, <1>11, <1>12, <1>13, <1>14, <1>15, <1>16,
     <1>17, <1>18 DEF TaskStep

LEMMA DeviceStepTracked ==
  ASSUME LockInv, RecoveryOps, AllTracked, NEW d \in Devices, DeviceStep(d)
  PROVE  AllTracked'
<1>0. TypeOK /\ LockOrder /\ TaskNames
  BY TaskNames DEF LockInv
<1>1. CASE FinishDisconnect(d)
  <2>1. /\ pc' = [pc EXCEPT ![<<"disconnect", d>>] = "idle"]
        /\ op' = [op EXCEPT ![<<"disconnect", d>>] = "done"]
    BY <1>1 DEF FinishDisconnect, Disconnected, Pause, Goto
  <2> QED BY <1>0, <2>1, TaskNames, JobGoes, Pendings DEF Working
<1>2. CASE RecoverCheck(d)
  <2>1. pc[Recover(d)] \in {"boot", "check"} /\ op' = op /\ Recover(d)[1] = "recover"
    BY <1>2 DEF RecoverCheck, Recover
  <2>2. \E place \in {"idle", "begin", "sleep"} : pc' = [pc EXCEPT ![Recover(d)] = place]
    BY <1>2 DEF RecoverCheck, Pause, Proceed, Goto
  <2> QED BY <1>0, <2>1, <2>2, TaskNames, JobStays DEF Working
<1>3. CASE RecoverRun(d)
  <2>1. pc[Recover(d)] \in {"begin", "sleep"} /\ Recover(d)[1] = "recover" /\ Recover(d)[2] = d
    BY <1>3 DEF RecoverRun, Recover
  <2>2. CASE StopPolling(Recover(d)) /\ op' = [op EXCEPT ![Recover(d)] = "running"]
    BY <1>0, <2>1, <2>2, TaskNames, StopPollingTracked
  <2>3. CASE pc' = [pc EXCEPT ![Recover(d)] = "check"] /\ op' = op
    BY <1>0, <2>1, <2>3, TaskNames, JobStays DEF Working
  <2> QED BY <1>3, <2>2, <2>3 DEF RecoverRun, Proceed, Goto
<1>4. ASSUME NEW t \in Task, t \notin Job, NEW place, pc' = [pc EXCEPT ![t] = place], op' = op
      PROVE  AllTracked'
  BY <1>0, <1>4, JobStays
<1>5. CASE PollWake(d) \/ PollRead(d)
  <2>1. op' = op /\ \E place \in Places : pc' = [pc EXCEPT ![Poll(d)] = place]
    BY <1>5 DEF PollWake, PollRead, Pause, Goto, Acquire, Places, Contending, Waiting, Holding
  <2> QED BY <2>1, <1>4, TaskNames, NotJobs
<1>6. ASSUME NEW valid \in BOOLEAN, NEW overdue \in BOOLEAN, PollDone(d, valid, overdue)
      PROVE  AllTracked'
  <2>1. pc[Poll(d)] \in Contending /\ ahead[Poll(d)] = {} /\ op' = op
    <3>1. \/ pc[Poll(d)] = "read"
          \/ pc[Poll(d)] = "lock" /\ ahead[Poll(d)] = {}
      BY <1>6 DEF PollDone, Stage
    <3> QED BY <1>0, <1>6, <3>1, TaskNames DEF LockOrder, PollDone, Contending, Waiting, Holding
  <2>2. CASE pc' = Scheduled([pc EXCEPT ![Poll(d)] = "idle"], d)
    <3>1. Poll(d) # Recover(d)
      BY DEF Poll, Recover
    <3> QED BY <1>0, <2>1, <2>2, <3>1, TaskNames, NotJobs, JobGivesUp
  <2>3. CASE \E place \in {"sleep", "idle"} : pc' = [pc EXCEPT ![Poll(d)] = place]
    BY <2>1, <2>3, <1>4, TaskNames, NotJobs
  <2> QED BY <1>6, <2>2, <2>3 DEF PollDone
<1>7. CASE DeleteBegin(d)
  <2>1. Deletion(d)[2] = d /\ op' = op
    BY <1>7 DEF Deletion, DeleteBegin
  <2>2. CASE StopPolling(Deletion(d))
    BY <1>0, <2>1, <2>2, TaskNames, NotJobs, StopPollingTracked
  <2>3. CASE pc' = [pc EXCEPT ![Deletion(d)] = "erase"]
    BY <2>1, <2>3, <1>4, TaskNames, NotJobs
  <2> QED BY <1>7, <2>2, <2>3 DEF DeleteBegin, Proceed, Goto
<1>8. CASE DeleteRelease(d) \/ DeleteErase(d)
  <2>1. op' = op /\ \E place \in {"erase", "idle"} : pc' = [pc EXCEPT ![Deletion(d)] = place]
    BY <1>8 DEF DeleteRelease, DeleteErase, Proceed, Pause, Goto
  <2> QED BY <2>1, <1>4, TaskNames, NotJobs
<1> QED BY <1>1, <1>2, <1>3, <1>5, <1>6, <1>7, <1>8 DEF DeviceStep

LEMMA RequestTracked ==
  ASSUME LockInv, RecoveryOps, AllTracked, NEW d \in Devices, Request(d)
  PROVE  AllTracked'
<1>0. TypeOK
  BY DEF LockInv
<1>1. CASE (\E automatic \in BOOLEAN : Register(d, automatic)) \/ Patch(d)
  BY <1>1 DEF Register, Patch, AllTracked
<1>2. ASSUME NEW a \in Commands[d], Command(d, a) PROVE AllTracked'
  <2>1. <<a, d>> \in Task
    BY CommandNames, TaskNames
  <2>2. pc' = [pc EXCEPT ![<<a, d>>] = "queued"] /\ op' = [op EXCEPT ![<<a, d>>] = "queued"]
    BY <1>2 DEF Command, Goto
  <2>3. Working(<<a, d>>, "queued")
    BY DEF Working
  <2> QED BY <1>0, <2>1, <2>2, <2>3, JobGoes, Pendings
<1>3. CASE Delete(d)
  <2>1. /\ Deletion(d) \in Task /\ Deletion(d) \notin Job /\ Deletion(d)[2] = d
        /\ Deletion(d) # Recover(d)
    BY TaskNames, NotJobs DEF Deletion, Recover
  <2>2. StopRecovery(Deletion(d)) /\ op' = CancelledOp({Recover(d)})
    BY <1>3 DEF Delete
  <2>3. \A j \in Job : j # Deletion(d) =>
          (CancelledOp({Recover(d)})[j] \in Pending <=> Working(j, pc'[j]))
    BY <1>0, <2>1, <2>2, StopRecoveryTracked
  <2> QED BY <2>1, <2>2, <2>3 DEF AllTracked, Working
<1> QED BY <1>1, <1>2, <1>3 DEF Request

LEMMA ServiceStepTracked ==
  ASSUME LockInv, phase = "up" => AllTracked, phase' = "up",
         StartScan \/ ScanRun \/ LoopWake \/ LinkLost \/ Restart \/ Crash \/ Close \/ CloseStep
  PROVE  AllTracked'
<1>0. TypeOK /\ DownIdle
  BY DEF LockInv
<1>1. CASE StartScan
  <2>1. pc' = [pc EXCEPT ![Scan] = "queued"] /\ op' = [op EXCEPT ![Scan] = "queued"] /\ phase = "up"
    BY <1>1 DEF StartScan, Serving, Goto
  <2>2. Working(Scan, "queued")
    BY DEF Working
  <2> QED BY <1>0, <2>1, <2>2, Kinds, JobGoes, Pendings
<1>2. CASE ScanRun
  <2>1. pc' = [pc EXCEPT ![Scan] = "lock"] /\ op' = [op EXCEPT ![Scan] = "running"] /\ phase = "up"
    BY <1>2 DEF ScanRun, Acquire
  <2>2. Working(Scan, "lock")
    BY DEF Working
  <2> QED BY <1>0, <2>1, <2>2, Kinds, JobGoes, Pendings
<1>3. CASE LoopWake
  <2>1. pc' = [pc EXCEPT ![Loop] = "lock"] /\ op' = op /\ phase = "up"
    BY <1>3 DEF LoopWake, Acquire
  <2> QED BY <1>0, <2>1, TaskNames, NotJobs, JobStays
<1>4. CASE LinkLost
  BY <1>4 DEF LinkLost, AllTracked
<1>5. CASE Restart
  <2>1. \A j \in Job : op'[j] = "done"
    BY <1>5 DEF Restart, Interrupted
  <2>2. \A t \in Task : pc[t] = "idle"
    BY <1>0, <1>5 DEF Restart, DownIdle
  <2>3. \A t \in Task : pc'[t] \in {"idle", "boot"}
    BY <1>0, <1>5, <2>2 DEF Restart, Goto, TypeOK
  <2>4. \A j \in Job : op'[j] \notin Pending /\ pc'[j] \in {"idle", "boot"}
    BY <2>1, <2>3, TaskNames, Pendings
  <2> QED BY <2>4 DEF AllTracked, Working
<1>6. CASE Crash \/ Close \/ CloseStep
  BY <1>6 DEF Crash, Close, CloseStep, CloseOperations, CloseRecoveries, ClosePolls, CloseAdapter
<1> QED BY <1>1, <1>2, <1>3, <1>4, <1>5, <1>6

\* Only requests queue an operation.
LEMMA RecoveryOpsStep == ASSUME TypeOK, RecoveryOps, [Next]_vars PROVE RecoveryOps'
<1> SUFFICES ASSUME NEW r \in {Recover(d) : d \in Devices} PROVE op'[r] # "queued"
  BY DEF RecoveryOps
<1>1. op[r] # "queued" /\ r \in Job /\ r # Scan /\ r \notin Requested
  <2>1. PICK d \in Devices : r = Recover(d)
    OBVIOUS
  <2>2. op[r] # "queued" /\ r \in Job /\ r # Scan
    BY <2>1, JobNames, Kinds DEF RecoveryOps
  <2>3. r \notin Requested
    BY <2>1 DEF Requested, Recover
  <2> QED BY <2>2, <2>3
<1>2. \A t, s : s # "queued" /\ op' = [op EXCEPT ![t] = s] => op'[r] # "queued"
  BY <1>1 DEF TypeOK
<1>3. \A T, t : /\ CancelledOp(T)[r] # "queued"
                /\ op' = [CancelledOp(T) EXCEPT ![t] = "running"] => op'[r] # "queued"
  BY <1>1, CancelledType DEF CancelledOp
<1>4. CASE UNCHANGED op
  BY <1>1, <1>4
<1>5. ASSUME NEW d \in Devices, Request(d) PROVE op'[r] # "queued"
  <2>1. ASSUME NEW a \in Commands[d], Command(d, a) PROVE op'[r] # "queued"
    <3>1. r # <<a, d>>
      BY <1>1, CommandNames
    <3> QED BY <1>1, <2>1, <3>1 DEF Command, TypeOK
  <2>2. CASE Delete(d)
    BY <1>3, <2>2 DEF Delete
  <2> QED BY <1>1, <1>5, <2>1, <2>2 DEF Request, Register, Patch
<1>6. ASSUME NEW d \in Devices, DeviceStep(d) PROVE op'[r] # "queued"
  <2>1. CASE FinishDisconnect(d)
    BY <1>2, <2>1 DEF FinishDisconnect, Disconnected
  <2>2. CASE RecoverRun(d)
    BY <1>1, <1>2, <2>2 DEF RecoverRun
  <2> QED BY <1>1, <1>6, <2>1, <2>2
          DEF DeviceStep, RecoverCheck, PollWake, PollRead, PollDone, DeleteBegin, DeleteRelease,
              DeleteErase
<1>7. ASSUME NEW t \in Task, TaskStep(t) PROVE op'[r] # "queued"
  <2>1. CASE Fail(t) \/ Unwound(t) \/ FirstRead(t)
    BY <1>2, <2>1 DEF Fail, Unwound, FirstRead
  <2>2. CASE Start(t)
    BY <1>2, <1>3, <2>2 DEF Start
  <2>3. CASE Prepare(t)
    BY <1>1, <1>2, <2>3 DEF Prepare
  <2>4. CASE TakeAdapter(t)
    BY <1>1, <1>2, <2>4 DEF TakeAdapter, Disconnected
  <2>5. ASSUME NEW S \in SUBSET Devices, NEW ok \in BOOLEAN, ScanEnd(t, S, ok) PROVE op'[r] # "queued"
    BY <1>1, <1>2, <2>5 DEF ScanEnd
  <2>6. ASSUME NEW S \in SUBSET Devices, Discovered(t, S) PROVE op'[r] # "queued"
    BY <1>1, <2>1, <2>6 DEF Discovered
  <2>7. CASE EndRelease(t)
    BY <1>1, <2>1, <2>7 DEF EndRelease
  <2>8. CASE SwitchOff(t) \/ BeginRelease(t) \/ Resolve(t) \/ Unhide(t)
    BY <1>1, <2>8 DEF SwitchOff, BeginRelease, Resolve, Unhide
  <2>9. CASE Dial(t) \/ Connect(t) \/ CleanUp(t) \/ ScanBegin(t)
    BY <1>1, <2>9 DEF Dial, Connect, CleanUp, ScanBegin
  <2>10. CASE CallFails(t)
    BY <2>1, <2>10 DEF CallFails
  <2> QED BY <1>7, <2>1, <2>2, <2>3, <2>4, <2>5, <2>6, <2>7, <2>8, <2>9, <2>10 DEF TaskStep
<1>8. CASE StartScan
  BY <1>1, <1>8 DEF StartScan, TypeOK
<1>9. CASE ScanRun
  BY <1>2, <1>9 DEF ScanRun
<1>10. CASE LoopWake \/ LinkLost \/ Crash
  BY <1>1, <1>10 DEF LoopWake, LinkLost, Crash
<1>11. CASE Restart \/ CloseAdapter
  BY <1>1, <1>11 DEF Restart, CloseAdapter, Interrupted
<1>12. CASE Close \/ CloseOperations \/ CloseRecoveries \/ ClosePolls
  BY <1>3, <1>12 DEF Close, CloseOperations, CloseRecoveries, ClosePolls, CancelAll
<1> QED BY <1>4, <1>5, <1>6, <1>7, <1>8, <1>9, <1>10, <1>11, <1>12 DEF Next, CloseStep, vars

LEMMA TrackStep == LockInv /\ TrackInv /\ [Next]_vars => TrackInv'
<1> SUFFICES ASSUME LockInv, TrackInv, [Next]_vars PROVE TrackInv'
  OBVIOUS
<1>1. RecoveryOps'
  BY RecoveryOpsStep DEF LockInv, TrackInv
<1>2. ASSUME phase' = "up" PROVE AllTracked'
  <2>1. CASE UNCHANGED vars
    BY <1>2, <2>1 DEF vars, TrackInv, AllTracked
  <2>2. ASSUME NEW d \in Devices, Request(d) PROVE AllTracked'
    <3>1. phase = "up"
      BY <2>2 DEF Request, Register, Command, Patch, Delete, Serving
    <3> QED BY <2>2, <3>1, RequestTracked DEF TrackInv
  <2>3. ASSUME NEW d \in Devices, DeviceStep(d) PROVE AllTracked'
    <3>1. phase' = phase
      BY <2>3 DEF DeviceStep, FinishDisconnect, RecoverCheck, RecoverRun, PollWake, PollRead, PollDone,
                  DeleteBegin, DeleteRelease, DeleteErase
    <3> QED BY <1>2, <2>3, <3>1, DeviceStepTracked DEF TrackInv
  <2>4. ASSUME NEW t \in Task, TaskStep(t) PROVE AllTracked'
    <3>1. phase' = phase
      BY <2>4, TaskStepAlive
    <3> QED BY <1>2, <2>4, <3>1, TaskStepTracked DEF TrackInv
  <2>5. CASE StartScan \/ ScanRun \/ LoopWake \/ LinkLost \/ Restart \/ Crash \/ Close \/ CloseStep
    BY <1>2, <2>5, ServiceStepTracked DEF TrackInv
  <2> QED BY <2>1, <2>2, <2>3, <2>4, <2>5 DEF Next
<1> QED BY <1>1, <1>2 DEF TrackInv

\* The inductive invariant: the operations that are pending are those whose tasks work.
THEOREM TrackInvariant == Spec => []TrackInv
<1>1. Init => TrackInv
  <2> SUFFICES ASSUME Init PROVE TrackInv
    OBVIOUS
  <2>1. \A j \in Job : op[j] = "done"
    BY DEF Init
  <2> QED BY <2>1, JobNames DEF TrackInv, RecoveryOps, Init
<1> QED BY <1>1, TrackStep, LockInvariant, PTL DEF Spec

\* While the service is up, an operation is pending exactly while its task works on it: no
\* failure, cancellation or restart leaves one behind, for every set of devices (service.py,
\* _execute_connection and _stop_recovery).
THEOREM NoneIsLost == Spec => []OperationsTracked
<1>1. TrackInv => OperationsTracked
  BY DEF TrackInv, AllTracked, Working, OperationsTracked
<1> QED BY <1>1, TrackInvariant, PTL
=============================================================================
