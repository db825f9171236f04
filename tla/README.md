# A TLA+ model of pitblu-core

pitblu-core is a headless gateway between Weber iGrill V202 thermometers and the
network: one asyncio process that talks Bluetooth to at most one thermometer at a
time, keeps a small SQLite database, and serves REST, server-sent events and MQTT.
These modules model the control of that process. They are read together with the
source: every definition that models code is listed in `PROJECT.json` ("map") with the
lines it stands for.

`src/` below is the repository; source files are named relative to
`src/src/pitblu_core/`, documents relative to `src/`.

## 1. Inventory

### Components

Each row names the state a component keeps, what it does, whom it talks to, and where it
is modelled.

| Component | State it keeps | Operations | Talks to | Modelled in |
| --- | --- | --- | --- | --- |
| `AdministrationService` (`service.py`) | `_owner`, `_connected_device`, `_candidates`, `_active`, `_tasks`, `_recoveries`, `_polling_tasks`, `_io_lock`, `_scan_results`, `_closing` | register, patch, delete, scan, connect, disconnect, reconnect; background discovery, polling, automatic recovery; start and close | adapter (awaited calls under the lock), store (synchronous calls), telemetry (awaited, never suspends) | `Administration`, `Register`, `Polling`, `OperationLog` |
| Bleak iGrill adapter (`adapters/igrill_v202.py`, `adapters/base.py`) | the Bleak client, discovered candidates, battery value and schedule | discover, connect (with clean-up), disconnect, read_snapshot; `_on_disconnect` callback | Bleak, BlueZ | `BleakAdapter`, `DeviceLink`, `Register` |
| BlueZ release (`bluez.py`) | none | asks `bluetoothctl` to drop a link Bleak no longer knows | the host | `BleakAdapter`, `Administration` |
| `AdministrativeStore` (`storage.py`) | devices, operations, events, configuration, secrets, token record (SQLite) | one short transaction per call | the disk | `Register`, `OperationLog`, `Settings`; not the events |
| `TelemetryState` (`telemetry.py`) | current snapshot and stale flag, heartbeat, a timer for each, event sequences | record, mark_stale, connection, communication_succeeded, heartbeat_*, remove, close | publishes events | `Telemetry`; not close |
| `EventBus` and event stream (`events.py`, `server.py`) | history, latest retained event per topic, one bounded queue per subscriber | publish (drop the oldest), subscribe, stream, forget_device, close_streams | telemetry in, REST, SSE and MQTT out | `Streams`, `Mqtt`, `Telemetry` |
| `MqttPublisher` (`mqtt.py`) | connection state, failures, backoff | run: connect with a Last Will, replay, publish, flush, retry | the bus and the broker | `Mqtt` |
| `ConfigurationManager` (`configuration.py`) | effective values, sources, persisted overrides, version | layering at start, validate_patch, update with an expected version | store | `Settings` |
| REST API (`api.py`) | event-stream count, rate limits, authentication jobs | routing, authentication, throttling, lifespan | everything above | the requests, in the module of what they change |
| `RateLimit` (`security.py`) | level of the bucket, time of the last request | retry_after | API | `Throttle` |
| `RequestBounds` (`security.py`) | none between requests | buffers one body within 5 s and a size | API | - |
| `AdministratorTokens` (`auth.py`) | the token record | bootstrap, verify, rotate | store | `Settings`; not the hashing |
| `BackoffPolicy` (`connection.py`) | attempt counter | next_delay, reset | recovery, polling, MQTT | `Polling` |
| `ConnectionStateMachine` (`connection.py`) | desired and observed state | transition, request_connect, ... | local to one operation | - |
| Command line tools (`config_cli.py`, `api_client.py`, `install_cli.py`, ...) | a dialogue | settings, guided setup, waiting for operations and health, guided installation | API, systemd | `Settings`, `Register`, `OperationLog`, `Deployment` |
| Deployment (`deploy/manage.sh`, `deployment.py`) | releases, selected release, unit, backups | install, upgrade, backup, rollback, uninstall | the host | `Deployment` |
| Protocol decoding and models, simulated adapter, `DiscoverySupervisor`, host diagnostics, soak script | - | decoding of bytes, stand-ins, host I/O, measurement | - | - |

### How they interact

Everything runs on one event loop. A coroutine gives way only where an `await` really
suspends, so the code between two suspensions is atomic; `EventBus.publish` is
declared `async` but never suspends, so neither does anything in `TelemetryState`
except its timers. Adapter calls are serialised by `_io_lock`, a first-come
first-served lock. Tasks are stopped by `task.cancel()`, mostly followed by waiting for
the cancelled task. Store calls are synchronous and take effect at once; the process
may die between any two of them.

### What is hard

* *Interleaving at awaits.* An operation decides (who owns the adapter, is the device
  connected, is a recovery running), waits (for a cancelled task, for the lock, for the
  radio) and acts on what it decided.
* *Cancellation.* A connect that is cancelled first takes its client down, and a command to
  BlueZ is killed and waited for, both holding the lock; who cancelled may or may not wait
  for that.
* *Supervision.* Nothing watches the tasks: that a device which should be connected is
  polled or recovered follows only from each way out of each task starting the next.
* *Failure and restart.* Links drop at any time, discovery misses devices, the process
  dies with operations stored as running.
* *Telling.* A request stores the desired state, which REST shows at once, and its task
  tells telemetry later; recoveries, polls, timers and late readings publish in between.
* *Time.* Freshness is decided by comparing wall-clock times but driven by sleeping on
  the monotonic clock.
* *Bounded queues and replay.* Subscribers lose their oldest event when slow; the MQTT
  publisher replays what is retained while new events arrive; the broker publishes a
  Last Will when it, not the publisher, notices that a connection is gone.
* *Several links.* Every connect makes a new Bleak client; a client that goes down calls
  back whoever is served by then, and one whose disconnect was given up may stay up.
* *Identities.* A thermometer is known by its address, a row by a name that may be missing
  from an advertisement, a candidate by an id that every discovery draws anew; operations
  work with the row as it was when they began.
* *People.* Dialogues read, let somebody think, write, and restart the service, while
  others do the same.
* *Shutdown of streams.* A stream is a request that never ends by itself, and the server
  waits for its requests.
* *Limits.* Token buckets that are brought up to date only when somebody asks, logs that
  drop the oldest, slots.
* *The host.* Installation and upgrade are scripts of many steps that may stop between any
  two.

`PROJECT.json` ("hazards") lists each of these at its line with the properties that
would catch it, and says why where none does: work on a device that is being deleted and
the link it leaves behind, the late callback of a client that was given up, and consumers of
a device that was registered again.

### What makes each component correct

* Service: adapter calls exclude each other; what is read for a device comes from that
  device; only the owner's tasks touch the adapter; stored operations are pending
  exactly while somebody works on them; a device that should be connected is always
  supervised and, unless the radio is hopeless, polled again; a link without valid readings
  is given up in time, and a flapping one backs off; a disconnect stays; close leaves
  nothing behind and returns.
* Register: no thermometer has two rows, and an operation dials the thermometer its row
  stands for.
* Log of operations: what a client is told about its operation is what happened.
* Adapter: one link at a time; no link is up that nobody remembers; a snapshot mixes
  nothing of two links.
* Telemetry: nothing older than its threshold is called fresh; the retained view and
  the REST view agree once telemetry has been told what was accepted.
* Bus and MQTT: once the publisher has caught up, the broker's retained topics are the
  latest events, and a consumer shows them; a stopped service is shown as unavailable. No
  event disappears between the queue and a stream, and streams end at the shutdown.
* Configuration: what is in memory is what the database holds; nobody overwrites what he
  has not seen; what was accepted starts; a reported success is true.
* Limits: in every window no more requests pass than the rate allows, and who waits as told
  is not turned away.
* Deployment: the service runs with the database and unit of its own release, or there is a
  backup that fits together.

## 2. Modules

| Module | Models | Extends |
| --- | --- | --- |
| `Administration` | tasks of `AdministrationService` with the parts of the adapter, BlueZ release and store they rely on | |
| `MCAdministration` | instances for TLC | `Administration` |
| `AdministrationProofs`, `AdministrationLock` | proofs of the types, of the exclusion of adapter calls, and that no operation is lost | `Administration` |
| `AdministrationOwner` | proofs about who works for which device, and of what a stopped service leaves | `AdministrationLock` |
| `Telemetry` | `TelemetryState` with the retained view of the event bus, the two clocks, and the order in which the service tells it what was accepted | |
| `TelemetryProofs` | proofs of its types, of the two freshness bounds and of the retained view | `Telemetry` |
| `Mqtt` | `MqttPublisher`, the queue and retained view of `EventBus`, the broker and a consumer | |
| `MqttProofs` | proofs of its types, of what the broker retains and a consumer shows, and of what a stop leaves | `Mqtt` |
| `Settings` | `ConfigurationManager`, its routes, the start of the service, the dialogues of `pitblu-core-config` | |
| `MCSettings` | an instance for TLC | `Settings` |
| `SettingsProofs` | proofs of its types, that memory follows the store, that nobody is overwritten, and of what a restart and a dialogue's report rely on | `Settings` |
| `Register` | rows, identities, candidates; discovery, registration, selection, and the operations that use them | |
| `DeviceLink` | abstract: what the service relies on in an adapter | |
| `BleakAdapter` | the adapter for real thermometers with its Bleak clients, and the BlueZ release | instantiates `DeviceLink` |
| `Polling` | the timing of the polling and recovery loops, `BackoffPolicy` | |
| `Throttle` | `RateLimit` | |
| `DeviceProofs` | proofs about the adapter's links, that it implements `DeviceLink`, and about the timing of polling | `BleakAdapter`, `Polling` |
| `Streams` | event streams, their slots and queues, the shutdown of the server | |
| `OperationLog` | stored operations, results of scans, and the tools that wait for them | |
| `Deployment` | `manage.sh` and the guided installer | |
| `MCParts` | the seven smaller parts in one specification, with instances for TLC | all of them |
| `PartsProofs` | proofs about `Register`, `Throttle`, `Streams`, `OperationLog`, `Deployment`, and about the composition | `MCParts`, `DeviceProofs` |

The models stand beside each other and meet where the code meets. A poll or a first
read of `Administration` is a `BeginRead` and a `Record` of `Telemetry`, a request is its
`Connect` or `Disconnect`, the end of a disconnect its `Disconnected`, a delete its `Delete` and
`Remove`; an event that `Telemetry` writes to `latest` is a
`Publish` of `Mqtt`. No action of one waits for another: publishing never suspends.
`Register` shows the same operations as `Administration` with other data (who a row stands
for) and fewer interleavings of one device's tasks; `Polling` shows the loops of one device
with time. `BleakAdapter` is the inside of the adapter calls, which `Administration` shows
from outside with one link; that calls come one at a time is proved there
(`AdapterExclusive`) and assumed here.

Operators with names ending in `Fault` (and `ScheduledClosing`) are the plausible bugs
of the definition that follows them; they are used by no specification, only to show
that the properties notice them ("mutants" in `PROJECT.json`).

### Administration

State. `registered`, `auto`, `desired`, `observed` are the columns of the devices table
that control reads; `op` is the state of the latest stored operation of each job
(`queued`, `running` or `done`, success and failure alike); `owner`, `connected`,
`cache` are `_owner`, `_connected_device` and, per row, whether `_candidates` holds the
row's own discovery id (`current`), only another id of the same thermometer (`fresh`)
or none; `link` is the device the adapter's live client is connected to. `pc` says at
which await each task is suspended, `ahead` which tasks hold the lock or wait for it
before it, and `phase` is the life of the process (`down`, `up`, and the stages of
`close`). A cancelled task ends where it is suspended, unless it has to undo something first
(`Undoing`): a connect in progress takes its client down again, and a `bluetoothctl` is killed
and waited for (`bluez.py:27`); until then it is in `unwind` and keeps the lock.

Steps. An action is the code from one suspension to the next. An `await` that does not
suspend (an uncontended lock, no recovery to cancel, no client to disconnect) does not
let other tasks in: then the task stays in `running` and no other action is enabled
before it goes on. This is what makes the model as fine as the program and no finer. The
tasks are the three requested operations of each device, its recovery, its polling loop, a
request that deletes it, the background discovery loop and one requested scan.

| Code | Actions |
| --- | --- |
| `register`, `patch_device`, `start_connection_operation`, `start_scan`, `delete_device` up to its first await | `Register`, `Patch`, `Command`, `StartScan`, `Delete` |
| `_execute_connection` | `Start` (row, `_stop_recovery`), `Prepare` (the connected shortcut, `_stop_polling` or the lock), `TakeAdapter`, `SwitchOff`, `FinishDisconnect`, `BeginRelease`, `EndRelease`, `Resolve`, `Discovered`, `Unhide`, `Dial`, `Connect`, `CleanUp`, `FirstRead`, `CallFails`, `Unwound` |
| `_recover` | `RecoverCheck`, `RecoverRun`, then `_execute_connection` |
| `_poll` | `PollWake`, `PollRead`, `PollDone` |
| rest of `delete_device` | `DeleteBegin`, `SwitchOff`, `DeleteRelease`, `DeleteErase` |
| scans | `LoopWake`, `ScanRun`, `ScanBegin`, `ScanEnd` |
| `start`, `close` | `Restart`; `Close`, `CloseOperations`, `CloseRecoveries`, `ClosePolls`, `CloseAdapter` |
| environment | `LinkLost`, `Crash` |

Constants choose how much is asked of the service: which commands for which device,
which devices may be deleted, whether a device that does not own the adapter may be
disconnected, whether automatic reconnection is switched after registration, whether
scans are requested. Where a property needs one of them off, the run that turns it on
and the finding it leads to are named below.

### Telemetry

State. `current`, `timer`, `heartbeat`, `heartbeatTimer` are `_current`, `_stale_tasks`,
`_heartbeats` and `_heartbeat_stale_tasks`; `latest` is what the event bus retains for
three topics of a device. `now` is real time, on which timers sleep; `wall` is the wall
clock, on which observations are stamped and compared. Snapshots and heartbeats also
carry `seen`, the real time of the observation, which no code reads: the properties
compare it with `now`.

REST shows the heartbeat under the desired state of the device's row (`Rest`,
`telemetry.py:344`), so the model also has what the service has accepted, reduced to what
decides when telemetry is told: `desired` is the row, `telling` the tasks of
`_register_heartbeat` that have not run, `active` and `recovery` a device's request and its
recovery, `link` whether it is the connected device and polled, `deleting` the deletions that
wait. A heartbeat is published where the code publishes it and on the code's conditions: for
a newer success, for a change to or from `disconnected`, for a heartbeat that goes stale, and
for a registration that was never published.

| Code | Actions |
| --- | --- |
| `register`, its task; `start_connection_operation` | `Register`, `RegisterHeartbeat`; `Connect`, `Disconnect` |
| `_execute_connection`: connect and reconnect up to `heartbeat_expected`; the initialised link; the first read or a failure | `StartsWithoutRow`, `FindsConnected`, `ConnectStarts`; `Initialised`; `BeginRead` and `Record` (`Completed`), `GivesUp` |
| `_execute_connection`: disconnect; `connection` with state disconnected, `heartbeat_disconnected` | `DisconnectStarts`; `Disconnected` |
| `_recover`; `_poll` | `RecoveryWakes`, `GivesUp`; `BeginRead`, `Record`, `ReadFails`, `GivesUp` |
| `delete_device`; `remove`, `forget_device` | `Delete`; `Remove` |
| the two timers | `SnapshotExpires`, `HeartbeatExpires` |
| time | `Tick`, `SetClock` |

A read takes time, so a snapshot may be recorded old, or after its device was removed. The
length of a timer is computed when it is created, which is one loop iteration before the
task runs. The event loop is prompt: no instant passes while a timer is due or a new
registration's task waits; that task runs before the task of any later request, as asyncio
starts tasks in the order of their creation (`Started`). One availability value stands for the device and its probes, which `record` and `mark_stale`
publish together.

### Mqtt

A topic is the heartbeat topic of a device. `sequence` is `_event_sequences`, `latest` is
the bus's `_latest`, `queue` the publisher's subscription; `phase` is where the publisher
is suspended, and `sending` the publication that waits for its acknowledgement. A message
reaches the broker in the step that sends it, and the next step acknowledges it or fails:
a publication that fails may have arrived. `lost` remembers for which topics the newest
event was dropped from the full queue: the code promises these only after the next
connection or at the end.

| Code | Actions |
| --- | --- |
| `EventBus.publish`, `_BoundedQueue`; `TelemetryState.remove`, `forget_device` | `Publish`, `Remove` |
| `MqttPublisher.run`: connect, replay, loop, final replay, `finally`, retry | `Connect`, `ConnectFails`; `Announced`, `Published`; `Take`, `Heartbeat`; `TakeStop`, `Flushed`; `PublishFails`, `Closed`; `Retry` |
| shutdown in `server.py` | `StopService`, `StopTimeout` |
| broker, network, host | `LinkDies`, `WillPublished`, `Crash` |

A dead connection is noticed by the publisher when a publication fails, and by the broker
independently, at any later time, which is when it publishes the Last Will: possibly after
the publisher is connected again.

### Settings

Three settings stand for all: `bind` and `mode`, tied by the rule that a service open to the
network wants a token, and `mqtt`, which is free. A layer is a function on some of their
names; a startup file may also hold a name nobody knows. `values`, `persisted` and `known`
are `_values`, `_persisted` and `_version` of the live manager, `startup` and `credential`
what its workers were started with. `based` remembers which overrides a dialogue has seen,
`savedAt` the version it has saved. A request is one step, since none of these handlers
suspends between reading the settings and having stored them; a dialogue is as many steps
as it has requests and questions.

| Code | Actions |
| --- | --- |
| `run`, `create_app`, `lifespan`; the ends of the process | `Start`, `StartFails`; `Crash`, `Restart`, `RestartNow` |
| startup files; token bootstrap and rotation | `Edit`; `Bootstrap`, `Rotate` |
| GET and PATCH of `/api/v1/config`, `ConfigurationManager.update`, `replace_config` | `Read`; `Save`, `Refused` |
| validation, password of the broker | `Validate`; `PutPassword`, `KeepPassword` |
| the rest of a dialogue of `config_cli.py` | `Decide`, `Decline`, `Later`, `Verify`, `Interrupt`, `RequestFails`, `Leave` |

### Register

`rows` is the devices table, with the identity (the thermometer) and the discovery id of each
row; `seen` is `_candidates`, `holder` is `_owner`. An operation keeps in `job` what it read
of its row. Ids are drawn anew by each discovery: here the ids of the last discovery are
numbers and every earlier one is `Stale`. A thermometer may show another name in each
advertisement, one of `Advertised`. `setup` is a guided setup of `config_cli.py` between
scan and registration.

| Code | Actions |
| --- | --- |
| background and requested scans | `BackgroundScan`, `ChooseFromScan` |
| `register`, `patch_device` with a discovery id | `RegisterDevice`, `SetupFails`; `SelectIdentity` |
| `start_connection_operation`, `_execute_connection` | `Request`; `Begin`, `Drop`, `UseCached`, `Rediscover`, `Finish` |
| `delete_device`; `start` | `DeleteAsked`, `Erase`; `Reboot` |

A recovery does to the register what a reconnect does.

### DeviceLink and BleakAdapter

`BleakAdapter` numbers the Bleak clients as they are made; `alive` are those whose link is up,
`client` is `_client`, `call` the adapter call in progress with the client it works on.
`LinkLost` may happen to any live client at any time, and every client that goes down runs
`_on_disconnect`, which forgets the *current* client. `CloseAbandoned` is a disconnect that
times out, raises or is cancelled; its link may stay up, and `abandoned` remembers it.

| Code | Actions |
| --- | --- |
| `connect` with its exception handler | `Dial`, `LinkUp`, `Initialised`, `DialFails`, then `Closed` or `CloseAbandoned` |
| `disconnect` | `Disconnect`, then the same |
| `read_snapshot` with the battery schedule | `ReadSnapshot`, `ReadBattery`, `ReadProbes`, `ReadCancelled`, `BatteryAges` |
| `release_registered_connection` | `ReleaseBegins`, `ReleaseEnds` |

`DeviceLink` says what the service needs of it: at most one link is served, a snapshot shows
probes of the link it was begun on, and a battery value of that link or none. Under the
mapping of `BleakAdapter` (the served link is the current client while it is up), each of its
steps is one of `DeviceLink` or changes nothing there (`LinkImplemented`).

### Polling and Throttle

`Polling` counts time in steps. `phase` says what the task of the device does, `left` how long
it still sleeps, or how long its reading may still take; `age` and `calm` are the times since
`last_valid` and `stable_since`, which the code computes from the monotonic clock; `quiet` and
`silent` are the true times since the last failed and the last valid reading, which no code
reads. A reading ends with a valid snapshot or not (`ReadStays`, `ReadGivesUp`).

`Throttle` counts in units in which both a token and what a step of time earns are whole
numbers, so that the rounding of `Retry-After` is exact. `accrued` is what has been earned
since the bucket was last brought up to date; `earned` and `spent` belong to a window that
may be opened at any time (`OpenWindow`), `pause` to the last refusal.

### Streams

`stream` is where the loop of a client's stream is suspended, `getter` its pending
`queue.get()`, which is a task of its own; `tally` counts what was published for the client,
dropped and given. The actions follow `EventBus.stream` (`Round`, `GetterRuns`, `WaitReturns`,
`Checks`, `Sent`) and `event_stream` (`AskStream`, `RefuseStream`, `OpenStream`,
`ClientGoes`); `Shutdown` is `GracefulServer.shutdown`. Two kinds of clients differ in
fairness only: readers read what they are sent, stallers may not.

### OperationLog and Deployment

`OperationLog`: `oplog` is the operations table with its pruning (`Put`), `results` the results
of scans, which only the process keeps; `watch` is a client that waits for an operation
(`wait_for_operation`) and what it has been told; `ended` remembers what really happened.

`Deployment`: `script` holds the steps that the running `manage.sh` still has to take
(`InstallSteps`, `UpgradeSteps`, `RollbackSteps`); each has an action, and between any two the
script may break off (`BreaksOff`) or the host start again (`HostStarts`). Opening a database
with a release migrates it. `broken` remembers that a script stopped the service and has
not come to its end.

### MCParts

The variable `part` chooses one of the seven parts at the start; the steps are then the steps
of that part, and all other variables keep their initial values (`Only`). So the states of the
run are the sum, not the product, of those of the parts, and every property is checked
on the behaviours of its own part.

## 3. Runs

| Run | Instance | Checks |
| --- | --- | --- |
| `admin_safety` | 2 devices, every command, automatic reconnection switched at any time | `TypeOK`, `TelemetryAttribution`, `OwnerActs`, `DisconnectsAlone` |
| `admin_one` | 1 device, every task, deletion, scans, stray disconnects | `OperationsTracked`, `StoppedClean`, `AdapterExclusive` |
| `admin_ends` | 1 device, every command, `FairSpec` | `OperationEnds`, `CloseEnds` |
| `admin_recovers` | 1 device, disconnect and reconnect, `LiveSpec` | `Supervised`, `ObservedHonest`, `Recovers` |
| `admin_stray` | 2 devices, stray disconnects: *violation* | `TelemetryAttribution` |
| `admin_connect` | 1 device, every command: *violation* | `Supervised` |
| `admin_disconnect` | 1 device: *violation* | `DisconnectKept` |
| `telemetry` | 1 device, thresholds of 1, instants 0 to 3, the clock set once | `TypeOK`, `FreshBounded`, `HeartbeatBounded`, `RetainedAgrees` |
| `mqtt` | 2 topics, a queue of 2, 2 connections, `FairSpec` | `TypeOK`, `BrokerCurrent`, `ConsumerCurrent`, `StopFlushes`, `StoppedUnavailable`, `Stops`, `Converges` |
| `settings` | 2 clients, 4 kinds of startup files, versions up to 3 | `TypeOK`, `MemoryIsStore`, `StartsAgain`, `AppliedRuns`, `NobodyOverwritten` |
| `parts` | seven instances, see below; `PartsSpec` | `PartsTypeOK`, `OneRowEach`, `DialsOwn`, `TruthTold`, `WindowBound`, `NothingSwallowed`, `NoLinkForgotten`, `GivesUp`, `Recoverable`, `StreamsEnd`, `LinkImplemented`, `FlapsBackOff` |
| `deploy_rerun` | 3 releases, 3 backups: *violation* | `Rerunnable` |

Bounds. No variable of `Administration` counts anything, so its state space is finite
once the set of devices is: there is no bound on steps, failures, restarts or
operations. Two devices are what the properties are about: the adapter has one owner
and one link, and every property of more than one device is about a device and its
rival. One device is enough where a property is about one device's tasks and no other
device can stop or start them; it is also what keeps the runs with every kind of task,
and the liveness runs, small. The two-device safety runs use the symmetry of the
devices where all are asked the same; the liveness runs do not use symmetry. Deadlock
is checked in every run of `Administration` and `Telemetry`.

`Telemetry` is bounded by `MaxTime` (the last instant) and `MaxSettings` (how often the
clock is set, each time by one instant; a larger jump is several settings). Three instants are
enough for a reading to be recorded late, to expire and to be replaced, and for a second success
whose timer has to outlive that of the first. A setting by one instant is a whole
threshold, in either direction, so observations come out of order. Requests, recoveries and
deletions are not bounded. Devices share only `mark_stale`, which looks at all of them, and
the adapter's one reading: the run has one device. The proofs are for any number of devices and
settings and for any thresholds.

`Mqtt` is bounded by `MaxEvents` (events of a topic between removals), `MaxRemovals` and
`MaxConnections`. A queue of 2 overflows with two topics of two events. The last of
`MaxConnections` connections is never lost and its acknowledgements come: this is the
assumption of the liveness properties that failures end, and two connections already have
the late will of the first arrive while the second is in use. The publisher and the process
really stop, so deadlock is not checked there.

`Settings` is bounded by `MaxVersion`: with two clients, three versions are a save, a save that
another client did not see, and the refusal that follows. The hosts are the shipped
`deploy/config.yaml` on a managed host, the same with an override from the environment, a
development host without files, and a file with an unknown setting; the operator may change
from any to any. The clients are symmetric.

The instances of `parts`:

| Part | Instance | Why it is enough |
| --- | --- | --- |
| `Register` | thermometers 1 with the names a and w, 2 with w; one setup; two operations, deletions or setups at once | a thermometer that changes its name, another that shows the name of a registered row; `MaxAtOnce` lets an operation meet a deletion, a setup or the operation of another row |
| `BleakAdapter` | 3 clients, a battery interval of 2 | a client left behind, its successor, and the one after its callback |
| `Polling` | intervals 1, `DegradedAfter` 2, `ReconnectAfter` 4, `StableAfter` 5, delays 1, 2, 4 with a jitter of 1, readings of up to 2 steps | a slow reading can pass every threshold; ages beyond `Horizon` are alike |
| `Throttle` | 4 per minute of 6 s, a burst of 2, half seconds, windows of up to 40 units | a window long enough to fill the bucket and empty it again |
| `Streams` | a reader and a staller, 2 slots, queues of 2, 3 events | a queue overflows while its getter is woken, done or cancelled |
| `OperationLog` | 2 kept, 2 watchers, 4 operations, 1 restart | a log that must drop, with a pending operation in it that somebody else joins |
| `Deployment` | 3 releases, 3 backups | an upgrade that breaks off over another, and a rollback to a backup made in between |

Some of these parts come to an end at their bounds (clients, operations, releases), so deadlock
is not checked in `parts`; it is in `settings`.

Fairness. `FairSpec` gives strong fairness to the steps of each task that move it and
to each stage of `close`. The event loop runs ready tasks in turn, sleeps end and every
adapter call has a timeout, so a task that can move does. The fairness is strong, not
weak, because while another task is in the middle of a step that does not suspend
(`running`) the task is briefly disabled. Requested operations of a device share one
condition, since at most one is alive. Nothing is assumed about requests, crashes,
lost links or the outcome of calls. `LiveSpec` adds, for `Recovers` only, what no code
can provide: tried again and again, discovery eventually sees the device, BlueZ
eventually releases it and a connect eventually succeeds (`Radio`), and reads without a
valid value do not go on beyond `reconnect_after` without being counted as such
(`Deadline`, the comparison of the monotonic clock in `_poll`).

In `Mqtt`, a publication is acknowledged or fails, a ready event is taken, the backoff
delay ends, and `StopTimeout` comes (the shutdown waits 15 s, then cancels): weak fairness
of each, since nothing disables them but another step of the publisher, or its end.
Connecting is strongly fair: attempts may fail, but not for ever. Nothing is assumed about
events, losses, wills, heartbeats or a crash. `Telemetry` has no liveness property; that
timers act in time is in `Tick`.

`StreamsFairness` is weak fairness of the loop of each stream and its getter, which the event
loop runs when they can, and of sending to a reader. Nobody has to go, to be
authenticated or to publish. In `PartsSpec` it holds for the behaviours of that part; in the
others nothing of the streams is enabled.

What the passing runs show, beyond the statements in the module:

* `AdapterExclusive`: not the lock itself, which asyncio provides, but that every path
  to the adapter takes it and keeps it: a cancelled connect unwinds inside it, a
  failing one gives it up once, and so do commands to BlueZ that are killed. A candidate is
  looked up under the same lock, so no scan and no other operation replaces it between its
  resolution and the end of the connect (`CandidateKept`). Only a deletion takes the row away
  under it.
* `TelemetryAttribution`, `OwnerActs`: `adapter.connect` returns at once when *any*
  device is linked, so attribution rests on ownership, on recoveries and polls having
  stopped before ownership changes, and on nothing else.
* `DisconnectsAlone`: a polling loop that fails while a disconnect begins may schedule a
  new recovery; it cannot, because the desired state was stored before.
* `Supervised`, `ObservedHonest`: with a plain `connect` excluded, see below.
* `OperationsTracked`, `StoppedClean`: each of the ways out of an operation stores its
  outcome exactly once, and `close` cancels the groups in an order in which no group
  cancelled later restarts an earlier one.
* `FreshBounded`, `HeartbeatBounded`: a timer whose snapshot was replaced does nothing, and
  every replacement starts its own. A snapshot that was recorded too old is marked in the
  same instant.
* `RetainedAgrees`: events are published only for what changes. A heartbeat that REST shows
  as disconnected, because of the row, may be healthy in telemetry until the disconnect has
  ended, and a late reading or a timer may publish in between; the last word is still the
  one REST shows. So it is after a connect, which expects an answer before it tries, after a
  recovery that keeps on trying, and for a device that was just registered. A battery event
  is skipped when the battery was cached; it must not be skipped after the snapshot went
  stale. This holds whatever is done to the clock. It says nothing of a device while
  something accepted has not been told (`Settled`), nor of the heartbeat of one whose removal
  was overtaken by a request, a recovery or its own registration (`overtaken`): that work goes
  on without a row, and the heartbeat it publishes is retained.
* `BrokerCurrent`, `Converges`: the subscription begins before the replay reads the
  retained events, so an event in between is published twice rather than never, and the
  older copy is never the last.
* `ConsumerCurrent`: the replay may be ahead of the queue; a consumer that drops old
  sequences never goes back.
* `StopFlushes`: the last replay brings what the queue had dropped.
* `StoppedUnavailable`, `Stops`: every way out of a connection announces `Offline` or
  leaves a will behind, and a stop that finds the publisher between connections, or loses
  its event to an overflow or to the end of a subscription, ends it nevertheless.

* `MemoryIsStore`: the manager follows the store when the store has accepted, and
  keeps what it had through refusals and conflicts. A start reads the same layers in the
  same order as the live manager.
* `NobodyOverwritten`: the version is checked in the transaction that replaces the overrides,
  and a version never comes back, not even over a restart.
* `StartsAgain`: the candidate of a PATCH is judged as a whole, and token mode needs a token;
  the one exception is the finding about managed hosts below.
* `AppliedRuns`: settings and password of a dialogue are two requests, and the restart that
  applies them may come before, between or after them and be somebody else's; what
  is reported after one's own restart holds, unless somebody has saved since.
* `OneRowEach`: the identity decides at registration and at selection; the name cannot, for
  a thermometer may lack it. `DialsOwn`: operations write ids into rows others may have
  changed meanwhile, and a connect dials a cached candidate without looking at its identity;
  this is right because nobody may select an identity for the device that owns the adapter.
  It does not hold for a device whose operation lost the adapter (`lost`): to a delete, or to
  the disconnect of `admin_stray`.
* `NoLinkForgotten`: whatever fails or is cancelled, a link that is up is served or worked on,
  until a disconnect is given up with its link up (`abandoned`): then the callback of the old
  link, when it goes down at last, makes the adapter forget the link it serves by then.
* `LinkImplemented`: the battery value survives from snapshot to snapshot and must not survive
  its link, although a read may go on after it.
* `GivesUp`, `FlapsBackOff`: also with readings that take long, snapshots that are old or show
  no probe, and links that come up again and again.
* `WindowBound`: bringing the bucket up to date only on demand neither saves up nor loses time.
* `NothingSwallowed`: a heartbeat that falls due while the getter is woken cancels it before it
  has taken anything; one that is done is delivered. `StreamsEnd`: the streams end at the
  shutdown before the server waits for them.
* `TruthTold`: a pending operation is never pruned, a scan is joined only while it is listed,
  and the answer that an operation does not exist, or that a scan found nothing, means that
  the log has gone on or the process was restarted.
* `Recoverable`: a broken upgrade leaves a database of the selected release, or a backup that
  fits together; a service that runs after no break fits together.

### Findings

Four runs show a disagreement, each with a statement of the documents:

* `admin_stray` (`docs/api.md:56`, "Another registered device cannot acquire an
  already-owned adapter."): a disconnect of a device that does not own the adapter is
  accepted while nobody owns it, waits for the lock behind a scan, and then disconnects
  the adapter and clears the ownership of the device that was connected meanwhile. A
  second device can then become the owner while the first one's task is still
  connecting; it reads the first one's thermometer as its own.
* `admin_connect` (`docs/architecture.md:85`): a connect cancels the recovery, finds the
  link up, and succeeds without polling.
* `admin_disconnect` (`docs/frontend-integration.md:171`): a recovery whose first read
  completes after a disconnect was accepted, and before its task runs, writes the
  desired state `connected` again. The operation writes `disconnected` once more when
  it completes, but a crash in between brings the device back.
* `deploy_rerun` (`docs/terminal-tools.md:41`): an installation that breaks off after the
  database was made and before the release was selected is refused as an install
  and as an upgrade; after that and before the unit is installed, the guided installer
  offers an upgrade, which stops because there is no unit.

Others are recorded without a run of their own, with the property that states what is promised
where a model has one:

* `DeletedDisconnected` of `Administration` (`docs/frontend-integration.md:86`): a delete
  disconnects only the device of `_connected_device`, which is set after the first read; a
  recovery that is cancelled between connecting and reading, or a connect accepted while the
  delete waits, leaves the adapter linked to, or owned by, a device that is not registered.
* `FreshAlways` of `Telemetry` (`docs/api.md:85`): the timer of a snapshot sleeps on the
  monotonic clock and then compares wall-clock times; if the wall clock was set back meanwhile,
  the snapshot is found too young, the timer does not sleep again, and the snapshot stays fresh
  until something else marks it.
* `ConsumerFollows` of `Mqtt` (`docs/frontend-integration.md:335`): removing a device drops its
  sequence numbers, and registering it again numbers its events from 1 under the same topic and
  session; a consumer that orders by sequence shows the old device's last event until the
  new numbers have caught up.
* `SavedStarts` of `Settings` (`docs/frontend-integration.md:49`): a managed service accepts
  that authentication is switched off, and then does not start.
* `CancelledUntouched` of `Settings` (`config_cli.py:739`): a dialogue that is interrupted at the
  question for the broker's password has saved the settings.
* `Recoverable` of `Deployment` (`docs/upgrade-and-rollback.md:40`): an upgrade that breaks off
  after the new release has migrated the database leaves the service enabled; when the host
  starts again, the old release runs with it. The property therefore says nothing of a service
  that runs after a break.
* The guided setup answers every 409 with "That scan result expired" (`config_cli.py:415`), also
  when the thermometer is registered already and no other scan will help.

## 4. Proofs

TLAPS proves for every set of devices, every assignment of commands and every value of
the switches, but where a theorem says otherwise (the assumptions are the named ones of
`Administration`):

* `TypeCorrect == Spec => []TypeOK` (`AdministrationProofs`). `TypeOK` is inductive. The
  proof has a lemma for each group of steps (`TaskStepType`, `DeviceStepType`,
  `RequestType`, `ServiceStepType`), one step per action and under it one per variable
  that the action can disturb.
* `LockExclusive == Spec => []AdapterExclusive` (`AdministrationLock`): no two calls overlap
  (`CallsAreApart`), and a candidate stays what it was until its connect has ended
  (`CandidateIsKept`). The first follows from the inductive invariant `LockInv`:
  * `LockOrder`: whoever is waited for contends for the lock, two contenders are always
    ordered, and a task that holds the lock waits for nobody. Exclusion follows: two
    holders would have to be ordered.
  * `ScanTracked`: the task of the requested scan is idle unless its operation is
    pending. `start_scan` looks only at stored operations; without this it might start
    a scan whose task still holds the lock.
  * `DownIdle`: no task outlives the process. `start` creates a recovery without
    looking.

  The lemmas `Stay`, `Enter`, `Leave`, `Move`, `Quit`, `GiveUp` and `Cancelled` say what a step may
  do to the queue; each action is one of them. `GiveUp` carries the interesting case: a
  task that fails while it holds the lock may schedule a recovery, which must not
  overwrite one that still unwinds; it cannot, because the unwinding one would hold the
  lock itself.

  The second, `CandidateKept`, is inductive together with `LockInv`: whoever changes the candidates
  of a registered device is inside the adapter, and so nobody else connects (`DiallingAlone`);
  only resolution brings a task to the connect.

* `NoneIsLost == Spec => []OperationsTracked` (`AdministrationLock`), from the inductive
  invariant `TrackInv`: while the service is up a job's operation is pending exactly while
  its task works on it, and the operation of a recovery is never queued. Without the second
  part, cancelling a recovery that sleeps could leave an operation behind. The proof rests on
  `LockOrder` as well: a task that fails schedules a recovery, whose earlier attempt, if it
  still unwound, would hold the lock that the failing task has. `JobGoes`, `JobStays` and
  `JobGivesUp` say what a step may do to a job; each action is one of them.

* `NothingIsLeft == Spec => []StoppedClean` (`AdministrationOwner`), from `PlainInv`: a task is
  only where its kind may be (`Roles`), each stage of `close` leaves fewer of them and what a
  stage has ended stays ended (`Closed`), and a device has one requested operation at a time
  (`OneRequest`).

The other safety invariants hold only while less is asked of the service, and the theorems say
so in their hypotheses, which the runs of the properties satisfy as well. Each hypothesis is
needed: with any one of them dropped and the others kept, TLC finds the property violated on
one device or two.

* `DisconnectIsAlone == Deletable = {} => (Spec => []DisconnectsAlone)`, from `AloneInv`. A deletion
  stops recovery and polling without being a requested operation: while it waits for a
  recovery that unwinds, a disconnect finds no recovery to wait for. Without
  deletions, whoever unwinds is waited for (`UnwindOwned`); an operation that found no
  recovery to cancel has not suspended since it looked, so nobody else has moved (`BeginRuns`);
  and a first reading may still write the desired state `connected` over the `disconnected` of
  an accepted disconnect, but then the recovery that wrote it has ended, and once a recovery
  was cancelled the polling task cannot schedule another (`DisconnectWins`).
* `OwnerActsAlone` (`OwnerActs`) and `TelemetryAttributed` (`TelemetryAttribution`), if nothing is
  deleted and `StrayDisconnect` is off, from `OwnerInv`: every task but the scans works for the
  owner (`OwnersWork`), the link is the owner's and down while a disconnect waits for it to be
  closed (`OwnersLink`), and a device is polled only while it is the connected one
  (`PollConnected`). The argument is about the end of a disconnect, which gives the adapter
  away: it is the last task of its device (`DisconnectLast`, from `AloneInv`). The run
  `admin_stray` shows what a stray disconnect does.
* `ObservedIsHonest` (`ObservedHonest`), if moreover nobody asks for `connect` but for `reconnect`
  (recoveries connect as well), from `HonestInv`: a recovery that may find that it is not wanted,
  and end, leaves nobody reported as polled (`HonestRecovery`). A `connect` may find the link up
  and end without a polling task (`admin_connect`).
* `DeviceSupervised` (`Supervised`), if moreover automatic reconnection is not switched after
  registration, since switching it on does not look for a recovery that is missing. `LookedAfter`,
  which also counts the moments within a step that does not suspend, is inductive.

What a task's step does is said once for all of them (`Effect`): it works on (`Works`), cancels a
recovery and waits (`Cancels`), takes polling down (`Takes`), reads for the first time (`Reads`),
fails into a recovery (`GivesUp`) or ends (`Stops`). `StepCases` proves that every step of the
specification is one of these, a request, a stage of the service's life, or leaves the
tasks alone; each invariant is shown for these few cases instead of for every action.

`LockInv` was checked by TLC on the instance of `admin_one`, and on one of two devices, before it was
proved; `PlainInv`, `AloneInv` and `OwnerInv` on the instance of `admin_safety`, and with
`HonestInv` and `LookedAfter` on that of `admin_recovers`.

For every set of devices, every two thresholds and every length of time
(`TelemetryProofs`):

* `TelemetryTypeCorrect == Spec => []TypeOK`.
* `FreshnessHolds == Spec => []FreshBounded` and `HeartbeatHolds == Spec =>
  []HeartbeatBounded`, from `AgeingHolds`. The bounds are not inductive: they say nothing of
  who will mark the snapshot. `Ageing` does: while the clock was not set, it agrees with
  real time, and every fresh snapshot and every healthy heartbeat has its own timer, which
  is not overdue and ends now or at the threshold. `Tick` keeps it because no instant
  passes while a timer is due, and `Record` because it replaces timer and snapshot
  together.
* `RetainedHolds == Spec => []RetainedAgrees`, whatever is done to the clock, from `Telling`.
  The property is not inductive: it says nothing of a device that is not settled, and nothing
  of who may publish next. `Telling` adds for each device:
  * `Kept`: the retained heartbeat is the last status, or there is none before the
    registration's task has published it. Since publications are conditional this has to
    be shown of each method, also of those that publish nothing.
  * `Orderly`, while no removal was overtaken: a device without a row has no heartbeat, no
    event and nobody working for it (`Absent`); while its registration waits, no request has
    begun (`Arriving`); otherwise (`Present`) its heartbeat is not disconnected while a
    recovery, a link or an attempt works for it, and when no request is executed the row says
    disconnected exactly if the heartbeat does. This relates what was stored with what was
    told through every request, failure and recovery.
  * `Stopped`: between the two halves of a disconnect the device has neither a recovery nor
    a poll, so that nobody expects an answer again before it is told; and `ReadFor`: whoever
    reads still works for its device, so that no late record brings back what a disconnect
    or a removal has ended.
  * `Shown`: the availability and battery events show the current snapshot. The battery event
    that `Record` leaves out for a cached value is right because the retained one already
    says so, as the snapshot it stands for is still fresh.

  The lemmas `RequestLocal`, `AttemptLocal`, `EndLocal` and `RecordLocal` carry `Local` (`Stopped`,
  `Kept`, `Orderly`) through each group of steps, `StepShown` and `StepReads` the rest. `None` has
  to differ from every snapshot and every heartbeat (`NoneAssumption`).

For every set of topics, size of the queue and number of connections (`MqttProofs`):

* `UnavailableHolds == Spec => []StoppedUnavailable`, from `Covered`: the broker says
  available only while the publisher is attached to a live connection on which it has yet
  to send `Offline`, or while a will is pending. Every loss of the connection adds a
  will, and every way of leaving a live one sends `Offline` on it.
* `MqttTypeCorrect == Spec => []TypeOK`, with `Subscribed`: before the service stops the queue
  holds events only, `Stop` is put in last, and an attached publisher has a queue.
* `FlushHolds == Spec => []StopFlushes`, from `LastReplay`: while the last replay runs on a live
  connection, the newest event of a topic is with the broker or is still to be replayed, and
  nothing is published any more.
* `CurrentHolds == Spec => []BrokerCurrent`, from `Catching`: the last event of a topic in the
  queue is its newest one (`Ordered`); of a topic that does not wait there and was not
  dropped, the newest is with the broker or in the replay, which has nothing older (`Fed`).
  The second part is why the order of a replay does not matter.
* `ConsumerHolds == Spec => []ConsumerCurrent`, from the same and from `Ahead` (the consumer is
  never behind the broker) and `Originals`: while a device was never removed, its sequence number
  tells an event from every other. A removal restarts the numbers, and this fails.

`MessageAssumption` says that the words on the topics (`Online`, `Offline`, `Stop`, `None`) differ
from one another and from events. The invariants were checked by TLC on the instance of `mqtt`
before they were proved.

For every set of clients, startup files and number of saves (`SettingsProofs`):

* `MemoryFollowsStore == Spec => []MemoryIsStore` and `NobodyIsOverwritten == Spec =>
  NobodyOverwritten`, from `SettingsIInv`. Beside the property itself it says (`Knows`) of a
  dialogue that may still save: its ETag is not of the future, and if it is the present version,
  the dialogue has seen the present overrides. The save replaces both at once, so every other
  dialogue's ETag becomes one of the past. The lemma `OverAssociative`, that layers may be put
  on one another in any order of grouping, is what makes the manager's incremental update
  the same as a new start.

* `AcceptedStarts == Spec => []StartsAgain` and `ReportsAreTrue == Spec => []AppliedRuns`, from
  `SoundIInv`: the process started from what it could start with, and what it accepted since
  could be started too, but for the authentication of a managed service (`Accepted`); of every
  dialogue, while the version it saved is the present one, its answer is in the store, and after
  it restarted the service the process runs with it and with its password (`Sound`). `Sound`
  is stated for a client and its place, so that a step of one client is shown to keep it for
  all others once (a lemma), and each action has to show it only for its own.

* `SettingsTypeCorrect == Spec => []TypeOK`. A layer is a function on some of the settings; the
  lemmas `ValuesAre` and `LayersAre` say what that means for one setting at a time, and with them
  layers stay layers when one is put over another, a name is taken out, or an answer is merged.
  `HostsAssumption` says that startup files have values of the settings' types, which the fields
  of the configuration models insist on; a file with a name nobody knows is refused as a whole,
  and may hold any value.

For every set of thermometers, names and people, and for every number of clients, slots and
queue size (`PartsProofs`):

* `NoneRegisteredTwice == RegisterSpec => []OneRowEach`, inductive but for the shape of a row.
* `DialsOnlyOwn == RegisterSpec => []DialsOwn`, from `DialsIInv`: a device that has not lost the
  adapter and has an operation is registered and, but for a disconnect, owns the adapter
  (`Owning`); so nobody can select another identity for it, and what the operation has read
  of its row is still so, or stands for nothing (`Resolving`).
* `NoneSwallowed == StreamsSpec => []NothingSwallowed`, from `Books`, which also says what
  the queue and the getter may hold at each place of the loop.
* `RegisterTypeCorrect` and `StreamsTypeCorrect`. The first needs that what is kept of an id is one
  of the last discovery or stands for nothing (`RegisterTInv`); the second that a slot is taken
  exactly while its stream is open (`Seats`), which is more than a type: no slot is lost or
  given back twice, however a stream ends.

For every length of the log, and every number of watchers, operations and restarts (`PartsProofs`):

* `WatchersAreToldTheTruth == LogSpec => []TruthTold`, from `LogIInv`: the log says how an
  operation has ended, and what it lacks is not pending and has enough newer ones (`Logged`); the
  results are in the order of their scans, no two of the same scan, so that the one which is
  pushed out is overtaken (`Ascending`); and whoever waits for a scan will find its results,
  or it is overtaken, or the process has changed (`Watching`). The cardinality in the
  pruning of the log is bounded in `PrunedLog`. The types are proved with it.

For every number of releases and backups (`PartsProofs`):

* `HostIsRecoverable == DeploymentSpec => []Recoverable`, from `DeploymentIInv`: the first
  backup is made of a host that fits together, and as long as there is none, or no script
  was broken off, the host does (`FitInv`); and each script has reached what its next step
  says (`Doing`). So a backup made of a broken host, which may be useless, is never the only one.

For every number of clients and every battery interval (`DeviceProofs`):

* `NoLinkIsForgotten == BleakSpec => []NoLinkForgotten` and `AdapterImplementsLink == BleakSpec
  => LinkImplemented`, from `BleakIInv`: a call knows its client, and no other is served beside
  one that is being made or taken down (`Calling`); a reading is of the client served or of
  one that is gone (`ReadingInv`); the battery value belongs to the client served
  (`BatteryInv`). The refinement has one step per action: each maps to a step of `DeviceLink`
  or to a stutter.

For every rate, burst and resolution of the clock, and for every interval, threshold and schedule
of delays (`PartsProofs`, `DeviceProofs`):

* `WindowBounded == ThrottleSpec => []WindowBound`, from `Covered`: what was admitted and what
  could be admitted at once are together at most the burst and what was earned.
* `RetryIsHonest == ThrottleSpec => []RetryHonest`, from `Promised`: after a refusal, the bucket
  and what the pause will still earn are worth one token; the lemma `Rounded` is about the
  rounding. No run checks this one.
* `GivingUpHolds == PollingSpec => []GivesUp` and `BackingOffHolds == PollingSpec =>
  FlapsBackOff`, from `Counts`: the ages that the code computes are the true ones, and leave
  room for what is left of the sleep or of the reading.

For the composition (`PartsProofs`):

* `PartsAlone`: a behaviour of `MCParts` is one of each part. So everything that is proved of
  the parts holds of it: `PartsAreRight` states every property that the run `parts` checks but
  `StreamsEnd`, and `PartsTypeCorrect == PartsSpec => []PartsTypeOK`.

The types of `BleakAdapter`, `Polling`, `Throttle`, `OperationLog` and `Deployment` are proved with
the invariants above. `BleakIInv` was checked by
TLC with three clients, `LogIInv`, `DeploymentIInv` and `RetryHonest` on the instance of `parts`, before they were proved.

## 5. What is only model-checked

Liveness (`OperationEnds`, `CloseEnds`, `Recovers`, `Stops`, `Converges`, `StreamsEnd`) is beyond
the prover. Every invariant of a passing run is a theorem, those of `AdministrationOwner` under
the hypotheses named there; so are the action properties `NobodyOverwritten` and `FlapsBackOff`, and
`LinkImplemented`.

## 6. What is not modelled

In `Administration`:

* Store calls that fail, and friendly names. Identities, discovery ids and scan results are
  in `Register` and `OperationLog`.
* The error a finished operation carries: `done` is success or failure.
* Earlier operations of a job: a job's previous operation is finished before the next
  is stored, so the latest says all.
* `disconnect` of the adapter raising: the adapter suppresses errors there.
* Requests that are cancelled while they wait: uvicorn lets running requests finish for
  15 s before `close` is called, and the model for as long as they need. One DELETE per
  device is served at a time.
* `asyncio.wait_for` swallowing a cancellation: cancellation is always delivered.

In `Telemetry`: payloads, sequence numbers, the connection topic, the events of operations
and configuration, and `close`, which cancels the timers when the process ends. The service
is there only as far as it decides when telemetry is told (`Administration` has the rest):
who owns the adapter, what the calls of the adapter do, and cancelled tasks that still unwind
are left out, each device has a link of its own, and a disconnect always frees it, also the
one of a device that does not own the adapter, which in the code leaves `_connected_device`
alone. So `RetainedAgrees` is claimed but for what the disconnects of `admin_stray` lead to: a
device that stays the connected one after its disconnect is found connected by the next
connect, which then expects no answer, and its retained heartbeat stays disconnected.

In `Mqtt`: payloads and the names of topics, temperatures (not retained), other events that
take slots of the queue, several sessions at one broker, the lengths of delays, and the client
raising while it is left during a cancellation. That the broker shows a *running* service as available
is no property: the will of an earlier connection may come after the new `Online`, which is
repeated only when nothing else is published for `heartbeat` seconds.

In `Settings`: all settings but three; `If-Match` that is missing or malformed; requests as
more than one step, which their handlers are not.

In `Register`: that a requested operation first stops the device's recovery, which
`Administration` has; the scan's own operation; names that people give.

In `BleakAdapter`: payloads, the unlocking of the thermometer byte by byte, the sequence number,
discovery (in `Register`), and calls at the same time, which the lock excludes.

In `Polling`: other devices, and that a reading also waits for the adapter, but as part of its
length. In `Throttle`: floating point, whose error is far below one token, and the clock
going back, which the monotonic clock does not.

In `Streams`: what events say, filters, and the history (`Last-Event-ID` is not supported by the
code). In `OperationLog`: two operations with one time stamp, and a wall clock that is set back
between two of them. In `Deployment`: accounts, launchers, files under `/etc`, the check
of the platform, and what exactly differs between the databases of two releases.

Whole components:

* `RequestBounds`: buffers one body; requests share nothing there.
* `AdministratorTokens`: hashing, and the slots for verifying tokens in threads.
* `ConnectionStateMachine`: local to one operation, which always takes it along the same path.
* Protocol decoding and models: pure functions on bytes that the unit tests cover.
* `TelemetryState.close`, persisted events and their retention.
* The simulated adapter, `DiscoverySupervisor` (unused by the service), host diagnostics, the
  hardware checks, and the soak script: stand-ins, host I/O and measurement.

## 7. Plan

| Module | Done | Left |
| --- | --- | --- |
| `Administration` | all tasks; types and every safety property proved | the properties of `AdministrationOwner` for services that delete devices, as far as the code keeps them; `DeviceLink` in place of its own link, so that the refinement reaches the service |
| `Telemetry` | freshness, heartbeat and retained view proved | `close`; the heartbeat of a device whose removal was overtaken, which the code leaves behind |
| `Mqtt` | types and every safety property proved | topics that are not retained |
| `Settings` | types and every safety property proved | the settings left out |
| `Register`, `BleakAdapter`, `Polling`, `Throttle`, `Streams` | types and every safety property proved | friendly names in `Register` |
| `OperationLog`, `Deployment` | types, `TruthTold` and `Recoverable` proved | a wall clock that is set back between two operations |
| not begun | | slots for authentication jobs, which a caller that has gone must not free; the retention of persisted events |
