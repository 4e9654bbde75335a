# Formal model of dbus-ev

dbus-ev bridges an electric vehicle to Victron's Venus OS. It acquires telemetry
from Home Assistant, from Mercedes' cloud or from a vehicle engine built on evcc,
shows it on D-Bus as an EV service and, optionally, as an EV charger, and forwards
it over MQTT to Home Assistant. This directory holds TLA+ modules of it, TLC
configurations that check them on small instances, and TLAPS proofs for every
value of the constants. Paths below are relative to the repository.

## 1. Inventory

### Components

| Component | State it keeps | Operations | What is hard |
|---|---|---|---|
| App (`dbus_ev/main.py`) | `last_ok_time`, `latest_snapshot`, D-Bus values | `tick`, `apply_snapshot`, `shutdown`, the SIGTERM handler `_stop` | freshness of what is on show; a signal in the middle of a callback |
| PollWorker (`dbus_ev/worker.py`) | queue of one place, `_pending`, `_stopping`, thread | `poll`, `_deliver`, `_run`, `stop` | two threads and a handler that takes the queue's lock |
| HaClient (`dbus_ev/ha_client.py`) | circuit breaker, last known values | `poll` | the half-open breaker |
| MercedesClient (`dbus_ev/mercedes/client.py`) | one asyncio task, a snapshot under a lock | `start`, `_serve`, `_stream`, `_pull`, `_cooldown`, `_accept`, `close` | push and pull of different age, cooldowns, reconnections |
| TrafficLimits, SessionRecovery (`mercedes/traffic.py`, `recovery.py`) | deadlines in memory and on disk, the latch of a failed login | `pause`, `rate_limited`, `healthy`, `reserve_login`, `recover` | crashes, restarts, failed saves |
| Protocol (`mercedes/protocol.py`) | the merge buffer of an application session | `merge`, `decode_rest` | partial and reordered updates |
| TokenStore, login command (`mercedes/store.py`, `auth.py`) | owner lock, token file | `acquire`, `save`, `close`, `login` | two owners, a rotating token, a crash inside a save |
| EvccClient (`providers/evcc.py`) | pacing file, engine process, latch | `poll`, `close`, the recovery command | everything is reserved on disk before it is sent |
| Vehicle engine (`vehicle-engine/*.go`) | the persisted gate | `RoundTrip`, `run` | goroutines, kills, a budget that outlives the process |
| CerboMqtt (`dbus_ev/cerbo_mqtt.py`) | connection flag, what was published, meter cache | paho's callbacks, `tick`, `meter`, `close` | callbacks on another thread; queued messages; the last will |
| Charger (`charger.py`, `charger_service.py`) | one D-Bus service | `update` | evidence of different age from three sources |
| Coordinator (`ha/custom_components/mbapi2020/coordinator.py`) | last payload, availability | `_message`, `_availability` | retained, repeated and old messages |
| Home Assistant entities (`ha/.../sensor.py`, `binary_sensor.py`, `cover.py`, `device_tracker.py`, `decoder.py`, `car.py`) | one car per config entry, the entities | set-up of platforms, discovery, presentation | options that become known while platforms are being set up; a decoder that outlives a payload |
| D-Bus service, normalisation (`service.py`, `vehicle.py`) | the values on D-Bus | setters, range checks | three sources in three spellings |
| Configuration, TLS policy (`config.py`, `tls_policy.py`, ...) | none | stateless functions | - |
| ValveController (`control.py`) | flags | `update` | not used by the running service |
| Installer and updater (`update.sh`, `setup`, ...) | installed tree, configuration, link, boot hook, service | stop, back up, copy, restore, restart | a signal, a failure or a power cut between two steps |
| Version ledger (`scripts/release_state.py`) | ledger written by compare-and-swap | `reserve_plan`, `begin_publication`, promotion | concurrent release runs, lost answers, reruns |
| Release control (`scripts/release_control.py`, `release_versioned.py`) | tags, drafts, releases, job results | publish, promote, reuse | a failure between two remote calls; results older than the attempt |
| Release inputs, evidence, build scripts (`scripts/...`) | none | single-pass validation | - |
| Vendored decoder and OAuth (`mercedes/vendor/...`) | one car per payload, tokens | parsing, HTTP | values made up for what a payload leaves out |

### How they interact

- The GLib main loop runs `App.tick` every poll interval. With Home Assistant or
  evcc as the source, `tick` hands a callback to PollWorker through a queue of one
  place; the thread calls `HaClient.poll` or `EvccClient.poll` and schedules
  `_deliver` on the main loop, which calls `apply_snapshot`. With Mercedes as the
  source, the client runs in a thread of its own and `tick` reads the snapshot
  under a lock.
- EvccClient talks to its engine process by one line each way. All HTTP requests
  of the engine pass the gate of `traffic.go`.
- The daemon and the Mercedes login command exclude each other by the token
  store's lock and share the limits file.
- `tick` also publishes the snapshot and the availability through CerboMqtt and
  updates the charger with the live measurements that CerboMqtt cached. The
  broker retains both topics and publishes the last will; the coordinator
  receives them.
- `update.sh` stops, kills and starts the service; an end of the worker cuts off
  its OAuth call, whose answer carries the only valid refresh token.
- Release runs share the ledger branch, the tags and the releases; a later run
  promotes what an earlier one published.
- SIGTERM runs on the main thread between any two bytecodes: it stops the worker,
  closes CerboMqtt and quits the main loop.

### What makes each part correct

- App and worker: one request at a time; each poll comes back; a reading is as old
  as its request, never as its arrival; nothing is published after the stop; the
  stop completes.
- Mercedes session: no request during a demanded pause, across crashes too; the
  escalation ends only with a sustained stream; logins are spaced and latched;
  pulls are spaced; the task always tries again.
- Merge: readings of two sessions are never joined, a field does not go back, a
  standalone pull does not pass old push readings for its own.
- evcc client and engine gate: intervals, backoff, budget and pauses survive
  kills; a recorded refusal needs the operator.
- CerboMqtt and coordinator: nothing is skipped on a stale belief, both sides
  agree in the end, a dead bridge is offline.
- Outputs: a charger's power is live and its own meter's; a status has evidence;
  both D-Bus devices tell the same story; nothing is shown that the last snapshot
  did not say; every known option gets its entity.
- Token: a spent refresh token is never presented.
- Updater: files change only under a stopped worker; what an update completes is
  whole; a mixture runs only after one that was cut short or lost power unsynchronised.
- Releases: numbers and tags are unique and used once; no downgrade; a release is
  what was staged, published by an attempt that checked it, and only such bytes
  are promoted.

## 2. Modules

| Module | Models | Built from |
|---|---|---|
| `Freshness` | the freshness rule of App | - |
| `TelemetryContract` | abstract: what `/Connected` promises, whatever acquires the data | `Freshness` |
| `PollBridge` | App, PollWorker, the breaker, SIGTERM; implements `TelemetryContract` | `Freshness` |
| `TrafficLimits` | `traffic.py` as operators on a record of limits | - |
| `MercedesSession` | the serve loop, recovery, login command | `TrafficLimits` |
| `VehicleMerge` | Protocol and what `_accept` and `_pull` show | - |
| `EvccClient` | `providers/evcc.py` and its recovery command | - |
| `TrafficGate` | the engine's gate and poll loop, with the client's latch | - |
| `CerboLink` | snapshot and availability from CerboMqtt to Home Assistant | - |
| `CerboShutdown` | `close` against paho's thread and the lock | - |
| `MeterFeed` | the meter cache and `Charger.update` | - |
| `VehicleDecoder` | the telemetry decoder and the car, which worker and integration both have | - |
| `VehicleData` | a payload, an evcc reading, the states of entities as a snapshot | `VehicleDecoder` |
| `HaEntities` | config entry, platforms and discovery of the integration | `VehicleDecoder` |
| `Outputs` | composition: every source, both D-Bus devices, meter and Home Assistant | `MeterFeed`, `VehicleData`, `HaEntities` |
| `LedgerContract` | abstract: numbers given and used up atomically | - |
| `ReleaseLedger` | the version ledger and the runs on it; implements `LedgerContract` | - |
| `GitHubCalls` | how the end of one call of `gh` is read | - |
| `ReleasePublish` | one publication call by call; implements the publication steps of `ReleaseLedger` | `GitHubCalls` |
| `ReleaseQualify` | the attempts of a run, its gate, promotion and reuse | - |
| `TokenStore` | the token file, its lock, refresh and sign-in | - |
| `Installer` | `update.sh`, the supervisor, `setup`'s removal | - |
| `Device` | composition: a device with worker, token, login and updates | `TokenStore`, `Installer` |
| `MCOutputs`, `MCReleaseLedger` | values of the constants for TLC | the module of that name |
| `PollingProofs` | theorems about `PollBridge` and `EvccClient`, the two ways to poll | both, `TLAPS` |
| `MercedesProofs` | theorems about `MercedesSession` and `VehicleMerge` | both, `TLAPS` |
| `PublicationProofs` | theorems about `ReleaseQualify` and `ReleasePublish` | both, `TLAPS` |
| the other `*Proofs` | theorems about the module of that name | the module, `TLAPS` |

### State and actions

**PollBridge.** `main`, `handler` and `worker` are the control points of the two
threads; while the handler is active the main thread is suspended where it was.
`tick` is split where a signal can matter: `Tick` (up to the outputs, where the main
thread may hold MQTT's lock: `InMqtt`), `AskPoll`, `PutLock` (inside `put_nowait`'s
mutex), `PutStore`, `MarkPending`. `Deliver`, `ApplySnapshot` (again up to the
outputs) and `Applied` are `_deliver`; `Signal`, `Drain`, `PutSentinel`, `Join` are
`stop`, and `CloseMqtt` the rest of `shutdown`, which need not return when the signal
landed in the outputs: `CerboShutdown` says why. `Get`,
`CheckStopping`, `PollRefused`, `PollRequest`, `Reply`, `RequestFails`,
`PollRaises`, `Dispatch`, `CloseSession` are the thread with `HaClient.poll`
inlined. Time is a bounded clock; a due tick is not overtaken unless the handler
blocks, because GLib fires timeouts when due and nothing else in the main loop
blocks. A poll reply carries a state of charge or not, a request can fail in a
way the breaker hears of or in one it does not.

**MercedesSession.** `task` is the await the asyncio task is in. A deadline is
the time left to it, so the record read at a start is the one saved before.
`Connect ... StreamEnds`, `SendPull ... PullFails`, `CooldownEnds`, `NoRecovery`,
`Recover ... RecoveryPauses` follow `_serve`, `_stream`, `_pull`, `_cooldown` and
`SessionRecovery.recover`; `Cli*` is the login command; `SaveFails` and
`PullSaveFails` are the `OSError` of a save; `Down` is the end of the process at
any point. A save writes memory and file in one step: the file is replaced by a
rename.

**VehicleMerge.** A reading is (server time, epoch, channel), where an epoch ends
with a full update or a recovery login. `Delta`, `FullUpdate`, `AcceptFails` (the
frame was merged, its acknowledgement failed and it is not shown), `Supplement`,
`Replace`, and reconnections, recoveries and restarts may come in any order, since
their order is the server's.

**EvccClient.** `task` is the point inside `poll`. The two reservations and the
send are separate steps, so that a kill or a failed save can come between them.
Only waiting takes time. `Recover` is the operator's command. A `TimeoutExpired` out of
`Engine.close` is a step too: after a recorded refusal (`ReplyFailed`) it leads into
the handler that records a transport failure in its place (`RecordTransport`), and out
of that handler it leaves an engine of no use behind (`StopFails`).

**TrafficGate.** Each goroutine is a control point inside `RoundTrip`; the mutex
is held from the check to the end of the answer. Memory and file are both kept;
`Down` kills the process between any two steps. Saving replaces the file or
leaves it, and any time may pass during a save. Besides the time since a request was
sent (`gap`) the history keeps the time since the turn of the last request sent
(`turn`), which is what the gate spaces.

**CerboLink.** `tick` is split between its reads, `publish` calls and writes, with
paho's callbacks between them. paho and the broker are external: QoS 1 messages
wait until acknowledged and are sent again after a reconnection, and the will
follows every session that ends without a DISCONNECT. A reconnection waits at
least 5 seconds (`reconnect_delay_set`) and does not complete inside one tick.

**CerboShutdown.** The lock, the two threads, and the handler that suspends the
main thread; callbacks enter the lock and return.

**Outputs** and its parts. `VehicleDecoder` builds a car from a payload section by
section: an option has a retrieval status, a value and where it comes from (the
payload, an earlier one, or the decoder); a valid attribute without a value reads
as 0. `VehicleData` has the tables that make a
snapshot of it, and of what evcc and Home Assistant say; each entry of these
tables is a case of the code's. `MeterFeed` is one tick per unit of time, with the
meter's answers, null and offline values, losses and refused reads on paho's
thread in any order around it. `HaEntities` has the entry's life (`HaStart`,
`HaMessage`, `PlatformSetup`, `Discover`, `SetupFails`, `HaUnload`): the platforms
are set up in any order, each with the car as it is by then. `Outputs` ties them
by the tick of App: `MercedesTick`, `EvccTick`, `HaTick` and `QuietTick` apply a
snapshot to the vehicle device (`ev`), to the charger (`shown`, by MeterFeed's
`TickWith`) and to the topic (`retained`). The meter and Home Assistant share
nothing but the tick, so a behaviour follows one of the two.

**ReleaseLedger.** `pc` is the point of each run between two remote calls, `seen`
the ledger as it read it, `ledger` the file. `Write` may lose its answer, and the
run with it; `Start` runs it again with the same id. `ReadForReservation ...
SaveReservation` are `reserve_plan` with `write_state`'s compare-and-swap;
`Verify ... Consume` are `verify_reservation`, `verify_promotion_order` and
`begin_publication`; `CreateTag`, `CreateDraft`, `Publish` stand for the
transaction, which `ReleasePublish` refines. `Delete` and `Claim` are people.
`parallel` says whether the workflow's concurrency group serializes the runs.

**ReleasePublish.** `GitHubCalls` reads every combination of exit code, HTTP head,
body and diagnostics of one `gh` call: a value, one more attempt, missing, or an
error; a POST that creates a release is created, refused or unknown. The
transaction looks for what must not exist, creates the tag and the draft, reads
the inventory twice page by page after an unknown creation, uploads, downloads
again and publishes. `LateCreation` lets the server create the draft after the
answer is lost.

**ReleaseQualify.** `job` keeps each job's result with the attempt that executed
it: after a rerun GitHub shows old results as the new attempt's. `lag` is the
metadata behind the run. `WaitForRun ... StoreEvidence` are the publisher; before it
collects and before it publishes an automatic candidate reads the head of the branch
(`ReadHead`), compares it and looks for a run of it (`CompareHead`), and reads it again
(`RereadHead`), with pushes and rewritten branches in between;
`Begin ... Accept` the verification that promotion, its first job and the nightly
reuse share, every remote read a step of its own.

**TokenStore.** `phase` is where the worker and the login are between construction,
lock, refresh, answer, synchronised temporary file and rename; the server may
rotate or repeat a token and may refuse the old one from then on. `lost` records
that an answer did not reach the file: then no code could present a good token.

**Installer.** `step` and `at` are the line of `update.sh` and the item of its loop;
`tree` has a version for each item, `None` for one that is missing or cut short.
`Interrupt` is a signal or a failing command (with the exit trap), `HangWorker` a
process that does not end when asked. `update.sh` synchronises nothing: `treeDisk`,
`configDisk` and `hookDisk` hold what a loss of power may leave of each file, everything
written to it since `WriteFilesBack`, and `Reboot` picks from them. `Uninstall` kills
the worker and does not wait for it (`"left"`). An installation begins with a tree that
an earlier update may have cut short anywhere among its items.

## 3. Runs

Every run explores its whole state space.

| Run | Shows | Constants, and why they are enough |
|---|---|---|
| `poll` | `FreshWhileResponsive`, `DiscardAfterStop`, `PendingResolves`, `ShutdownCompletes`, and that `PollBridge` implements `TelemetryContract` | threshold 2, reset time 2, stale timeout 2, clock up to 5: two failures, an open breaker, the half-open attempt and an expiry fit into one run; `ShutdownCompletes` is for a signal outside the queue's mutex and MQTT's lock |
| `mercedes` | `RequestsAllowed`, `Reconnects`, `QuietStreamPulls` | escalation 2 to 4 (one doubling, then the cap); `Retry-After` below and above every own delay (1, 5, none). Time is not bounded |
| `evcc` | `FreshWhileAnswering`, `RequestsAllowed`, `AsksAgain` | login interval longer than the poll interval; `retry_after` none or longer than both; saves may fail. Time is not bounded |
| `gate` | `BudgetKept`, `CooldownKept`, `TurnSpacing` | two goroutines, budget 2, spacing 2, a window longer than the spacing and the pauses, `Retry-After` none or above the cap; a save takes any time |
| `cerbo` | `BeliefsHold`, `Settles`, `EndReported` | 3 snapshots, 2 losses (a loss inside the recovery from one), 4 queued messages, 2 on the way to Home Assistant |
| `merge` | `OneEpoch`, `StreamMovesForward` | two fields (a partial update leaves one out), three times, three epochs |
| `outputs` | `ShownIsGrounded`, `MeterStaysFresh`, `StatesAgree`, `NothingInvented`, `Discovered` | TTL 2, refresh 1, a meter that answers at once: the order of 15 s, 10 s and a live answer; payloads that carry or omit each field the outputs depend on, one option of each platform and section |
| `ledger` | `UniqueReservations`, `ConsumedOnce`, `NoDowngrade`, `ImplementsContract` | three runs on any channels of one base, three attempts among them, up to two at a time: a rerun, or a candidate, a newer one and a promotion; symmetric in the runs |
| `publish` | `OwnDraft`, `OnlyMatch`, `PublishedExact`, `ImplementsLedger` | two files, one other release, pages of one entry (every inventory is read in several calls), three acts of people |
| `qualify` | `OnlyQualifiedBytes`, `SkippedIsReplaced`, `FreshPublication` | two attempts, one poll before the deadline, two acts of people (a rerun and a change, a change and its undoing, or a push with a run and one without it between two reads of the head) |
| `install` | `NoSpentToken`, `NoMixture`, `StoppedWhileChanging`, `WholeAfterUpdate`, `ComesBack` | two tokens, two versions, one item besides the run script, one update of one updater: the one before it is in the initial states, which hold every tree that one cut short among its items can leave |
| `shutdown_signal` | `Closes` is violated | 3 lost connections; more repeat the same states of the threads |

`RequestsAllowed` of `MercedesSession` says of every request what the limits, the
latch and the pull interval demand of it at that moment; that of `EvccClient`
joins intervals, backoff and latch in the same way.

Deadlock is checked in `mercedes`, `evcc` and `merge`. It is not where the system
may stop: the process or the run has ended, or a bound is reached.

Bounds that appear in guards: `MaxTime` (`PollBridge`, `VehicleMerge`),
`MaxEpochs`, `MaxChanges`, `MaxLosses`, `MaxOutbox`, `MaxToHa`, `MaxAttempts`,
`MaxParallel`, `MaxActs`, `MaxWait`, `MaxTokens`, `MaxUpdates`. The other modules
count down, so their state is finite without a bound on time. History variables
are named as such in each module and no guard of the code's actions reads them.

### Fairness

- `PollBridge`: time passes, both threads are scheduled, a request ends (its
  timeout is 3 s) and a running handler goes on. Nothing makes a signal come.
- `MercedesSession`: the event loop runs the task, requests end by their timeouts
  and time passes. No server needs to send anything and no operator to act.
- `EvccClient`: the worker polls, `select` times out. `AsksAgain` supposes besides
  that neither the saving of reservations nor the stopping of engines fails for ever.
- `CerboLink`: the loop ticks, paho retries a connection and delivers; the losses
  are bounded, so every run has a last one.
- `CerboShutdown`: strong fairness for taking the lock (a waiting thread gets it in
  the end although others take it in between) and for noticing the disconnect
  among messages; weak for the rest.
- `Device`: a script that has begun goes on to its end or is interrupted, and the
  supervisor starts a service that it was told to run.

The properties of the other runs are safety properties and need none.

## 4. Where the code and its documents disagree

Checked by a standing run:

1. `shutdown_signal`: SIGTERM inside `_lock` (`tick`, `meter`) makes `loop_stop`
   join a thread that waits for that lock (`dbus_ev/cerbo_mqtt.py:223`).
   `ClosesBetween` (`CerboShutdown.cfg`) holds: a signal at any other moment closes.

Stated in the modules, each refuted by TLC with the configuration named, but not
part of the standing runs:

2. `ShutdownClosesSession` (`PollBridge_signal.cfg`): SIGTERM inside `put_nowait`
   makes `stop` wait for the mutex that the interrupted frame holds
   (`dbus_ev/worker.py:60`); the session stays open.
3. `ReconnectWithinMaximum` (`MercedesSession_reconnect.cfg`): after a 429 and a
   successful recovery the next ordinary failure waits for the old API pause
   (`mercedes/client.py:204`); `docs/mercedes-upstream.md:19` says at most one hour.
4. `OwnerDeliveredFull` (`VehicleMerge_owner.cfg`): `full_received` outlives the
   socket, so a pull before the new socket's full update is merged and shown as
   push (`mercedes/client.py:324`, `docs/mercedes-upstream.md:33`).
5. `DeltaKeepsNewer` (`VehicleMerge_order.cfg`): a standalone pull does not reach the
   merge buffer, whose older readings return with the next delta
   (`mercedes/client.py:330`).
6. `RefusalNeedsOperator` (`EvccClient_refusal.cfg`): a refusal that cannot be saved
   is recorded as a transport failure, without the latch (`providers/evcc.py:185`); so
   is one that was saved, when the engine cannot be reaped after it
   (`providers/evcc.py:161`).
7. `RequestSpacing` (`TrafficGate_slow.cfg`): the two seconds run from the
   reservation, so between the requests themselves they shrink by the time of the save
   (`vehicle-engine/traffic.go:104`, `docs/vehicles.md:169`). What is kept is the
   spacing of the turns (`TurnSpacing`).
8. `RecoveryLasts` (`TrafficGate_recovery.cfg`): within the pause of a 401 or 403 the
   first poll after the recovery command latches the client again without a
   request (`traffic.go:85`, `docs/vehicles.md:157`).
9. `OmittedUnknown` (`Outputs_omitted.cfg`): the integration keeps one car, whose
   charging equipment and charge limit outlive a full payload without them;
   `docs/mercedes-upstream.md:43` says that omitted fields become unknown
   immediately.
10. `WindowsAreObserved` (`Outputs_windows.cfg`): a pulled payload without any window
    is shown with all windows closed (`decoder.py:828`); `README.md:59` forwards the
    vehicle's attributes.
11. `NoMixture` with two updaters (`Device_two.cfg`): nothing keeps two runs of
    `update.sh` apart, and the second starts what the first is still copying.
12. `ConfigurationSurvives` (`Device_config.cfg`): a restore that is cut off between
    emptying the file and filling it (`update.sh:220`) leaves it short, and the exit
    trap removes the backup; `update.sh:27` says the device's own configuration must
    never be overwritten.
13. `WholeUnlessCut` (`Device_power.cfg`): every update ran to its end, and still the
    worker starts from a mixture, when the power fails before what it copied
    (`update.sh:198`) was written back. `NoMixture` therefore speaks of updates that
    were cut short or lost power in that time.

## 5. Proofs

Each theorem holds for every value of the constants that satisfies the module's
ASSUMEs. The assumptions are the orders among the defaults (for example
`RateMin <= RateMax`, `PullInterval <= RateMin`, `Interval < EvccStaleTimeout`), that a
set of files, runs or items is finite or not empty, and for `Outputs` that every
reading and every state of Home Assistant has the fields that the code looks up.
Modules with proofs in common extend two models, whose `Init`, `Next` and the like
therefore have names of their own (`EvccSpec`, `MergeSpec`, `QualifySpec`). All
follow the same plan: an inductive invariant, one lemma per action (or group of
actions) that preserves it, the property from the invariant.

- **PollingProofs**, `PollBridge`: `TypeOK`, `SingleFlight`, `SentinelFits`,
  `FreshWhileResponsive`, `BreakerSpacing`, `DiscardAfterStop`, and
  `BridgeImplementsContract`, the refinement. `SingleFlight` alone is not
  inductive: `PendingInv` adds that `pending` covers whatever is queued, worked on
  or waiting for delivery, except in the moment between `put_nowait` and the
  assignment. `BreakerInv` ties the breaker's counter to the failures recorded,
  `HonestyInv` says stamps precede requests, `OrderInv` that nothing in flight is
  older than what is on show (the contract needs it), `DeadlineInv` that a
  responsive main loop judges the age again within a tick.
- **MercedesProofs**, `MercedesSession`: `TypeOK` and `RequestsAllowed`, joined from one lemma
  each for the pauses, the spacing and the latch of logins, and the pulls. The
  pauses need that a pause demanded is never longer than the pauses in memory and
  in the file, that their escalation is never below the one demanded, and which of
  the two records is authoritative while the client or the login command owns the
  lock. The lemmas on `RetryDelay`, `Pause` and `RateLimited` carry the arithmetic.
- **PollingProofs**, `EvccClient`: `EvccTypeOK`, `RequestsAllowed`, `FreshWhileAnswering`. The
  invariant ties the reserved deadlines in the file to the time since the last
  request and start, before anything is sent.
- **MercedesProofs**, `VehicleMerge`: `MergeTypeOK`, `OneEpoch`, `PullHidesOldFields`,
  `StreamMovesForward`. `BufferInv`: the buffer has readings of its epoch only;
  `ShownInv`: what a push shows is not ahead of the buffer.
- **TrafficGateProofs**: `TypeOK`, `BudgetKept`, `CooldownKept`, `Serialized` and
  `TurnSpacing`, however long saves take. `WindowInv` and `CountInv` say
  memory and file have counted a request before it is sent and never forget a
  window that still runs; `PauseInv` that a pause is in the file or about to be;
  `TurnInv` that the next turn in memory, in the file and in a save under way is at
  least the rest of the spacing.
- **OutputsProofs**: `TypeOK`, `ShownIsGrounded` and `MeterStaysFresh` of `MeterFeed`;
  `OutputsImplementMeterFeed`, that a behaviour of the composition is one of
  `MeterFeed` (every step is a step of it or a stutter), which carries the two over
  to `Outputs`; `StatesAgree`, `NothingInvented` and `Discovered`. For the meter the invariant ties the age of each
  cached value to the reads on their way (`Steady`); for `StatesAgree` it ties both
  devices to the last snapshot (`OutputsInv`), and a lemma for each source says that what it makes of a snapshot
  is consistent, table by table. `NothingInvented` needs which snapshot the
  vehicle device was last given (`SaidInv`), `Discovered` that platforms which are
  set up while the car is known miss no option unless a discovery is pending, and
  that covers, which need none, never do (`EntityInv`). `Payloads`, `Readings` and
  `HaStates` are arbitrary but for the fields they have.
- **ReleaseLedgerProofs**: `TypeOK`, `UniqueReservations`, `ConsumedOnce`,
  `NoDowngrade`, and the refinement `LedgerImplements`, for any finite set of runs and
  any number of bases, attempts and runs at a time. The inductive invariant `IInv`
  says that the ledger and every copy of it have unique numbers and tags
  (`LedgersInv`), that every name in use is that of a stable release or of a used
  up reservation (`TagsInv`), how the plan of a run continues the copy it has seen
  (`ReservingInv`, `ConsumingInv`), and for serialized runs that only one is in
  progress and writes the newest number (`AloneInv`).
- **DeviceProofs**: `NoSpentToken` for all constants: `TokenInv` says that only the
  owner of the lock works with the token, that it has the file's, and that the
  file's is accepted unless an answer is on its way into it or was lost. `StoppedWhileChanging`,
  `NoMixture` and `WholeAfterUpdate` for one updater (`Updaters = {u}`), any number of
  items, versions and updates; item 11 above shows that the assumption is needed.
  `InstallInv` says which items the loop has replaced so far (`TreeInv`), that the
  worker is down wherever the script may change them (`DownInv`), what it started
  from (`LoadedInv`) and what is done by the end (`EndInv`). A mixture needs an update
  that was cut short, or power lost before the files were written back: item 13 shows
  that the second is no less than the first.
- **CerboLinkProofs**: `BeliefsHold` for any number of snapshots, losses and queued
  messages. What tick has handed to paho and not recorded yet is on its way
  (`PublishedInv`, `AnnouncedInv`), and what the broker retains of a kind is the last
  message of that kind among those sent (`SeenInv`); both hold only while the
  socket is open, because a loss makes the bridge forget what it believed.
- **PublicationProofs**, `ReleaseQualify`: `FreshPublication`, `OnlyQualifiedBytes` and
  `SkippedIsReplaced`, for any number of attempts, polls and changes. Behind the
  metadata the publisher's attempt has executed every job it stands for
  (`DecidingInv`), since no job is run again while it runs; evidence is about
  published bytes (`EvidenceInv`), so a manifest that agrees with it is too, and
  what the later run holds is what that manifest names (`ManifestInv`, `GotInv`).
  Before it skips, it has read a head that is a later push than its own and has a
  run (`SeenInv`), and then the same head again.
- **PublicationProofs**, `ReleasePublish`: `TypeOK`, `OwnDraft`, `OnlyMatch`,
  `PublishedExact` and the refinement `ImplementsLedger`, for any finite set of files,
  page size, inventory and number of acts. `OwnInv`: one POST makes at most one draft,
  soon or late, and only that one ever carries the nonce. `OnlyMatch` is about an
  inventory read in pages while releases come and go: a deletion moves a release
  from a page not read yet to one that was. `FirstInv` says that what was read so
  far is complete among the newer of the old releases, or else holds one that is
  gone by now, and then the second inventory, which cannot hold it, will differ. The step
  to the next page is a counting argument (`NoneMissed`): as many distinct releases
  were read as come before the page, so if one of those were missing, two of the
  entries read would be the same. `PublishedExact` counts too (`AllExact`): as many files as were
  staged, among them each staged one as it was sent, are those and no others. For
  the refinement, one lemma per step of `ReleaseLedger` (`LedgerTags`,
  `LedgerDrafts`, `LedgerPublishes`, `LedgerDeletes`, ...) says when the mapped
  variables make that step; each action of the transaction is then one of them or
  a stutter. The run it stands for has used its number up, and is called `"run"`
  because `ReleaseLedger` keeps the names of runs apart from numbers.

Proved and in no run: `SingleFlight`, `SentinelFits`, `BreakerSpacing`,
`Serialized`, `PullHidesOldFields` and the type invariants.

Only model-checked: every liveness property (`PendingResolves`,
`ShutdownCompletes`, `Reconnects`, `QuietStreamPulls`, `AsksAgain`, `Settles`,
`EndReported`, `ComesBack`), because TLAPS does not handle fairness and
ENABLED, and the refuted properties of section 4. Every safety and action property
and every refinement that a passing run checks is also a theorem, with one
restriction: those of `Installer` are proved for one updater.

## 6. Not modelled

- Formats: protobuf, certificates, units and numbers, the D-Bus registration, the
  JSON of plans, manifests and evidence. They decide on one value at a time.
- Version planning, receipts, archives, provenance, fuzzing and workflow checks
  (`version_plan.py`, `merge_oci_archives.py`, ...): single-pass validation. The
  release modules take each as a check that passes or refuses. The build scripts
  run tools in sequence.
- TLS policy and configuration: read once, no state.
- Clocks that jump: a deadline in a file is a wall-clock time, here the time left.
- Home Assistant's own expiry of a snapshot by age.
- `close` of the Mercedes client racing the start or end of its event loop.
- The installation of Python packages and the copy to the device (`deploy.sh`).
- ValveController: its class has tests, but no part of the running service
  builds it.

## 7. Plan

Done: the acquisition clients, the MQTT link, the outputs, the device and the
release pipeline; and a proof of every safety and action property of the passing
runs. Left, in this order:

1. The safety part of `CerboShutdown`: outside `_lock` a signal never finds the lock
   taken by the main thread, the reason why `ClosesBetween` holds.
2. A ranking argument for the action steps under `ShutdownCompletes`: what each step
   of the stop decreases, as far as it can be stated without fairness.
3. The preparation of a version (`version_plan.py`, `prepare_version.py`), which the
   release modules take as given.
4. `close` of the Mercedes client against its event loop.
