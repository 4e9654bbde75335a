---------------------------- MODULE PollBridge ----------------------------
(***************************************************************************)
(* The Home Assistant bridge: App on the GLib main loop (dbus_ev/main.py), *)
(* the PollWorker thread (dbus_ev/worker.py), the circuit breaker of       *)
(* HaClient (dbus_ev/ha_client.py), and the SIGTERM handler, which Python  *)
(* runs on the main thread in the middle of whatever that thread is doing. *)
(*                                                                         *)
(* main      control point of the main loop's current callback             *)
(* handler   control point of the signal handler; while it is active the   *)
(*           main loop's callback is suspended at main                     *)
(* worker    control point of the worker thread                            *)
(* The clock moves only while the main loop is on time with its tick: GLib *)
(* fires timeouts when due, and only the signal handler blocks: in its     *)
(* join, and in the close of MQTT, which CerboShutdown models step by step *)
(* and which need not return when the signal came inside MQTT's lock.      *)
(***************************************************************************)
EXTENDS Freshness, Sequences

CONSTANTS
  StaleTimeout,    \* SENSOR_STALE_TIMEOUT
  TickPeriod,      \* POLL_INTERVAL, the period of App.tick
  JoinTimeout,     \* how long stop() waits for the worker
  Threshold,       \* failures that open the breaker
  ResetTimeout,    \* how long the breaker stays open
  MaxTime          \* bound on the clock

ASSUME PollAssumption ==
  /\ StaleTimeout \in Nat \ {0}
  /\ TickPeriod \in Nat \ {0}
  /\ JoinTimeout \in Nat
  /\ Threshold \in Nat \ {0}
  /\ ResetTimeout \in Nat \ {0}
  /\ MaxTime \in Nat

VARIABLES
  now,
  main, handler, worker,
  nextTick,        \* when the tick timeout is due
  pending,         \* PollWorker._pending
  slot,            \* PollWorker._queue: one slot, a callback or the None that stops
  mutexHeld,       \* the main thread is inside Queue.put_nowait
  stopping,        \* PollWorker._stopping
  joinStart,       \* when the handler began to join the worker
  startedAt,       \* the worker's started_at
  result,          \* the snapshot the worker is about to dispatch
  idle,            \* idle callbacks scheduled on the main loop
  delivering,      \* the snapshot _deliver passed on to apply_snapshot
  lastOk,          \* App.last_ok_time
  latestOk,        \* App.latest_snapshot["ok"]
  connected,       \* /Connected
  outOk,           \* the "ok" last given to the MQTT and charger outputs
  failures, openedAt, \* CircuitBreaker
  closed,          \* HaClient.close was called
  \* history, read by no action
  requestAt,       \* when the request of the current call was sent
  shown,           \* when the values last published were requested
  streak,          \* failures recorded since the last success
  lastFailure      \* when the last of them was recorded

clockVars   == <<now, nextTick>>
appVars     == <<lastOk, latestOk, connected, outOk, shown>>
breakerVars == <<failures, openedAt, streak, lastFailure>>
callVars    == <<startedAt, requestAt, result>>
stopVars    == <<handler, stopping, joinStart>>
vars == <<clockVars, main, worker, pending, slot, mutexHeld, idle, delivering,
          appVars, breakerVars, callVars, stopVars, closed>>

Times == 0..MaxTime
MaybeTimes == Times \cup {NoTime}
Snapshots == [ok : BOOLEAN, at : Times, requested : MaybeTimes]
NoSnapshot == [ok |-> FALSE, at |-> 0, requested |-> NoTime]

Init ==
  /\ now = 0 /\ nextTick = TickPeriod
  /\ main = "idle" /\ handler = "none" /\ worker = "get"
  /\ pending = FALSE /\ slot = "empty" /\ mutexHeld = FALSE
  /\ stopping = FALSE /\ joinStart = 0
  /\ startedAt = 0 /\ result = NoSnapshot /\ requestAt = NoTime
  /\ idle = <<>> /\ delivering = NoSnapshot
  /\ lastOk = NoTime /\ latestOk = FALSE
  /\ connected = FALSE /\ outOk = FALSE /\ shown = NoTime
  /\ failures = 0 /\ openedAt = NoTime /\ streak = 0 /\ lastFailure = NoTime
  /\ closed = FALSE

\* The main thread is in _update_outputs, where tick and meter take MQTT's lock.
InMqtt == main \in {"outputs", "applied"}

HandlerActive == handler \notin {"none", "done"}
MainRuns == ~HandlerActive /\ main # "exited"
Alive == main # "exited"

-----------------------------------------------------------------------------
\* The clock. A due tick is not overtaken unless the signal handler blocks.
Advance ==
  /\ Alive
  /\ now < MaxTime
  /\ now < nextTick \/ HandlerActive
  /\ now' = now + 1
  /\ UNCHANGED <<nextTick, main, worker, pending, slot, mutexHeld, idle, delivering,
                 appVars, breakerVars, callVars, stopVars, closed>>

-----------------------------------------------------------------------------
\* The main loop. _update_connected and _update_outputs, with the time of day.
Publish(last, ok) ==
  /\ connected' = Fresh(now, last, StaleTimeout)
  /\ outOk' = (ok /\ Fresh(now, last, StaleTimeout))

\* PollWorker.poll accepts work.
PollAllowed == ~pending /\ ~stopping

\* App.tick: /Connected and the snapshot the outputs are given, a timer
\* every period ...
Tick ==
  /\ MainRuns /\ main = "idle"
  /\ nextTick <= now
  /\ nextTick' = now + TickPeriod
  /\ Publish(lastOk, latestOk)
  /\ main' = "outputs"
  /\ UNCHANGED <<now, worker, pending, slot, mutexHeld, idle, delivering, lastOk,
                 latestOk, shown, breakerVars, callVars, stopVars, closed>>

\* ... and, once the outputs have it, the checks of PollWorker.poll.
AskPoll ==
  /\ MainRuns /\ main = "outputs"
  /\ main' = IF PollAllowed THEN "put" ELSE "idle"
  /\ UNCHANGED <<clockVars, worker, pending, slot, mutexHeld, idle, delivering,
                 appVars, breakerVars, callVars, stopVars, closed>>

\* put_nowait takes the queue's mutex ...
PutLock ==
  /\ MainRuns /\ main = "put"
  /\ ~mutexHeld
  /\ mutexHeld' = TRUE
  /\ main' = "store"
  /\ UNCHANGED <<clockVars, worker, pending, slot, idle, delivering, appVars,
                 breakerVars, callVars, stopVars, closed>>

\* ... and stores the callback, or raises queue.Full out of the tick.
PutStore ==
  /\ MainRuns /\ main = "store"
  /\ mutexHeld' = FALSE
  /\ IF slot = "empty"
       THEN slot' = "poll" /\ main' = "mark"
       ELSE UNCHANGED slot /\ main' = "idle"
  /\ UNCHANGED <<clockVars, worker, pending, idle, delivering, appVars,
                 breakerVars, callVars, stopVars, closed>>

MarkPending ==
  /\ MainRuns /\ main = "mark"
  /\ pending' = TRUE
  /\ main' = "idle"
  /\ UNCHANGED <<clockVars, worker, slot, mutexHeld, idle, delivering, appVars,
                 breakerVars, callVars, stopVars, closed>>

DeliveryAlwaysAllowed == TRUE
DeliveryAllowed == ~stopping

\* PollWorker._deliver, run from an idle callback.
Deliver ==
  /\ MainRuns /\ main = "idle"
  /\ idle # <<>>
  /\ idle' = Tail(idle)
  /\ pending' = FALSE
  /\ IF DeliveryAllowed
       THEN main' = "apply" /\ delivering' = Head(idle)
       ELSE UNCHANGED <<main, delivering>>
  /\ UNCHANGED <<clockVars, worker, slot, mutexHeld, appVars, breakerVars,
                 callVars, stopVars, closed>>

AcceptedWhenReceived(snapshot) == snapshot.ok
\* now_ok: the poll succeeded and its acquisition is still fresh.
Accepted(snapshot) == snapshot.ok /\ Fresh(now, snapshot.at, StaleTimeout)

\* App.apply_snapshot up to the outputs ...
ApplySnapshot ==
  /\ MainRuns /\ main = "apply"
  /\ LET accepted == Accepted(delivering)
     IN  /\ lastOk' = NextLastOk("homeassistant", accepted, delivering.at, lastOk)
         /\ latestOk' = accepted
         /\ shown' = IF accepted THEN delivering.requested ELSE shown
         /\ Publish(lastOk', accepted)
  /\ main' = "applied"
  /\ UNCHANGED <<clockVars, worker, pending, slot, mutexHeld, idle, delivering,
                 breakerVars, callVars, stopVars, closed>>

\* ... and its return, when they and D-Bus have the values.
Applied ==
  /\ MainRuns /\ main = "applied"
  /\ main' = "idle"
  /\ UNCHANGED <<clockVars, worker, pending, slot, mutexHeld, idle, delivering,
                 appVars, breakerVars, callVars, stopVars, closed>>

ExitWhenSettled ==
  /\ handler = "done" /\ main = "idle" /\ ~pending
  /\ main' = "exited"
  /\ UNCHANGED <<clockVars, worker, pending, slot, mutexHeld, idle, delivering,
                 appVars, breakerVars, callVars, stopVars, closed>>

\* mainloop.run returns after the handler's quit, once GLib has dispatched the
\* sources that were ready in the same iteration; the daemon thread dies.
Exit ==
  /\ handler = "done" /\ main = "idle"
  /\ main' = "exited"
  /\ UNCHANGED <<clockVars, worker, pending, slot, mutexHeld, idle, delivering,
                 appVars, breakerVars, callVars, stopVars, closed>>

-----------------------------------------------------------------------------
\* The SIGTERM handler: App.shutdown, hence PollWorker.stop, then quit. It
\* starts between any two steps of the main thread.
HandlerUnchanged ==
  UNCHANGED <<clockVars, main, worker, pending, idle, delivering, appVars,
              breakerVars, callVars, closed>>

Signal ==
  /\ Alive /\ handler = "none"
  /\ handler' = "drain"
  /\ stopping' = TRUE
  /\ UNCHANGED <<slot, mutexHeld, joinStart>>
  /\ HandlerUnchanged

\* get_nowait; the mutex is not reentrant.
Drain ==
  /\ handler = "drain"
  /\ ~mutexHeld
  /\ slot' = "empty"
  /\ handler' = "sentinel"
  /\ UNCHANGED <<mutexHeld, stopping, joinStart>>
  /\ HandlerUnchanged

\* put_nowait(None); a full queue would raise out of the handler.
PutSentinel ==
  /\ handler = "sentinel"
  /\ IF slot = "empty"
       THEN slot' = "stop" /\ handler' = "join"
       ELSE UNCHANGED slot /\ handler' = "raised"
  /\ joinStart' = now
  /\ UNCHANGED <<mutexHeld, stopping>>
  /\ HandlerUnchanged

\* join, bounded.
Join ==
  /\ handler = "join"
  /\ worker = "exited" \/ now - joinStart >= JoinTimeout
  /\ handler' = "close"
  /\ UNCHANGED <<slot, mutexHeld, stopping, joinStart>>
  /\ HandlerUnchanged

\* CerboMqtt.close returns, if it does, and the main loop is told to quit.
CloseMqtt ==
  /\ handler = "close"
  /\ handler' = "done"
  /\ UNCHANGED <<slot, mutexHeld, stopping, joinStart>>
  /\ HandlerUnchanged

-----------------------------------------------------------------------------
\* The worker thread, PollWorker._run.
WorkerUnchanged ==
  /\ Alive
  /\ UNCHANGED <<clockVars, main, pending, mutexHeld, delivering, appVars, stopVars>>

Get ==
  /\ worker = "get" /\ ~mutexHeld /\ slot # "empty"
  /\ worker' = IF slot = "stop" THEN "close" ELSE "check"
  /\ slot' = "empty"
  /\ UNCHANGED <<idle, breakerVars, callVars, closed>>
  /\ WorkerUnchanged

\* Work taken while stopping is dropped; other work is stamped before its call.
CheckStopping ==
  /\ worker = "check"
  /\ IF stopping
       THEN worker' = "get" /\ UNCHANGED startedAt
       ELSE worker' = "poll" /\ startedAt' = now
  /\ UNCHANGED <<slot, idle, breakerVars, requestAt, result, closed>>
  /\ WorkerUnchanged

\* CircuitBreaker.is_open: whether the call is refused.
BreakerRefuses == openedAt # NoTime /\ now - openedAt < ResetTimeout

ResultStampedOnReturn(ok, requested) == [ok |-> ok, at |-> now, requested |-> requested]
\* The snapshot dispatched to the main loop, stamped before the call began.
Result(ok, requested) == [ok |-> ok, at |-> startedAt, requested |-> requested]

\* The failures counted once is_open has let the call through: one more
\* failure opens a half-open breaker again.
FailuresOnceOpen == IF openedAt # NoTime THEN Threshold - 1 ELSE failures

\* HaClient.poll while the breaker is open: the last known values, not ok.
PollRefused ==
  /\ worker = "poll"
  /\ BreakerRefuses
  /\ result' = Result(FALSE, NoTime)
  /\ worker' = "dispatch"
  /\ UNCHANGED <<slot, idle, breakerVars, startedAt, requestAt, closed>>
  /\ WorkerUnchanged

\* HaClient.poll up to the HTTP request; an expired breaker turns half-open.
PollRequest ==
  /\ worker = "poll"
  /\ ~BreakerRefuses
  /\ failures' = FailuresOnceOpen
  /\ openedAt' = NoTime
  /\ requestAt' = now
  /\ worker' = "request"
  /\ UNCHANGED <<slot, idle, startedAt, result, streak, lastFailure, closed>>
  /\ WorkerUnchanged

\* A well-formed reply closes the breaker, with or without a state of charge.
Reply ==
  /\ worker = "request"
  /\ \E soc \in BOOLEAN : result' = Result(soc, requestAt)
  /\ failures' = 0 /\ openedAt' = NoTime
  /\ streak' = 0 /\ lastFailure' = NoTime
  /\ worker' = "dispatch"
  /\ UNCHANGED <<slot, idle, startedAt, requestAt, closed>>
  /\ WorkerUnchanged

\* CircuitBreaker.record_failure.
RecordFailure ==
  /\ failures' = failures + 1
  /\ openedAt' = IF openedAt = NoTime /\ failures + 1 >= Threshold THEN now ELSE openedAt
  /\ streak' = IF streak < Threshold THEN streak + 1 ELSE streak
  /\ lastFailure' = now

\* A timeout, a transport error, a status other than 200 or a malformed reply.
RequestFails ==
  /\ worker = "request"
  /\ RecordFailure
  /\ result' = Result(FALSE, NoTime)
  /\ worker' = "dispatch"
  /\ UNCHANGED <<slot, idle, startedAt, requestAt, closed>>
  /\ WorkerUnchanged

\* Any other exception reaches the worker, which reports a failed poll; the
\* breaker does not hear of it.
PollRaises ==
  /\ worker = "request"
  /\ result' = Result(FALSE, NoTime)
  /\ worker' = "dispatch"
  /\ UNCHANGED <<slot, idle, breakerVars, startedAt, requestAt, closed>>
  /\ WorkerUnchanged

ScheduleOnSuccess == IF result.ok THEN Append(idle, result) ELSE idle
\* dispatch: GLib.idle_add schedules _deliver, for a failed poll as well.
Schedule == Append(idle, result)

Dispatch ==
  /\ worker = "dispatch"
  /\ idle' = Schedule
  /\ worker' = "get"
  /\ UNCHANGED <<slot, breakerVars, callVars, closed>>
  /\ WorkerUnchanged

CloseSession ==
  /\ worker = "close"
  /\ closed' = TRUE
  /\ worker' = "exited"
  /\ UNCHANGED <<slot, idle, breakerVars, callVars>>
  /\ WorkerUnchanged

-----------------------------------------------------------------------------
MainNext == Tick \/ AskPoll \/ PutLock \/ PutStore \/ MarkPending
            \/ Deliver \/ ApplySnapshot \/ Applied \/ Exit
StopWorker == Drain \/ PutSentinel \/ Join
HandlerNext == StopWorker \/ CloseMqtt
RequestEnds == Reply \/ RequestFails \/ PollRaises
WorkerNext == Get \/ CheckStopping \/ PollRefused \/ PollRequest \/ RequestEnds
              \/ Dispatch \/ CloseSession

Next == Advance \/ Signal \/ MainNext \/ HandlerNext \/ WorkerNext

Spec == Init /\ [][Next]_vars

\* Time passes, both threads are scheduled, a request ends (it has a timeout)
\* and the handler runs. The close of MQTT ends if the signal did not come
\* inside its lock (CerboShutdown's ClosesBetween) and otherwise may never
\* (CerboShutdown_signal.cfg). Nothing makes the signal come.
Fairness == WF_vars(Advance) /\ WF_vars(MainNext) /\ WF_vars(Exit)
            /\ WF_vars(StopWorker) /\ WF_vars(CloseMqtt /\ ~InMqtt)
            /\ WF_vars(WorkerNext)

FairSpec == Spec /\ Fairness

-----------------------------------------------------------------------------
TypeOK ==
  /\ now \in Times /\ nextTick \in Nat
  /\ main \in {"idle", "outputs", "put", "store", "mark", "apply", "applied", "exited"}
  /\ handler \in {"none", "drain", "sentinel", "join", "close", "raised", "done"}
  /\ worker \in {"get", "check", "poll", "request", "dispatch", "close", "exited"}
  /\ slot \in {"empty", "poll", "stop"}
  /\ pending \in BOOLEAN /\ mutexHeld \in BOOLEAN /\ stopping \in BOOLEAN
  /\ joinStart \in Times /\ startedAt \in Times /\ requestAt \in MaybeTimes
  /\ result \in Snapshots /\ delivering \in Snapshots /\ idle \in Seq(Snapshots)
  /\ lastOk \in MaybeTimes /\ shown \in MaybeTimes
  /\ latestOk \in BOOLEAN /\ connected \in BOOLEAN /\ outOk \in BOOLEAN
  /\ failures \in 0..Threshold /\ openedAt \in MaybeTimes
  /\ streak \in 0..Threshold /\ lastFailure \in MaybeTimes
  /\ closed \in BOOLEAN

\* At most one poll exists at any time: queued, in the worker's hands, or
\* waiting to be delivered (worker.py's "bound outstanding work to one request").
WorkerBusy == worker \in {"check", "poll", "request", "dispatch"}
SingleFlight ==
  /\ Len(idle) <= 1
  /\ ~(slot = "poll" /\ WorkerBusy)
  /\ idle # <<>> => ~WorkerBusy /\ slot # "poll"

\* When the signal handler puts its None, the queue has room: a queue.Full
\* there would escape the handler before MQTT closes and the loop quits.
SentinelFits == handler = "sentinel" => slot = "empty"

\* While the main loop is not held up by the handler, what D-Bus and the
\* outputs call live was requested less than a timeout and a tick ago, however
\* slow the request, the dispatch or the delivery was.
FreshWhileResponsive ==
  (connected \/ outOk) /\ handler = "none" =>
     shown # NoTime /\ now - shown < StaleTimeout + TickPeriod

\* Once the shutdown has begun, only a callback that the signal interrupted may
\* still change what is published; a result delivered later is discarded.
DiscardAfterStop ==
  [][stopping /\ main # "apply" => main' # "apply" /\ UNCHANGED <<lastOk, shown>>]_vars

\* After as many failures in a row as open the breaker, a request is sent only
\* a full reset time after the last of them.
BreakerSpacing ==
  [][worker = "poll" /\ worker' = "request" /\ streak >= Threshold
       => now - lastFailure >= ResetTimeout]_vars

\* A poll handed to the worker always comes back, so polling never wedges.
PendingResolves == pending ~> (~pending \/ stopping)

\* A signal that lands neither inside the queue's mutex nor inside MQTT's lock
\* ends the process.
ShutdownCompletes == (stopping /\ ~mutexHeld /\ ~InMqtt) ~> main = "exited"

\* README: shutdown closes the HTTP session after its active request completes
\* (or the process ends because the request outlasted the join). It does not
\* hold: see PollBridge_signal.cfg.
ShutdownClosesSession ==
  stopping ~> (closed \/ (main = "exited" /\ now - joinStart >= JoinTimeout))

\* The bridge keeps the contract of TelemetryContract.
Contract == INSTANCE TelemetryContract
ImplementsContract == Contract!Spec

=============================================================================
