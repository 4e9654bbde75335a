---------------------------- MODULE EvccClient ----------------------------
(***************************************************************************)
(* The multi-brand provider (dbus_ev/providers/evcc.py): EvccClient owns   *)
(* one persistent vehicle engine process, asks it for one reading per poll *)
(* interval, and paces requests, engine starts and retries by a state file *)
(* that is saved before the network is used and outlives crashes.  The     *)
(* recovery command of the same file runs while the client is down.        *)
(*                                                                         *)
(* task  control point of EvccClient.poll: "down" (no process, lock free), *)
(*       "idle" (between polls), "reserve" (the poll is reserved, no       *)
(*       engine runs), "send" (everything is reserved), "wait" (the engine *)
(*       works), "fails" (in the handler of failures).                     *)
(* The worker polls far more often than once per unit of time, so only the *)
(* waiting takes time; deadlines are the time left to them.                *)
(***************************************************************************)
EXTENDS Integers

CONSTANTS
  Interval,        \* the effective poll interval
  LoginInterval,   \* LOGIN_INTERVAL
  FirstDelay,      \* the 1800 that _failure doubles
  ReplyTimeout,    \* Engine.timeout
  EvccStaleTimeout, \* EVCC_STALE_TIMEOUT
  RetryAfters,     \* the retry_after values of a reply, 0 for none
  SavesFail        \* whether saving the state file may fail

ASSUME EvccAssumption ==
  /\ Interval \in Nat \ {0} /\ LoginInterval \in Nat \ {0}
  /\ FirstDelay \in Nat \ {0} /\ ReplyTimeout \in Nat \ {0}
  /\ EvccStaleTimeout \in Nat /\ EvccStaleTimeout > Interval
  /\ RetryAfters \subseteq Nat
  /\ SavesFail \in BOOLEAN

VARIABLES
  task,
  engine,          \* the engine: "none", "runs", "stuck" (its stop failed; of no more use)
  state,           \* the state file, which memory equals while the lock is held
  flight,          \* how long the engine has been working on the request
  age,             \* age of the reading on show, EvccStaleTimeout for too old or none
  \* history, read by no action but Elapse
  steady,          \* since a good reply nothing went wrong
  sinceRequest,    \* time since a request or a recovery, capped
  sinceStart,      \* time since an engine start or a recovery, capped
  owed,            \* the longest pause that a recorded failure still demands
  refusal          \* a refused authorization: "none", "unrecorded", "recorded"

historyVars == <<steady, sinceRequest, sinceStart, owed, refusal>>
evccVars == <<task, engine, state, flight, age, historyVars>>

MaxFailures == 5
Kinds == {"provider", "rate_limit", "auth"}   \* "auth" also for the other blocking kinds

EvccInit ==
  /\ task = "down" /\ engine = "none"
  /\ state = [poll |-> 0, login |-> 0, failures |-> 0, blocked |-> FALSE]
  /\ flight = 0 /\ age = EvccStaleTimeout
  /\ steady = FALSE
  /\ sinceRequest = Interval /\ sinceStart = LoginInterval /\ owed = 0
  /\ refusal = "none"

AtLeast(a, b) == IF a >= b THEN a ELSE b
AtMost(a, b) == IF a <= b THEN a ELSE b

ReservePoll(s) == [s EXCEPT !.poll = Interval]
ReserveLogin(s) == [s EXCEPT !.login = LoginInterval]

\* The backoff of _failure, for the count of failures after this one; Doubled
\* tabulates 2 ** (failures - 1), one place further than the counts there are.
Doubled == <<1, 2, 4, 8, 16, 32>>
FailuresUncapped(s) == s.failures + 1
Failures(s) == AtMost(MaxFailures, s.failures + 1)
Delay(failures, after) ==
  AtLeast(AtLeast(Interval, AtMost(LoginInterval, FirstDelay * Doubled[failures])), after)

FailedIgnoringRetryAfter(s, kind, after) ==
  [s EXCEPT !.poll = AtLeast(Interval, AtMost(LoginInterval, FirstDelay * Doubled[Failures(s)])),
            !.failures = Failures(s), !.blocked = kind = "auth"]
\* _failure: the state after a failed poll.
Failed(s, kind, after) ==
  [s EXCEPT !.poll = Delay(Failures(s), after),
            !.failures = Failures(s), !.blocked = kind = "auth"]

-----------------------------------------------------------------------------
\* The first poll takes the lock and reads the file.
Start ==
  /\ task = "down"
  /\ task' = "idle"
  /\ UNCHANGED <<engine, state, flight, age, historyVars>>

\* The process stops or dies at any point, and its engine and readings with it.
Down ==
  /\ task # "down"
  /\ task' = "down" /\ engine' = "none" /\ age' = EvccStaleTimeout /\ flight' = 0
  /\ steady' = FALSE
  /\ UNCHANGED <<state, sinceRequest, sinceStart, owed, refusal>>

DueAfterLogin == ~state.blocked /\ state.poll = 0 /\ state.login = 0
DueWithEngine == ~state.blocked /\ state.poll = 0 /\ engine # "none"
\* poll asks the engine only when every deadline has passed.
Due == ~state.blocked /\ state.poll = 0 /\ (engine # "none" \/ state.login = 0)

\* The poll is reserved in the file before anything is sent.
Reserve ==
  /\ task = "idle" /\ Due
  /\ state' = ReservePoll(state)
  /\ task' = IF engine = "none" THEN "reserve" ELSE "send"
  /\ UNCHANGED <<engine, flight, age, historyVars>>

\* So is the start of an engine, which may log in.
ReserveStart ==
  /\ task = "reserve"
  /\ state' = ReserveLogin(state)
  /\ task' = "send"
  /\ UNCHANGED <<engine, flight, age, historyVars>>

\* A reservation that cannot be saved raises out of poll.
ReserveFails ==
  /\ SavesFail
  /\ task = "reserve" \/ (task = "idle" /\ Due)
  /\ task' = "idle"
  /\ steady' = FALSE
  /\ UNCHANGED <<engine, state, flight, age, sinceRequest, sinceStart, owed, refusal>>

\* An engine is started if there is none, and asked.
Send ==
  /\ task = "send" /\ engine # "stuck"
  /\ task' = "wait"
  /\ engine' = "runs" /\ flight' = 0
  /\ sinceRequest' = 0
  /\ sinceStart' = IF engine = "none" THEN 0 ELSE sinceStart
  /\ UNCHANGED <<state, age, steady, owed, refusal>>

-----------------------------------------------------------------------------
\* A reading arrives; it is as old as its request.
ReplyOk ==
  /\ task = "wait"
  /\ age' = AtMost(flight, EvccStaleTimeout)
  /\ state' = [ReservePoll(state) EXCEPT !.failures = 0]
  /\ task' = "idle" /\ flight' = 0
  /\ steady' = TRUE
  /\ UNCHANGED <<engine, sinceRequest, sinceStart, owed, refusal>>

\* The engine reports a failure, which is recorded. When it must not go on it is
\* stopped; a process that cannot be reaped in time raises out of that, into
\* the handler of failures.
ReplyFailed ==
  /\ task = "wait"
  /\ \E kind \in Kinds, after \in RetryAfters :
       /\ state' = Failed(state, kind, after)
       /\ owed' = AtLeast(owed, Delay(Failures(state), after))
       /\ refusal' = IF kind = "auth" THEN "recorded" ELSE refusal
       /\ \/ kind = "provider" /\ task' = "idle" /\ UNCHANGED engine
          \/ kind # "provider" /\ task' = "idle" /\ engine' = "none"
          \/ kind # "provider" /\ task' = "fails" /\ UNCHANGED engine
  /\ flight' = 0
  /\ steady' = FALSE
  /\ UNCHANGED <<age, sinceRequest, sinceStart>>

\* A reply that cannot be recorded: its failure is handled like a broken pipe,
\* after a good reading was already taken over.
ReplyUnrecorded ==
  /\ SavesFail
  /\ task = "wait"
  /\ \/ age' = AtMost(flight, EvccStaleTimeout) /\ UNCHANGED refusal
     \/ /\ refusal' \in {refusal, IF refusal = "none" THEN "unrecorded" ELSE refusal}
        /\ UNCHANGED age
  /\ task' = "fails" /\ flight' = 0
  /\ steady' = FALSE
  /\ UNCHANGED <<engine, state, sinceRequest, sinceStart, owed>>

\* No engine could be started, or it is stuck, silent, gone or not understood.
EngineFails ==
  /\ task \in {"send", "wait"}
  /\ task' = "fails" /\ flight' = 0
  /\ steady' = FALSE
  /\ UNCHANGED <<engine, state, age, sinceRequest, sinceStart, owed, refusal>>

\* The handler of failures stops the engine and records a transport failure, in
\* the place of what the same poll may already have recorded.
RecordTransport ==
  /\ task = "fails"
  /\ \/ /\ state' = Failed(state, "transport", 0)
        /\ owed' = Delay(Failures(state), 0)
        /\ refusal' = IF refusal = "recorded" THEN "unrecorded" ELSE refusal
     \/ SavesFail /\ UNCHANGED <<state, owed, refusal>>
  /\ task' = "idle" /\ engine' = "none"
  /\ UNCHANGED <<flight, age, steady, sinceRequest, sinceStart>>

\* Its stop raises again, out of the poll; the engine is kept, and fails the next.
StopFails ==
  /\ task = "fails" /\ engine # "none"
  /\ task' = "idle" /\ engine' = "stuck"
  /\ UNCHANGED <<state, flight, age, historyVars>>

-----------------------------------------------------------------------------
\* The operator's recovery command succeeds: every deadline is dropped.
Recover ==
  /\ task = "down"
  /\ state' = [poll |-> 0, login |-> 0, failures |-> 0, blocked |-> FALSE]
  /\ sinceRequest' = Interval /\ sinceStart' = LoginInterval /\ owed' = 0
  /\ refusal' = "none"
  /\ UNCHANGED <<task, engine, flight, age, steady>>

Less(n) == IF n = 0 THEN 0 ELSE n - 1

\* Time passes between polls and while the engine works, which is given up
\* after ReplyTimeout; a steady client does not miss a poll that is due.
Elapse ==
  /\ \/ task \in {"down", "idle"} /\ ~(task = "idle" /\ Due /\ steady)
     \/ task = "wait" /\ flight < ReplyTimeout
  /\ state' = [state EXCEPT !.poll = Less(@), !.login = Less(@)]
  /\ flight' = IF task = "wait" THEN flight + 1 ELSE flight
  /\ age' = AtMost(age + 1, EvccStaleTimeout)
  /\ sinceRequest' = AtMost(sinceRequest + 1, Interval)
  /\ sinceStart' = AtMost(sinceStart + 1, LoginInterval)
  /\ owed' = Less(owed)
  /\ UNCHANGED <<task, engine, steady, refusal>>

EvccNext ==
  \/ Start \/ Down \/ Reserve \/ ReserveStart \/ ReserveFails \/ Send
  \/ ReplyOk \/ ReplyFailed \/ ReplyUnrecorded \/ EngineFails
  \/ RecordTransport \/ StopFails
  \/ Recover \/ Elapse

EvccSpec == EvccInit /\ [][EvccNext]_evccVars

\* The worker keeps polling, select() and the clock go on; no reply need come.
EvccFairness ==
  /\ WF_evccVars(Elapse) /\ WF_evccVars(Reserve) /\ WF_evccVars(ReserveStart) /\ WF_evccVars(Send)
  /\ WF_evccVars(ReplyOk \/ ReplyFailed \/ EngineFails) /\ WF_evccVars(RecordTransport \/ StopFails)

EvccFairSpec == EvccSpec /\ EvccFairness

-----------------------------------------------------------------------------
States == [poll : Nat, login : Nat, failures : 0..MaxFailures, blocked : BOOLEAN]

EvccTypeOK ==
  /\ task \in {"down", "idle", "reserve", "send", "wait", "fails"}
  /\ engine \in {"none", "runs", "stuck"}
  /\ state \in States
  /\ flight \in 0..ReplyTimeout
  /\ age \in 0..EvccStaleTimeout
  /\ steady \in BOOLEAN
  /\ sinceRequest \in 0..Interval /\ sinceStart \in 0..LoginInterval
  /\ owed \in Nat
  /\ refusal \in {"none", "unrecorded", "recorded"}

Sends == task = "send" /\ task' = "wait"

\* A request keeps the poll interval from the last, and one that starts the engine,
\* which may log in, the login interval likewise; it comes after the backoff and
\* the retry_after on record, and while a refusal is on record only once the
\* recovery command succeeded: through crashes, restarts and failed saves. What
\* is on record may be a milder failure than the one that was answered.
RequestsAllowed ==
  [][Sends => /\ sinceRequest = Interval /\ (engine = "none" => sinceStart = LoginInterval)
              /\ owed = 0 /\ refusal # "recorded"]_evccVars

\* While the engine answers, the reading on show never expires between polls;
\* for that EvccStaleTimeout has to cover the interval and two replies.
FreshWhileAnswering ==
  EvccStaleTimeout > Interval + 2 * ReplyTimeout => (steady => age < EvccStaleTimeout)

\* A client that is not blocked tries again with an engine that can answer,
\* whatever failed, unless its reservations cannot be saved or its engines
\* cannot be stopped for ever.
AsksAgain ==
  <>[][~ReserveFails /\ ~StopFails]_evccVars =>
    ((task # "down" /\ ~state.blocked)
       ~> (task = "down" \/ (task = "send" /\ engine # "stuck") \/ state.blocked))

\* vehicles.md: a failed authorization needs the explicit recovery command. It
\* does not hold when the failure cannot be saved, nor when the engine cannot be
\* stopped after it was: see EvccClient_refusal.cfg.
RefusalNeedsOperator == [][Sends => refusal = "none"]_evccVars

=============================================================================
