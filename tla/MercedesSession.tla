-------------------------- MODULE MercedesSession --------------------------
(***************************************************************************)
(* Who may talk to Mercedes' cloud, and when: the one asyncio task of      *)
(* MercedesClient (dbus_ev/mercedes/client.py), which connects, streams,   *)
(* pulls over REST, cools down and recovers a blocked session by a login   *)
(* (recovery.py) under TrafficLimits (traffic.py), which are persisted     *)
(* (store.py) and outlive crashes; and the standalone login command        *)
(* (auth.py), which takes the same owner lock while the client is down.    *)
(*                                                                         *)
(* task  control point of the asyncio task: "down" (no process, lock       *)
(*       free), "dead" (the thread ended with an exception; the process    *)
(*       lives on, lock free), "wait" (_wait_for_api), "connect" (headers  *)
(*       and handshake in flight), "stream", "cool" and "hold" (the two    *)
(*       halves of _cooldown), "pullStream", "pullCool" (_pull in flight), *)
(*       "after" (the cooldown is over), "login" (recovery in flight),     *)
(*       "failed" (a recovery failed and was recorded, its pause was not). *)
(* What telemetry says is left to other modules; deadlines are the time    *)
(* left to them.                                                           *)
(***************************************************************************)
EXTENDS TrafficLimits

CONSTANTS
  ReconnectMin, ReconnectMax,    \* RECONNECT_MIN, RECONNECT_MAX
  HealthyTime,                   \* HEALTHY_STREAM_TIME
  PullInterval, InitialPull,     \* PULL_INTERVAL, INITIAL_PULL_DELAY
  RetryAfters,                   \* the Retry-After values a server may send
  Credentials                    \* whether a credentials file is configured

ASSUME SessionAssumption ==
  /\ ReconnectMin \in Nat \ {0} /\ ReconnectMax \in Nat
  /\ ReconnectMin <= ReconnectMax
  /\ HealthyTime \in Nat \ {0}
  /\ PullInterval \in Nat \ {0} /\ InitialPull \in Nat
  /\ PullInterval <= ReconnectMax /\ PullInterval <= RateMin
  /\ PullInterval <= LoginInterval
  /\ RetryAfters \subseteq Nat
  /\ Credentials \in BOOLEAN

VARIABLES
  task, cli,
  mem,             \* the limits in the client's memory
  disk,            \* the limits file
  retry,           \* _serve's retry
  blocked,         \* the last handshake was refused with HTTP 429
  up,              \* how long the stream has lived, up to HealthyTime
  cool,            \* time left of the cooldown
  pullIn,          \* time left to _next_pull
  rxWait,          \* time left to _received + PULL_INTERVAL
  pullRetry,       \* _pull_retry
  recoveryFailed,  \* SessionRecovery.failed
  penalty,         \* how the failed login was answered: HTTP 429?, Retry-After
  \* history, read by no action
  owed,            \* the longest pause that a handled response still demands
  level,           \* the least pause the next HTTP 429 has to bring
  sinceLogin,      \* time since the last automatic or manual login, capped
  latched,         \* an automatic login failed, no manual one succeeded since
  sincePull        \* time since this process last sent a pull, capped

limitVars   == <<mem, disk>>
pullVars    == <<pullIn, rxWait, pullRetry, sincePull>>
serveVars   == <<retry, blocked, up, cool>>
loginVars   == <<recoveryFailed, penalty, sinceLogin, latched>>
historyVars == <<owed, level>>
vars == <<task, cli, limitVars, pullVars, serveVars, loginVars, historyVars>>

Headers == RetryAfters \cup {NoHeader}
NoPenalty == [limited |-> FALSE, after |-> NoHeader]

Init ==
  /\ task = "down" /\ cli = "none"
  /\ mem = NoLimits /\ disk = NoLimits
  /\ retry = ReconnectMin /\ blocked = FALSE /\ up = 0 /\ cool = 0
  /\ pullIn = 0 /\ rxWait = 0 /\ pullRetry = PullInterval
  /\ recoveryFailed = FALSE /\ penalty = NoPenalty
  /\ owed = 0 /\ level = RateMin
  /\ sinceLogin = LoginInterval /\ latched = FALSE /\ sincePull = PullInterval

\* The limits after a change, in memory and in the file.
SavedInMemory(m) == mem' = m /\ UNCHANGED disk
Saved(m) == mem' = m /\ disk' = m

\* What a response demands, for the history: a pause, and after an HTTP 429
\* twice that pause the next time.
Demand(delay) == owed' = Larger(owed, delay)
DemandAfter429(after) ==
  /\ owed' = Larger(owed, RetryDelay(after, level))
  /\ level' = Smaller(2 * level, RateMax)

-----------------------------------------------------------------------------
\* MercedesClient.start: the limits are read again under the owner lock.
Start ==
  /\ task = "down" /\ cli = "none"
  /\ task' = "wait"
  /\ mem' = disk
  /\ retry' = ReconnectMin /\ blocked' = FALSE /\ up' = 0 /\ cool' = 0
  /\ pullIn' = InitialPull /\ rxWait' = 0 /\ pullRetry' = PullInterval
  /\ sincePull' = PullInterval
  /\ recoveryFailed' = FALSE /\ penalty' = NoPenalty
  /\ UNCHANGED <<cli, disk, sinceLogin, latched, historyVars>>

\* The process dies or is stopped at any point of the task; the lock goes.
Down ==
  /\ task # "down"
  /\ task' = "down"
  /\ UNCHANGED <<cli, limitVars, pullVars, serveVars, loginVars, historyVars>>

\* A save that fails raises out of an exception handler and ends the thread,
\* unless the stream's own pull raised it (PullSaveFails); the response it was
\* to record demands nothing of a later process.
SaveFails ==
  /\ task \in {"connect", "pullCool", "after", "login", "failed"}
  /\ task' = "dead"
  /\ UNCHANGED <<cli, limitVars, pullVars, serveVars, loginVars, historyVars>>

-----------------------------------------------------------------------------
\* _wait_for_api is over: the requests of a connection attempt are sent.
MayRequest == mem.pause = 0

Connect ==
  /\ task = "wait"
  /\ MayRequest
  /\ task' = "connect"
  /\ blocked' = FALSE
  /\ UNCHANGED <<cli, limitVars, pullVars, retry, up, cool, loginVars, historyVars>>

Connected ==
  /\ task = "connect"
  /\ task' = "stream"
  /\ up' = 0
  /\ UNCHANGED <<cli, limitVars, pullVars, retry, blocked, cool, loginVars, historyVars>>

\* _cooldown(delay) begins: an API pause is waited out, otherwise the delay.
EnterCooldown(m, delay) ==
  /\ task' = IF m.pause > 0 THEN "hold" ELSE "cool"
  /\ cool' = delay

\* _failure_delay for an HTTP 429, for an authorization failure, and for
\* anything else, which pauses requests only if the server said so.
LimitedBy(after) ==
  /\ Saved(RateLimited(mem, after))
  /\ DemandAfter429(after)
RefusedBy(after) ==
  /\ Saved(Pause(mem, RetryDelay(after, LoginInterval)))
  /\ Demand(RetryDelay(after, LoginInterval))
  /\ UNCHANGED level
BrokenBy(after, minimum) ==
  /\ IF after = NoHeader
       THEN UNCHANGED <<limitVars, owed>>
       ELSE /\ Saved(Pause(mem, RetryDelay(after, minimum)))
            /\ Demand(RetryDelay(after, minimum))
  /\ UNCHANGED level
DelayOf(after, minimum) == IF after = NoHeader THEN minimum ELSE mem'.pause

\* The attempt fails: HTTP 429, which blocks the session if it answers the
\* handshake; a missing or refused authorization; or the transport.
ConnectLimited ==
  /\ task = "connect"
  /\ \E after \in Headers : LimitedBy(after)
  /\ retry' = mem'.pause
  /\ blocked' \in BOOLEAN
  /\ EnterCooldown(mem', retry')
  /\ UNCHANGED <<cli, pullVars, up, loginVars>>

ConnectRefused ==
  /\ task = "connect"
  /\ \E after \in Headers : RefusedBy(after)
  /\ retry' = mem'.pause
  /\ EnterCooldown(mem', retry')
  /\ UNCHANGED <<cli, pullVars, blocked, up, loginVars>>

TransportFails(from) ==
  /\ task = from
  /\ \E after \in Headers :
       /\ BrokenBy(after, retry)
       /\ retry' = DelayOf(after, retry)
  /\ EnterCooldown(mem', retry')
  /\ UNCHANGED <<cli, pullVars, blocked, up, loginVars>>

ConnectFails == TransportFails("connect")

\* The stream raises: a malformed frame or a failed acknowledgement.
StreamRaises ==
  /\ task = "stream"
  /\ EnterCooldown(mem, retry)
  /\ UNCHANGED <<cli, limitVars, pullVars, retry, blocked, up, loginVars, historyVars>>

SustainedAtOnce == TRUE
\* A stream counts as healthy once it was sustained.
Sustained == up >= HealthyTime

\* healthy() saves only a change; when that fails, memory alone has it, and
\* _serve treats the exception as a transport failure.
RecordHealthy ==
  IF mem.pause = 0 /\ mem.rate # RateMin
    THEN /\ Saved(Healthy(mem)) \/ SavedInMemory(Healthy(mem))
         /\ level' = IF up = HealthyTime THEN RateMin ELSE level
    ELSE UNCHANGED <<limitVars, level>>

\* The stream ends: a close frame, an error frame, or the end of the socket.
StreamEnds ==
  /\ task = "stream"
  /\ IF Sustained
       THEN retry' = ReconnectMin /\ RecordHealthy
       ELSE UNCHANGED <<retry, limitVars, level>>
  /\ EnterCooldown(mem', retry')
  /\ UNCHANGED <<cli, pullVars, blocked, up, loginVars, owed>>

\* A push update for this vehicle.
Message ==
  /\ task = "stream"
  /\ rxWait' = PullInterval
  /\ UNCHANGED <<task, cli, limitVars, pullIn, pullRetry, sincePull, serveVars,
                 loginVars, historyVars>>

-----------------------------------------------------------------------------
\* _pull_delay is zero: no data, no recent pull and no pause.
PullDue == pullIn = 0 /\ rxWait = 0 /\ mem.pause = 0

SendPullInCooldown ==
  /\ PullDue
  /\ task = "cool" /\ cool > 0 /\ task' = "pullCool"
  /\ sincePull' = 0
  /\ UNCHANGED <<cli, limitVars, pullIn, rxWait, pullRetry, serveVars, loginVars,
                 historyVars>>

\* A pull is sent from the quiet stream or from the cooldown.
SendPull ==
  /\ PullDue
  /\ \/ task = "stream" /\ task' = "pullStream"
     \/ task = "cool" /\ cool > 0 /\ task' = "pullCool"
  /\ sincePull' = 0
  /\ UNCHANGED <<cli, limitVars, pullIn, rxWait, pullRetry, serveVars, loginVars,
                 historyVars>>

PullReturns == task' = CASE task = "pullStream" -> "stream" [] task = "pullCool" -> "cool"

PullSucceeds ==
  /\ task \in {"pullStream", "pullCool"}
  /\ PullReturns
  /\ rxWait' = PullInterval
  /\ pullRetry' = PullInterval
  /\ pullIn' = PullInterval
  /\ UNCHANGED <<cli, limitVars, sincePull, serveVars, loginVars, historyVars>>

\* The minimum delay of a failed pull doubles up to an hour.
PullBackoff == Smaller(2 * pullRetry, ReconnectMax)

PullFails ==
  /\ task \in {"pullStream", "pullCool"}
  /\ PullReturns
  /\ \E after \in Headers :
       \/ LimitedBy(after) /\ pullRetry' = mem'.pause
       \/ RefusedBy(after) /\ pullRetry' = mem'.pause
       \/ BrokenBy(after, PullBackoff) /\ pullRetry' = DelayOf(after, PullBackoff)
  /\ pullIn' = pullRetry'
  /\ UNCHANGED <<cli, rxWait, sincePull, serveVars, loginVars>>

\* The limits a failed pull puts in memory before it saves them.
PullPauses ==
  {RateLimited(mem, after) : after \in Headers}
    \cup {Pause(mem, RetryDelay(after, LoginInterval)) : after \in Headers}
    \cup {Pause(mem, RetryDelay(after, PullBackoff)) : after \in RetryAfters}

\* That save fails while the stream is up: the exception ends the stream
\* before the next pull was scheduled, and is handled like a broken transport.
PullSaveFails ==
  /\ task = "pullStream"
  /\ \E m \in PullPauses : SavedInMemory(m) /\ EnterCooldown(m, retry)
  /\ UNCHANGED <<cli, pullVars, retry, blocked, up, loginVars, historyVars>>

-----------------------------------------------------------------------------
CooldownEndsByDelay ==
  /\ task = "cool" /\ cool = 0
  /\ task' = "after"
  /\ UNCHANGED <<cli, limitVars, pullVars, serveVars, loginVars, historyVars>>

CooldownEnds ==
  /\ \/ task = "cool" /\ cool = 0
     \/ task = "hold" /\ mem.pause = 0
  /\ task' = "after"
  /\ UNCHANGED <<cli, limitVars, pullVars, serveVars, loginVars, historyVars>>

\* SessionRecovery.recover sends the stored credentials.
MayRecover == blocked /\ Credentials /\ ~recoveryFailed /\ LoginAllowed(mem)

NextRetry == Smaller(2 * retry, ReconnectMax)

NoRecovery ==
  /\ task = "after"
  /\ ~MayRecover
  /\ task' = "wait"
  /\ retry' = NextRetry
  /\ UNCHANGED <<cli, limitVars, pullVars, blocked, up, cool, loginVars, historyVars>>

\* The login is reserved in the file before the credentials are sent.
Recover ==
  /\ task = "after"
  /\ MayRecover
  /\ Saved(ReserveLogin(mem))
  /\ task' = "login"
  /\ sinceLogin' = 0
  /\ UNCHANGED <<cli, pullVars, serveVars, recoveryFailed, penalty, latched, historyVars>>

\* A new server session: _serve goes on without touching retry.
RecoverySucceeds ==
  /\ task = "login"
  /\ task' = "wait"
  /\ UNCHANGED <<cli, limitVars, pullVars, serveVars, loginVars, historyVars>>

\* The failure is recorded first, ...
RecoveryFails ==
  /\ task = "login"
  /\ task' = "failed"
  /\ recoveryFailed' = TRUE
  /\ Saved(LoginFailed(mem))
  /\ penalty' \in [limited : BOOLEAN, after : Headers]
  /\ latched' = TRUE
  /\ UNCHANGED <<cli, pullVars, serveVars, sinceLogin, historyVars>>

\* ... then its pause, which an HTTP 429 escalates.
RecoveryPauses ==
  /\ task = "failed"
  /\ task' = "wait"
  /\ LET limited == IF penalty.limited THEN RateLimited(mem, penalty.after) ELSE mem
     IN  Saved(Pause(limited, RetryDelay(penalty.after, LoginInterval)))
  /\ owed' = Larger(owed, Larger(RetryDelay(penalty.after, LoginInterval),
                                 IF penalty.limited THEN level ELSE 0))
  /\ level' = IF penalty.limited THEN Smaller(2 * level, RateMax) ELSE level
  /\ penalty' = NoPenalty
  /\ retry' = NextRetry
  /\ UNCHANGED <<cli, pullVars, blocked, up, cool, recoveryFailed, sinceLogin, latched>>

-----------------------------------------------------------------------------
\* The standalone login: needs the lock, and no pause when it starts.
CliUnchanged ==
  UNCHANGED <<task, mem, pullVars, serveVars, recoveryFailed, penalty>>

CliStart ==
  /\ task \in {"down", "dead"} /\ cli = "none"
  /\ disk.pause = 0
  /\ cli' = "prompt"
  /\ UNCHANGED <<disk, sinceLogin, latched, owed, level>>
  /\ CliUnchanged

CliSends ==
  /\ cli = "prompt"
  /\ cli' = "login"
  /\ UNCHANGED <<disk, sinceLogin, latched, owed, level>>
  /\ CliUnchanged

CliSucceeds ==
  /\ cli = "login"
  /\ cli' = "none"
  /\ disk' = ManualLoginSucceeded(disk)
  /\ sinceLogin' = 0 /\ latched' = FALSE
  /\ UNCHANGED <<owed, level>>
  /\ CliUnchanged

CliLimited ==
  /\ cli = "login"
  /\ cli' = "none"
  /\ \E after \in Headers :
       /\ disk' = RateLimited(disk, after)
       /\ DemandAfter429(after)
  /\ UNCHANGED <<sinceLogin, latched>>
  /\ CliUnchanged

\* Any other failure, or the operator gives up.
CliEnds ==
  /\ cli # "none"
  /\ cli' = "none"
  /\ UNCHANGED <<disk, sinceLogin, latched, owed, level>>
  /\ CliUnchanged

-----------------------------------------------------------------------------
\* Time passes for everyone; in memory and on disk alike.
Elapse ==
  /\ mem' = Elapsed(mem) /\ disk' = Elapsed(disk)
  /\ up' = IF task \in {"stream", "pullStream"} THEN Smaller(up + 1, HealthyTime) ELSE up
  /\ cool' = Less(cool)
  /\ pullIn' = Less(pullIn) /\ rxWait' = Less(rxWait)
  /\ owed' = Less(owed)
  /\ sinceLogin' = Smaller(sinceLogin + 1, LoginInterval)
  /\ sincePull' = Smaller(sincePull + 1, PullInterval)
  /\ UNCHANGED <<task, cli, retry, blocked, pullRetry, recoveryFailed, penalty,
                 latched, level>>

ServeNext ==
  \/ Connect \/ Connected \/ ConnectLimited \/ ConnectRefused \/ ConnectFails
  \/ StreamEnds \/ StreamRaises \/ SendPull \/ PullSucceeds \/ PullFails
  \/ CooldownEnds \/ NoRecovery \/ Recover \/ RecoverySucceeds \/ RecoveryFails
  \/ RecoveryPauses
CliNext == CliStart \/ CliSends \/ CliSucceeds \/ CliLimited \/ CliEnds

Next == Start \/ Down \/ SaveFails \/ PullSaveFails \/ ServeNext \/ Message \/ CliNext \/ Elapse

Spec == Init /\ [][Next]_vars

\* The task is scheduled, requests end (they have a timeout) and time passes.
\* Nothing makes a server send, a stream end, an operator act or a crash come.
Fairness ==
  /\ WF_vars(Elapse)
  /\ WF_vars(Connect) /\ WF_vars(CooldownEnds) /\ WF_vars(SendPull)
  /\ WF_vars(PullSucceeds \/ PullFails)
  /\ WF_vars(NoRecovery \/ Recover)
  /\ WF_vars(RecoverySucceeds \/ RecoveryFails) /\ WF_vars(RecoveryPauses)

FairSpec == Spec /\ Fairness

-----------------------------------------------------------------------------
Tasks == {"down", "dead", "wait", "connect", "stream", "cool", "hold", "pullStream",
          "pullCool", "after", "login", "failed"}

TypeOK ==
  /\ task \in Tasks /\ cli \in {"none", "prompt", "login"}
  /\ mem \in Limits /\ disk \in Limits
  /\ retry \in Nat /\ blocked \in BOOLEAN /\ up \in 0..HealthyTime /\ cool \in Nat
  /\ pullIn \in Nat /\ rxWait \in 0..PullInterval /\ pullRetry \in Nat
  /\ recoveryFailed \in BOOLEAN /\ penalty \in [limited : BOOLEAN, after : Headers]
  /\ owed \in Nat /\ level \in RateMin..RateMax
  /\ sinceLogin \in 0..LoginInterval /\ latched \in BOOLEAN
  /\ sincePull \in 0..PullInterval

\* A step that sends requests to the cloud: the client's or the operator's.
Requesting == {"connect", "pullStream", "pullCool", "login"}
Sends == \/ task \notin Requesting /\ task' \in Requesting
         \/ cli # "login" /\ cli' = "login"

SendsLogin == task # "login" /\ task' = "login"
SendsPull == task \notin {"pullStream", "pullCool"} /\ task' \in {"pullStream", "pullCool"}

\* What may be sent, by this process, a later one or the login command:
\*   nothing before every pause a handled response demanded is over: the
\*   escalated pause of an HTTP 429, six hours after a refused authorization or a
\*   failed login, a longer Retry-After always;
\*   no automatic login within the login interval of any other, or after one that
\*   failed until a manual one succeeds, through crashes and restarts;
\*   no pull of one process within the pull interval of its last, whatever that
\*   met: at most six widget polls per hour.
RequestsAllowed ==
  [][/\ Sends => owed = 0
     /\ SendsLogin => sinceLogin = LoginInterval /\ ~latched
     /\ SendsPull => sincePull = PullInterval]_vars

\* Whatever went wrong, the task tries to connect again.
Reconnects ==
  task \in {"wait", "cool", "hold", "pullCool", "after", "login", "failed"}
    ~> task \in {"connect", "down", "dead"}

\* A stream that stays quiet is supplemented by a pull.
QuietStreamPulls == (task = "stream" /\ rxWait = 0) ~> (task # "stream" \/ rxWait > 0)

\* mercedes-upstream.md: ordinary transport reconnects double up to one hour.
\* It does not hold: see MercedesSession_reconnect.cfg.
ReconnectWithinMaximum ==
  [][task' = "cool" /\ task \in {"connect", "stream"} => cool' <= ReconnectMax]_vars

=============================================================================
