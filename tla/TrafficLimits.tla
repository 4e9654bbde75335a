--------------------------- MODULE TrafficLimits ---------------------------
(***************************************************************************)
(* TrafficLimits (dbus_ev/mercedes/traffic.py): the request limits of one  *)
(* Mercedes account, as functions of a record with the fields              *)
(*    pause   time left until requests are allowed again                   *)
(*    login   time left until an automatic login is allowed again          *)
(*    rate    the least pause the next HTTP 429 will bring                 *)
(*    failed  an automatic login failed and no manual one succeeded since  *)
(* The code keeps deadlines, monotonic in memory and wall-clock on disk;   *)
(* here a deadline is the time left to it, so a restart that recomputes    *)
(* the one from the other reads the same record back.                      *)
(***************************************************************************)
EXTENDS Integers

CONSTANTS
  RateMin,         \* RATE_LIMIT_MIN
  RateMax,         \* RATE_LIMIT_MAX
  LoginInterval,   \* LOGIN_INTERVAL
  NoHeader         \* a response without a Retry-After header

ASSUME LimitsAssumption ==
  /\ RateMin \in Nat \ {0} /\ RateMax \in Nat
  /\ RateMin <= RateMax
  /\ LoginInterval \in Nat \ {0}
  /\ NoHeader \notin Nat

Larger(a, b) == IF a >= b THEN a ELSE b
Smaller(a, b) == IF a <= b THEN a ELSE b

Limits == [pause : Nat, login : Nat, rate : RateMin..RateMax, failed : BOOLEAN]
NoLimits == [pause |-> 0, login |-> 0, rate |-> RateMin, failed |-> FALSE]

\* retry_delay: a Retry-After lengthens the client's own delay, never shortens it.
RetryDelay(retryAfter, minimum) ==
  IF retryAfter = NoHeader THEN minimum ELSE Larger(minimum, retryAfter)

\* pause: a shorter pause does not end a longer one.
Pause(m, delay) == [m EXCEPT !.pause = Larger(delay, @)]

\* rate_limited: each HTTP 429 doubles the least pause of the next one.
RateLimited(m, retryAfter) ==
  LET minimum == Larger(RateMin, m.rate)
  IN  Pause([m EXCEPT !.rate = Smaller(2 * minimum, RateMax)],
            RetryDelay(retryAfter, minimum))

\* healthy: a sustained stream ends the escalation.
Healthy(m) == [m EXCEPT !.rate = IF m.pause = 0 THEN RateMin ELSE @]

\* reserve_login: its condition, and its effect.
LoginAllowed(m) == m.pause = 0 /\ ~m.failed /\ m.login = 0
ReserveLogin(m) == [m EXCEPT !.login = LoginInterval]

LoginFailed(m) == [m EXCEPT !.failed = TRUE]
ManualLoginSucceeded(m) == [m EXCEPT !.failed = FALSE, !.login = LoginInterval]

\* One unit of time passes.
Less(n) == IF n = 0 THEN 0 ELSE n - 1
Elapsed(m) == [m EXCEPT !.pause = Less(@), !.login = Less(@)]

=============================================================================
