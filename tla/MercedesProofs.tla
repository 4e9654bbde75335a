--------------------------- MODULE MercedesProofs ---------------------------
(***************************************************************************)
(* Proofs about the two models of MercedesClient, for every value of their *)
(* constants.  MercedesSession: no request during a demanded pause,        *)
(* through crashes, restarts and manual logins; spaced and latched         *)
(* automatic logins; spaced pulls.  VehicleMerge: the buffer holds its own *)
(* epoch only, and what is on show is one epoch's, never ahead of the      *)
(* buffer when the stream of this epoch acquired it.                       *)
(***************************************************************************)
EXTENDS MercedesSession, VehicleMerge, TLAPS

-----------------------------------------------------------------------------
\* What the operations on the limits do to a record of limits.

\* A Retry-After only lengthens a delay.
LEMMA RetryDelayFacts ==
  ASSUME NEW after \in RetryAfters \cup {NoHeader}, NEW minimum \in Nat
  PROVE  RetryDelay(after, minimum) \in Nat /\ RetryDelay(after, minimum) >= minimum
  BY LimitsAssumption, SessionAssumption DEF RetryDelay, Larger

LEMMA RetryDelayMonotone ==
  ASSUME NEW after \in RetryAfters \cup {NoHeader}, NEW low \in Nat, NEW high \in Nat,
         low <= high
  PROVE  RetryDelay(after, low) <= RetryDelay(after, high)
  BY LimitsAssumption, SessionAssumption DEF RetryDelay, Larger

\* A pause lasts at least as long as asked and as the one it extends.
LEMMA PauseFacts ==
  ASSUME NEW m \in Limits, NEW delay \in Nat
  PROVE  /\ Pause(m, delay) \in Limits
         /\ Pause(m, delay).pause >= delay /\ Pause(m, delay).pause >= m.pause
         /\ Pause(m, delay).login = m.login
         /\ Pause(m, delay).rate = m.rate
         /\ Pause(m, delay).failed = m.failed
  BY DEF Pause, Limits, Larger

\* An HTTP 429 pauses for the current rate or longer, and doubles the rate.
LEMMA RateLimitedFacts ==
  ASSUME NEW m \in Limits, NEW after \in RetryAfters \cup {NoHeader}
  PROVE  /\ RateLimited(m, after) \in Limits
         /\ RateLimited(m, after).pause >= RetryDelay(after, m.rate)
         /\ RateLimited(m, after).pause >= m.rate
         /\ RateLimited(m, after).pause >= m.pause
         /\ RateLimited(m, after).login = m.login
         /\ RateLimited(m, after).rate = Smaller(2 * m.rate, RateMax)
         /\ RateLimited(m, after).failed = m.failed
<1> USE LimitsAssumption
<1>1. Larger(RateMin, m.rate) = m.rate /\ m.rate \in Nat
  BY DEF Larger, Limits
<1> DEFINE r == [m EXCEPT !.rate = Smaller(2 * m.rate, RateMax)]
<1>2. /\ r \in Limits /\ r.pause = m.pause /\ r.login = m.login
      /\ r.rate = Smaller(2 * m.rate, RateMax) /\ r.failed = m.failed
  BY DEF Limits, Smaller
<1>3. RateLimited(m, after) = Pause(r, RetryDelay(after, m.rate))
  BY <1>1 DEF RateLimited
<1>4. RetryDelay(after, m.rate) \in Nat /\ RetryDelay(after, m.rate) >= m.rate
  BY <1>1, RetryDelayFacts
<1> HIDE DEF r
<1>5. /\ Pause(r, RetryDelay(after, m.rate)) \in Limits
      /\ Pause(r, RetryDelay(after, m.rate)).pause >= RetryDelay(after, m.rate)
      /\ Pause(r, RetryDelay(after, m.rate)).pause >= r.pause
      /\ Pause(r, RetryDelay(after, m.rate)).login = r.login
      /\ Pause(r, RetryDelay(after, m.rate)).rate = r.rate
      /\ Pause(r, RetryDelay(after, m.rate)).failed = r.failed
  BY <1>2, <1>4, PauseFacts
<1>6. Pause(r, RetryDelay(after, m.rate)).pause >= m.rate
  <2>1. Pause(r, RetryDelay(after, m.rate)).pause \in Nat
    BY <1>5 DEF Limits
  <2> QED  BY <1>1, <1>4, <1>5, <2>1
<1> QED  BY <1>2, <1>3, <1>5, <1>6

\* The fields of a record of limits.
LEMMA LimitsFields ==
  ASSUME NEW m \in Limits
  PROVE  /\ m.pause \in Nat /\ m.login \in Nat
         /\ m.rate \in RateMin..RateMax /\ m.rate \in Nat /\ m.failed \in BOOLEAN
  BY LimitsAssumption DEF Limits

LEMMA NoPenaltyType == NoPenalty \in [limited : BOOLEAN, after : Headers]
  BY DEF NoPenalty, Headers

\* The remaining operations keep a record a record of limits and change the
\* fields they name.
LEMMA HealthyFacts ==
  ASSUME NEW m \in Limits
  PROVE  /\ Healthy(m) \in Limits /\ Healthy(m).pause = m.pause
         /\ Healthy(m).login = m.login /\ Healthy(m).failed = m.failed
         /\ Healthy(m).rate = IF m.pause = 0 THEN RateMin ELSE m.rate
  BY LimitsAssumption DEF Limits, Healthy

LEMMA LoginFacts ==
  ASSUME NEW m \in Limits
  PROVE  /\ ReserveLogin(m) \in Limits /\ ReserveLogin(m).pause = m.pause
         /\ ReserveLogin(m).login = LoginInterval
         /\ ReserveLogin(m).rate = m.rate /\ ReserveLogin(m).failed = m.failed
         /\ LoginFailed(m) \in Limits /\ LoginFailed(m).pause = m.pause
         /\ LoginFailed(m).login = m.login
         /\ LoginFailed(m).rate = m.rate /\ LoginFailed(m).failed = TRUE
  BY LimitsAssumption DEF Limits, ReserveLogin, LoginFailed

LEMMA ManualLoginFacts ==
  ASSUME NEW m \in Limits
  PROVE  /\ ManualLoginSucceeded(m) \in Limits
         /\ ManualLoginSucceeded(m).pause = m.pause
         /\ ManualLoginSucceeded(m).login = LoginInterval
         /\ ManualLoginSucceeded(m).rate = m.rate
  BY LimitsAssumption DEF Limits, ManualLoginSucceeded

LEMMA LessFacts ==
  ASSUME NEW n \in Nat
  PROVE  Less(n) \in Nat /\ Less(n) <= n /\ Less(n) + 1 >= n
  BY DEF Less

LEMMA ElapsedFacts ==
  ASSUME NEW m \in Limits
  PROVE  /\ Elapsed(m) \in Limits
         /\ Elapsed(m).pause = Less(m.pause) /\ Elapsed(m).login = Less(m.login)
         /\ Elapsed(m).rate = m.rate /\ Elapsed(m).failed = m.failed
<1>1. Less(m.pause) \in Nat /\ Less(m.login) \in Nat
  BY LimitsFields, LessFacts
<1> QED  BY <1>1 DEF Limits, Elapsed

-----------------------------------------------------------------------------
\* The inductive invariant, in named parts.

\* A live client and the login command never hold the lock together. What a
\* live client has in memory agrees with the file on logins, and covers what is
\* demanded; a failed save of a pause leaves more in memory than in the file.
Covers(m) == owed <= m.pause /\ level <= m.rate
LockInv ==
  /\ task \notin {"down", "dead"} =>
       /\ cli = "none"
       /\ mem.login = disk.login /\ mem.failed = disk.failed
       /\ Covers(mem)
  /\ cli # "none" => disk.pause = 0

\* The file covers every pause still demanded, and the next escalation.
PauseInv == Covers(disk)

\* The file remembers the last login and a failed one.
LoginInv == sinceLogin + disk.login >= LoginInterval /\ (latched => disk.failed)

\* Until a pull interval after the last pull, the schedule or a pause prevents
\* the next one.
PullInv ==
  /\ task \notin {"down", "dead", "pullStream", "pullCool"} =>
       \/ sincePull + pullIn >= PullInterval
       \/ sincePull + mem.pause >= PullInterval
  /\ pullRetry >= PullInterval

IInv == TypeOK /\ LockInv /\ PauseInv /\ LoginInv /\ PullInv

-----------------------------------------------------------------------------
\* What the three kinds of failure do to the limits of a live client.
LimitsHeld ==
  /\ mem' \in Limits /\ disk' \in Limits
  /\ mem'.login = mem.login /\ mem'.failed = mem.failed
  /\ disk'.login = disk.login /\ disk'.failed = disk.failed
  /\ owed' \in Nat /\ owed' <= mem'.pause /\ owed' <= disk'.pause
  /\ level' \in RateMin..RateMax /\ level' <= mem'.rate /\ level' <= disk'.rate
  /\ mem'.pause >= mem.pause

\* A live client: what the lemmas on failures need.
Live ==
  /\ mem \in Limits /\ disk \in Limits
  /\ mem.login = disk.login /\ mem.failed = disk.failed
  /\ owed \in Nat /\ owed <= mem.pause /\ owed <= disk.pause
  /\ level \in RateMin..RateMax /\ level <= mem.rate /\ level <= disk.rate

LEMMA LimitedStep ==
  ASSUME Live, NEW after \in Headers, LimitedBy(after)
  PROVE  LimitsHeld /\ mem'.pause >= RateMin
<1> USE LimitsAssumption
<1> DEFINE m == RateLimited(mem, after)
<1>1. /\ m \in Limits /\ m.pause >= RetryDelay(after, mem.rate) /\ m.pause >= mem.rate
      /\ m.pause >= mem.pause /\ m.login = mem.login /\ m.failed = mem.failed
      /\ m.rate = Smaller(2 * mem.rate, RateMax)
  BY RateLimitedFacts DEF Headers, Live
<1>2. mem' = m /\ disk' = m /\ owed' = Larger(owed, RetryDelay(after, level))
      /\ level' = Smaller(2 * level, RateMax)
  BY DEF LimitedBy, Saved, DemandAfter429
<1>3. /\ mem.rate \in RateMin..RateMax /\ mem.rate \in Nat
      /\ mem.pause \in Nat /\ m.pause \in Nat
      /\ level \in RateMin..RateMax /\ level \in Nat /\ level <= mem.rate
  BY <1>1, LimitsFields DEF Live
<1>4. RetryDelay(after, mem.rate) \in Nat /\ RetryDelay(after, level) \in Nat
  BY <1>3, RetryDelayFacts DEF Headers
<1>5. RetryDelay(after, level) <= RetryDelay(after, mem.rate)
  BY <1>3, RetryDelayMonotone DEF Headers
<1> HIDE DEF m
<1>6. owed' \in Nat /\ owed' <= m.pause
  BY <1>1, <1>2, <1>3, <1>4, <1>5 DEF Larger, Live
<1>7. level' \in RateMin..RateMax /\ level' <= m.rate
  BY <1>1, <1>2, <1>3 DEF Smaller
<1> QED  BY <1>1, <1>2, <1>3, <1>6, <1>7 DEF LimitsHeld, Live

LEMMA PausedStep ==
  ASSUME Live, NEW delay \in Nat, Saved(Pause(mem, delay)), Demand(delay), UNCHANGED level
  PROVE  LimitsHeld /\ mem'.pause >= delay
<1> USE LimitsAssumption
<1> DEFINE m == Pause(mem, delay)
<1>1. /\ m \in Limits /\ m.pause >= delay /\ m.pause >= mem.pause
      /\ m.login = mem.login /\ m.rate = mem.rate /\ m.failed = mem.failed
  BY PauseFacts DEF Live
<1>2. mem' = m /\ disk' = m /\ owed' = Larger(owed, delay) /\ level' = level
  BY DEF Saved, Demand
<1>3. /\ mem.rate \in RateMin..RateMax /\ mem.pause \in Nat /\ m.pause \in Nat
  BY <1>1, LimitsFields DEF Live
<1> HIDE DEF m
<1> QED  BY <1>1, <1>2, <1>3 DEF LimitsHeld, Larger, Live

LEMMA RefusedStep ==
  ASSUME Live, NEW after \in Headers, RefusedBy(after)
  PROVE  LimitsHeld /\ mem'.pause >= LoginInterval
<1> USE LimitsAssumption
<1>1. RetryDelay(after, LoginInterval) \in Nat
      /\ RetryDelay(after, LoginInterval) >= LoginInterval
  BY RetryDelayFacts DEF Headers
<1>2. LimitsHeld /\ mem'.pause >= RetryDelay(after, LoginInterval)
  BY <1>1, PausedStep DEF RefusedBy
<1>3. mem'.pause \in Nat
  BY <1>2, LimitsFields DEF LimitsHeld
<1> QED  BY <1>1, <1>2, <1>3

LEMMA BrokenStep ==
  ASSUME Live, NEW minimum \in Nat, NEW after \in Headers, BrokenBy(after, minimum)
  PROVE  /\ LimitsHeld
         /\ DelayOf(after, minimum) \in Nat /\ DelayOf(after, minimum) >= minimum
<1> USE LimitsAssumption
<1>1. CASE after = NoHeader
  <2>1. UNCHANGED <<mem, disk, owed, level>>
    BY <1>1 DEF BrokenBy, limitVars
  <2>2. mem.pause \in Nat
    BY LimitsFields DEF Live
  <2> QED  BY <1>1, <2>1, <2>2 DEF LimitsHeld, DelayOf, Live
<1>2. CASE after # NoHeader
  <2>1. RetryDelay(after, minimum) \in Nat /\ RetryDelay(after, minimum) >= minimum
    BY RetryDelayFacts DEF Headers
  <2>2. LimitsHeld /\ mem'.pause >= RetryDelay(after, minimum)
    BY <1>2, <2>1, PausedStep DEF BrokenBy
  <2>3. mem'.pause \in Nat
    BY <2>2, LimitsFields DEF LimitsHeld
  <2> QED  BY <1>2, <2>1, <2>2, <2>3 DEF DelayOf
<1> QED  BY <1>1, <1>2

-----------------------------------------------------------------------------

\* A live client that recorded a failure keeps the invariant, whatever it
\* scheduled next.
LEMMA FailureRecorded ==
  ASSUME IInv, LimitsHeld, task \notin {"down", "dead"},
         task' \in Tasks \ {"down", "dead"},
         retry' \in Nat, blocked' \in BOOLEAN, cool' \in Nat,
         pullIn' \in Nat, pullRetry' \in Nat, pullRetry' >= PullInterval,
         task' \notin {"pullStream", "pullCool"} =>
           sincePull + pullIn' >= PullInterval \/ sincePull + mem'.pause >= PullInterval,
         UNCHANGED <<cli, up, rxWait, sincePull, loginVars>>
  PROVE  IInv'
<1> USE LimitsAssumption, SessionAssumption DEF IInv, LimitsHeld, loginVars
<1>1. TypeOK'
  BY DEF TypeOK, Tasks, Headers
<1>2. LockInv'
  BY DEF LockInv, Covers
<1>3. PauseInv'
  BY DEF PauseInv, Covers
<1>4. LoginInv'
  BY DEF LoginInv
<1>5. PullInv'
  BY DEF PullInv
<1> QED  BY <1>1, <1>2, <1>3, <1>4, <1>5

\* The premises of the three lemmas on failures, for a live client.
LEMMA LiveFacts ==
  ASSUME IInv, task \notin {"down", "dead"}
  PROVE  /\ Live /\ mem \in Limits /\ cli = "none"
         /\ retry \in Nat /\ pullRetry \in Nat /\ pullRetry >= PullInterval
         /\ sincePull \in Nat
  BY SessionAssumption DEF IInv, TypeOK, LockInv, PauseInv, PullInv, Covers, Live

\* A pause that only grows keeps a pull away as well as before.
LEMMA PullStaysAway ==
  ASSUME IInv, LimitsHeld, task \notin {"down", "dead", "pullStream", "pullCool"}
  PROVE  /\ sincePull + pullIn >= PullInterval \/ sincePull + mem'.pause >= PullInterval
         /\ pullIn \in Nat
<1>1. mem.pause \in Nat /\ mem'.pause \in Nat
  BY LimitsFields DEF IInv, TypeOK, LimitsHeld
<1>2. mem'.pause >= mem.pause
  BY DEF LimitsHeld
<1>3. sincePull + pullIn >= PullInterval \/ sincePull + mem.pause >= PullInterval
  BY DEF IInv, PullInv
<1>4. sincePull \in Nat /\ pullIn \in Nat /\ PullInterval \in Nat
  BY SessionAssumption DEF IInv, TypeOK
<1> QED  BY <1>1, <1>2, <1>3, <1>4

LEMMA ConnectLimitedKeeps == IInv /\ ConnectLimited => IInv'
<1> SUFFICES ASSUME IInv, ConnectLimited  PROVE IInv'
  OBVIOUS
<1>1. PICK after \in Headers : LimitedBy(after)
  BY DEF ConnectLimited
<1>2. task = "connect"
  BY DEF ConnectLimited
<1>3. LimitsHeld
  BY <1>1, <1>2, LiveFacts, LimitedStep
<1>4. mem'.pause \in Nat
  BY <1>3, LimitsFields DEF LimitsHeld
<1>5. /\ task' \in {"hold", "cool"} /\ retry' \in Nat /\ cool' \in Nat
      /\ blocked' \in BOOLEAN /\ UNCHANGED <<cli, up, pullVars, loginVars>>
  BY <1>4 DEF ConnectLimited, EnterCooldown
<1>6. /\ sincePull + pullIn >= PullInterval \/ sincePull + mem'.pause >= PullInterval
      /\ pullIn \in Nat
  BY <1>2, <1>3, PullStaysAway
<1> QED
  BY <1>2, <1>3, <1>5, <1>6, LiveFacts, FailureRecorded DEF pullVars, Tasks

LEMMA ConnectRefusedKeeps == IInv /\ ConnectRefused => IInv'
<1> SUFFICES ASSUME IInv, ConnectRefused  PROVE IInv'
  OBVIOUS
<1>1. PICK after \in Headers : RefusedBy(after)
  BY DEF ConnectRefused
<1>2. task = "connect" /\ blocked \in BOOLEAN
  BY DEF ConnectRefused, IInv, TypeOK
<1>3. LimitsHeld
  BY <1>1, <1>2, LiveFacts, RefusedStep
<1>4. mem'.pause \in Nat
  BY <1>3, LimitsFields DEF LimitsHeld
<1>5. /\ task' \in {"hold", "cool"} /\ retry' \in Nat /\ cool' \in Nat
      /\ UNCHANGED <<cli, blocked, up, pullVars, loginVars>>
  BY <1>4 DEF ConnectRefused, EnterCooldown
<1>6. /\ sincePull + pullIn >= PullInterval \/ sincePull + mem'.pause >= PullInterval
      /\ pullIn \in Nat
  BY <1>2, <1>3, PullStaysAway
<1> QED
  BY <1>2, <1>3, <1>5, <1>6, LiveFacts, FailureRecorded DEF pullVars, Tasks

LEMMA ConnectFailsKeeps == IInv /\ ConnectFails => IInv'
<1> SUFFICES ASSUME IInv, ConnectFails  PROVE IInv'
  OBVIOUS
<1>1. PICK after \in Headers : BrokenBy(after, retry) /\ retry' = DelayOf(after, retry)
  BY DEF ConnectFails, TransportFails
<1>2. task = "connect" /\ blocked \in BOOLEAN
  BY DEF ConnectFails, TransportFails, IInv, TypeOK
<1>3. LimitsHeld /\ retry' \in Nat
  BY <1>1, <1>2, LiveFacts, BrokenStep
<1>4. mem'.pause \in Nat
  BY <1>3, LimitsFields DEF LimitsHeld
<1>5. /\ task' \in {"hold", "cool"} /\ cool' \in Nat
      /\ UNCHANGED <<cli, blocked, up, pullVars, loginVars>>
  BY <1>3, <1>4 DEF ConnectFails, TransportFails, EnterCooldown
<1>6. /\ sincePull + pullIn >= PullInterval \/ sincePull + mem'.pause >= PullInterval
      /\ pullIn \in Nat
  BY <1>2, <1>3, PullStaysAway
<1> QED
  BY <1>2, <1>3, <1>5, <1>6, LiveFacts, FailureRecorded DEF pullVars, Tasks

LEMMA PullFailsKeeps == IInv /\ PullFails => IInv'
<1> SUFFICES ASSUME IInv, PullFails  PROVE IInv'
  OBVIOUS
<1> USE LimitsAssumption, SessionAssumption
<1>1. task \in {"pullStream", "pullCool"} /\ task' \in {"stream", "cool"}
  BY DEF PullFails, PullReturns
<1>2. PullBackoff \in Nat /\ PullBackoff >= PullInterval
  BY <1>1, LiveFacts DEF PullBackoff, Smaller
<1>3. LimitsHeld /\ pullRetry' \in Nat /\ pullRetry' >= PullInterval
  <2>1. PICK after \in Headers :
          \/ LimitedBy(after) /\ pullRetry' = mem'.pause
          \/ RefusedBy(after) /\ pullRetry' = mem'.pause
          \/ BrokenBy(after, PullBackoff) /\ pullRetry' = DelayOf(after, PullBackoff)
    BY DEF PullFails
  <2>2. CASE LimitedBy(after) /\ pullRetry' = mem'.pause
    <3>1. LimitsHeld /\ mem'.pause >= RateMin
      BY <1>1, <2>2, LiveFacts, LimitedStep
    <3>2. mem'.pause \in Nat
      BY <3>1, LimitsFields DEF LimitsHeld
    <3> QED  BY <2>2, <3>1, <3>2
  <2>3. CASE RefusedBy(after) /\ pullRetry' = mem'.pause
    <3>1. LimitsHeld /\ mem'.pause >= LoginInterval
      BY <1>1, <2>3, LiveFacts, RefusedStep
    <3>2. mem'.pause \in Nat
      BY <3>1, LimitsFields DEF LimitsHeld
    <3> QED  BY <2>3, <3>1, <3>2
  <2>4. CASE BrokenBy(after, PullBackoff) /\ pullRetry' = DelayOf(after, PullBackoff)
    <3>1. LimitsHeld /\ pullRetry' \in Nat /\ pullRetry' >= PullBackoff
      BY <1>1, <1>2, <2>4, LiveFacts, BrokenStep
    <3> QED  BY <1>2, <3>1
  <2> QED  BY <2>1, <2>2, <2>3, <2>4
<1>4. /\ pullIn' = pullRetry' /\ sincePull \in Nat
      /\ UNCHANGED <<cli, rxWait, sincePull, serveVars, loginVars>>
  BY <1>1, LiveFacts DEF PullFails
<1>5. retry' \in Nat /\ blocked' \in BOOLEAN /\ cool' \in Nat
  BY <1>4 DEF IInv, TypeOK, serveVars
<1>6. pullIn' \in Nat /\ sincePull + pullIn' >= PullInterval
  <2>1. pullIn' = pullRetry' /\ sincePull \in Nat
    BY <1>4
  <2>2. pullRetry' \in Nat /\ pullRetry' >= PullInterval
    BY <1>3
  <2>3. \A a, b \in Nat : b >= PullInterval => a + b >= PullInterval
    OBVIOUS
  <2> QED  BY <2>1, <2>2, <2>3
<1>7. UNCHANGED <<cli, up, rxWait, sincePull, loginVars>>
  BY <1>4 DEF serveVars
<1>8. task \notin {"down", "dead"} /\ task' \in Tasks \ {"down", "dead"}
  BY <1>1 DEF Tasks
<1> QED
  BY <1>3, <1>5, <1>6, <1>7, <1>8, FailureRecorded

LEMMA RecoveryPausesKeeps == IInv /\ RecoveryPauses => IInv'
<1> SUFFICES ASSUME IInv, RecoveryPauses  PROVE IInv'
  OBVIOUS
<1> USE LimitsAssumption, SessionAssumption
<1> DEFINE after == penalty.after
           wait  == RetryDelay(after, LoginInterval)
           r     == IF penalty.limited THEN RateLimited(mem, after) ELSE mem
           m     == Pause(r, wait)
<1>1. task = "failed" /\ task' = "wait" /\ penalty.after \in Headers
  BY DEF RecoveryPauses, IInv, TypeOK
<1>2. wait \in Nat
  BY <1>1, RetryDelayFacts DEF Headers
<1>3. Live /\ mem \in Limits
  BY <1>1, LiveFacts
<1>4. /\ mem.pause \in Nat /\ mem.rate \in Nat /\ mem.rate \in RateMin..RateMax
      /\ level \in RateMin..RateMax /\ level \in Nat /\ level <= mem.rate
  BY <1>3, LimitsFields DEF Live
<1>5. /\ r \in Limits /\ r.pause >= mem.pause /\ r.login = mem.login
      /\ r.failed = mem.failed
      /\ penalty.limited => r.pause >= mem.rate /\ r.rate = Smaller(2 * mem.rate, RateMax)
      /\ ~penalty.limited => r.rate = mem.rate
  <2>1. CASE penalty.limited
    <3>1. r = RateLimited(mem, after)
      BY <2>1
    <3> QED  BY <1>1, <1>3, <2>1, <3>1, RateLimitedFacts DEF Headers
  <2>2. CASE ~penalty.limited
    BY <1>3, <1>4, <2>2
  <2> QED  BY <2>1, <2>2
<1>6. r.pause \in Nat
  BY <1>5, LimitsFields
<1> HIDE DEF r, wait
<1>7. /\ m \in Limits /\ m.pause >= wait /\ m.pause >= r.pause
      /\ m.login = r.login /\ m.rate = r.rate /\ m.failed = r.failed
  BY <1>2, <1>5, PauseFacts
<1>8. m.pause \in Nat
  BY <1>7, LimitsFields
<1>9. /\ mem' = m /\ disk' = m
      /\ owed' = Larger(owed, Larger(wait, IF penalty.limited THEN level ELSE 0))
      /\ level' = IF penalty.limited THEN Smaller(2 * level, RateMax) ELSE level
      /\ penalty' = NoPenalty /\ retry' = NextRetry
      /\ UNCHANGED <<cli, pullVars, blocked, up, cool, recoveryFailed, sinceLogin, latched>>
  BY DEF RecoveryPauses, Saved, r, wait
<1> HIDE DEF m
<1>10. owed' \in Nat /\ owed' <= m.pause
  BY <1>2, <1>3, <1>4, <1>5, <1>6, <1>7, <1>8, <1>9 DEF Larger, Live
<1>11. level' <= m.rate /\ level' \in RateMin..RateMax
  BY <1>3, <1>4, <1>5, <1>7, <1>9 DEF Smaller
<1>12. retry' \in Nat
  BY <1>9 DEF NextRetry, Smaller, IInv, TypeOK
<1>13. TypeOK'
  BY <1>1, <1>7, <1>9, <1>10, <1>11, <1>12
  DEF IInv, TypeOK, Tasks, NoPenalty, Headers, pullVars
<1>14. LockInv'
  BY <1>1, <1>9, <1>10, <1>11, LiveFacts DEF LockInv, Covers
<1>15. PauseInv'
  BY <1>9, <1>10, <1>11 DEF PauseInv, Covers
<1>16. LoginInv'
  BY <1>3, <1>5, <1>7, <1>9 DEF IInv, LoginInv, Live
<1>17. PullInv'
  <2>1. LimitsHeld
    BY <1>3, <1>4, <1>5, <1>6, <1>7, <1>8, <1>9, <1>10, <1>11 DEF LimitsHeld, Live
  <2>2. sincePull + pullIn >= PullInterval \/ sincePull + mem'.pause >= PullInterval
    BY <1>1, <2>1, PullStaysAway
  <2> QED  BY <1>1, <1>9, <2>2 DEF IInv, PullInv, pullVars
<1> QED  BY <1>13, <1>14, <1>15, <1>16, <1>17 DEF IInv

LEMMA StreamEndsKeeps == IInv /\ StreamEnds => IInv'
<1> SUFFICES ASSUME IInv, StreamEnds  PROVE IInv'
  OBVIOUS
<1> USE LimitsAssumption, SessionAssumption
<1>1. task = "stream"
  BY DEF StreamEnds
<1>2. mem.pause \in Nat /\ mem.rate \in RateMin..RateMax
  BY <1>1, LiveFacts, LimitsFields
<1>3. LimitsHeld /\ retry' \in Nat
  <2>1. CASE Sustained /\ mem.pause = 0 /\ mem.rate # RateMin
    <3>1. /\ mem' = Healthy(mem) /\ disk' \in {disk, Healthy(mem)} /\ owed' = owed
          /\ retry' = ReconnectMin /\ level' = RateMin
      <4>1. up = HealthyTime
        BY <2>1 DEF Sustained, IInv, TypeOK
      <4> QED BY <2>1, <4>1 DEF StreamEnds, RecordHealthy, Saved, SavedInMemory
    <3>2. /\ Healthy(mem) \in Limits /\ Healthy(mem).pause = mem.pause
          /\ Healthy(mem).login = mem.login /\ Healthy(mem).failed = mem.failed
          /\ Healthy(mem).rate = RateMin
      BY <1>1, <2>1, LiveFacts, HealthyFacts
    <3>3. disk.rate \in RateMin..RateMax
      BY LimitsFields DEF IInv, TypeOK
    <3> QED  BY <1>1, <1>2, <3>1, <3>2, <3>3, LiveFacts DEF LimitsHeld, Live
  <2>2. CASE ~(Sustained /\ mem.pause = 0 /\ mem.rate # RateMin)
    <3>1. UNCHANGED <<mem, disk, level, owed>> /\ retry' \in {retry, ReconnectMin}
      BY <2>2 DEF StreamEnds, RecordHealthy, limitVars
    <3> QED  BY <1>1, <1>2, <3>1, LiveFacts DEF LimitsHeld, Live
  <2> QED  BY <2>1, <2>2
<1>4. /\ task' \in {"hold", "cool"} /\ cool' \in Nat
      /\ UNCHANGED <<cli, blocked, up, pullVars, loginVars>>
  BY <1>3 DEF StreamEnds, EnterCooldown
<1>5. /\ sincePull + pullIn >= PullInterval \/ sincePull + mem'.pause >= PullInterval
      /\ pullIn \in Nat
  BY <1>1, <1>3, PullStaysAway
<1>6. blocked \in BOOLEAN
  BY DEF IInv, TypeOK
<1> QED
  BY <1>1, <1>3, <1>4, <1>5, <1>6, LiveFacts, FailureRecorded DEF pullVars, Tasks

\* A pause that only memory has still keeps the next pull away.
LEMMA PullSaveFailsKeeps == IInv /\ PullSaveFails => IInv'
<1> SUFFICES ASSUME IInv, PullSaveFails  PROVE IInv'
  OBVIOUS
<1> USE LimitsAssumption, SessionAssumption
<1>1. PICK m \in PullPauses : SavedInMemory(m) /\ EnterCooldown(m, retry)
  BY DEF PullSaveFails
<1>2. task = "pullStream" /\ UNCHANGED <<cli, pullVars, retry, blocked, up, loginVars, historyVars>>
  BY DEF PullSaveFails
<1>3. mem \in Limits /\ mem.pause \in Nat /\ mem.rate \in RateMin..RateMax /\ mem.rate \in Nat
  BY <1>2, LiveFacts, LimitsFields
<1>4. PullBackoff \in Nat /\ PullBackoff >= PullInterval
  BY <1>2, LiveFacts DEF PullBackoff, Smaller
<1>5. /\ m \in Limits /\ m.pause >= mem.pause /\ m.pause >= PullInterval
      /\ m.login = mem.login /\ m.failed = mem.failed /\ m.rate >= mem.rate
  <2>1. CASE \E after \in Headers : m = RateLimited(mem, after)
    <3>1. PICK after \in Headers : m = RateLimited(mem, after)
      BY <2>1
    <3>2. /\ m \in Limits /\ m.pause >= mem.rate /\ m.pause >= mem.pause
          /\ m.login = mem.login /\ m.failed = mem.failed
          /\ m.rate = Smaller(2 * mem.rate, RateMax)
      BY <1>3, <3>1, RateLimitedFacts DEF Headers
    <3>3. m.pause \in Nat
      BY <3>2, LimitsFields
    <3> QED  BY <1>3, <3>2, <3>3 DEF Smaller
  <2>2. ASSUME NEW after \in Headers, NEW minimum \in Nat, minimum >= PullInterval,
               m = Pause(mem, RetryDelay(after, minimum))
        PROVE  /\ m \in Limits /\ m.pause >= mem.pause /\ m.pause >= PullInterval
               /\ m.login = mem.login /\ m.failed = mem.failed /\ m.rate >= mem.rate
    <3>1. RetryDelay(after, minimum) \in Nat /\ RetryDelay(after, minimum) >= minimum
      BY RetryDelayFacts DEF Headers
    <3>2. /\ m \in Limits /\ m.pause >= RetryDelay(after, minimum) /\ m.pause >= mem.pause
          /\ m.login = mem.login /\ m.rate = mem.rate /\ m.failed = mem.failed
      BY <1>3, <2>2, <3>1, PauseFacts
    <3>3. m.pause \in Nat
      BY <3>2, LimitsFields
    <3> QED  BY <1>3, <2>2, <3>1, <3>2, <3>3
  <2>3. CASE \E after \in Headers : m = Pause(mem, RetryDelay(after, LoginInterval))
    BY <2>2, <2>3
  <2>4. CASE \E after \in RetryAfters : m = Pause(mem, RetryDelay(after, PullBackoff))
    BY <1>4, <2>2, <2>4 DEF Headers
  <2> QED  BY <1>1, <2>1, <2>3, <2>4 DEF PullPauses
<1> HIDE DEF PullPauses
<1>6. mem' = m /\ UNCHANGED <<disk, owed, level>>
  BY <1>1, <1>2 DEF SavedInMemory, historyVars
<1>7. m.pause \in Nat /\ m.rate \in Nat
  BY <1>5, LimitsFields
<1>8. LimitsHeld
  BY <1>2, <1>3, <1>5, <1>6, <1>7, LiveFacts DEF LimitsHeld, Live
<1>9. /\ task' \in {"hold", "cool"} /\ cool' \in Nat /\ retry \in Nat
      /\ blocked \in BOOLEAN /\ pullIn \in Nat /\ sincePull \in Nat
  BY <1>1, <1>2, LiveFacts DEF EnterCooldown, IInv, TypeOK
<1>10. sincePull + mem'.pause >= PullInterval
  BY <1>5, <1>6, <1>7, <1>9
<1> QED
  BY <1>2, <1>8, <1>9, <1>10, LiveFacts, FailureRecorded DEF pullVars, Tasks

LEMMA RecoverKeeps == IInv /\ Recover => IInv'
<1> SUFFICES ASSUME IInv, Recover  PROVE IInv'
  OBVIOUS
<1> USE LimitsAssumption, SessionAssumption
<1> DEFINE m == ReserveLogin(mem)
<1>1. task = "after" /\ task' = "login" /\ mem' = m /\ disk' = m /\ sinceLogin' = 0
      /\ UNCHANGED <<cli, pullVars, serveVars, recoveryFailed, penalty, latched, historyVars>>
  BY DEF Recover, Saved
<1>2. m \in Limits /\ m.pause = mem.pause /\ m.login = LoginInterval
      /\ m.rate = mem.rate /\ m.failed = mem.failed
  BY <1>1, LiveFacts, LoginFacts
<1> HIDE DEF m
<1>3. TypeOK'
  BY <1>1, <1>2 DEF IInv, TypeOK, Tasks, Headers, pullVars, serveVars, historyVars
<1>4. LockInv'
  BY <1>1, <1>2, LiveFacts DEF LockInv, Covers, Live, historyVars
<1>5. PauseInv' /\ LoginInv'
  BY <1>1, <1>2, LiveFacts DEF IInv, PauseInv, LoginInv, Covers, Live, historyVars
<1>6. PullInv'
  BY <1>1, <1>2 DEF IInv, PullInv, pullVars
<1> QED  BY <1>3, <1>4, <1>5, <1>6 DEF IInv

LEMMA RecoveryFailsKeeps == IInv /\ RecoveryFails => IInv'
<1> SUFFICES ASSUME IInv, RecoveryFails  PROVE IInv'
  OBVIOUS
<1> USE LimitsAssumption, SessionAssumption
<1> DEFINE m == LoginFailed(mem)
<1>1. task = "login" /\ task' = "failed" /\ mem' = m /\ disk' = m
      /\ recoveryFailed' = TRUE /\ latched' = TRUE
      /\ penalty' \in [limited : BOOLEAN, after : Headers]
      /\ UNCHANGED <<cli, pullVars, serveVars, sinceLogin, historyVars>>
  BY DEF RecoveryFails, Saved
<1>2. m \in Limits /\ m.pause = mem.pause /\ m.login = mem.login
      /\ m.rate = mem.rate /\ m.failed = TRUE
  BY <1>1, LiveFacts, LoginFacts
<1> HIDE DEF m
<1>3. TypeOK'
  BY <1>1, <1>2 DEF IInv, TypeOK, Tasks, pullVars, serveVars, historyVars
<1>4. LockInv'
  BY <1>1, <1>2, LiveFacts DEF LockInv, Covers, Live, historyVars
<1>5. PauseInv' /\ LoginInv'
  BY <1>1, <1>2, LiveFacts DEF IInv, PauseInv, LoginInv, Covers, Live, historyVars
<1>6. PullInv'
  BY <1>1, <1>2 DEF IInv, PullInv, pullVars
<1> QED  BY <1>3, <1>4, <1>5, <1>6 DEF IInv

\* While the login command runs, the client is not alive.
LEMMA CliFacts ==
  ASSUME IInv, cli # "none"
  PROVE  /\ task \in {"down", "dead"} /\ disk \in Limits /\ disk.pause = 0
         /\ owed \in Nat /\ owed <= disk.pause
         /\ level \in RateMin..RateMax /\ level <= disk.rate
  BY DEF IInv, TypeOK, LockInv, PauseInv, Covers

\* The login command that changes the file keeps the invariant.
LEMMA CliKeeps ==
  ASSUME IInv, cli # "none", cli' = "none", CliUnchanged,
         disk' \in Limits, owed' \in Nat, owed' <= disk'.pause,
         level' \in RateMin..RateMax, level' <= disk'.rate,
         sinceLogin' \in 0..LoginInterval, latched' \in BOOLEAN, LoginInv'
  PROVE  IInv'
<1> USE LimitsAssumption, SessionAssumption DEF CliUnchanged
<1>1. task \in {"down", "dead"} /\ task' = task
  BY CliFacts
<1>2. TypeOK'
  BY DEF IInv, TypeOK, pullVars, serveVars, Headers
<1>3. LockInv' /\ PauseInv'
  BY <1>1 DEF LockInv, PauseInv, Covers
<1>4. PullInv'
  BY <1>1 DEF IInv, PullInv, pullVars
<1> QED  BY <1>2, <1>3, <1>4 DEF IInv

LEMMA CliSucceedsKeeps == IInv /\ CliSucceeds => IInv'
<1> SUFFICES ASSUME IInv, CliSucceeds  PROVE IInv'
  OBVIOUS
<1> USE LimitsAssumption, SessionAssumption
<1> DEFINE m == ManualLoginSucceeded(disk)
<1>1. cli = "login" /\ cli' = "none" /\ CliUnchanged /\ disk' = m
      /\ sinceLogin' = 0 /\ latched' = FALSE /\ owed' = owed /\ level' = level
  BY DEF CliSucceeds
<1>2. m \in Limits /\ m.pause = disk.pause /\ m.login = LoginInterval /\ m.rate = disk.rate
  BY <1>1, CliFacts, ManualLoginFacts
<1> HIDE DEF m
<1>3. LoginInv'
  BY <1>1, <1>2 DEF LoginInv
<1>4. /\ level' \in RateMin..RateMax /\ sinceLogin' \in 0..LoginInterval
      /\ latched' \in BOOLEAN
  <2>1. latched' \in BOOLEAN
    BY <1>1, Zenon
  <2>2. level' \in RateMin..RateMax /\ sinceLogin' \in 0..LoginInterval
    BY <1>1 DEF IInv, TypeOK
  <2> QED  BY <2>1, <2>2
<1>5. owed' \in Nat /\ owed' <= disk'.pause /\ level' <= disk'.rate
  BY <1>1, <1>2, CliFacts
<1>6. disk' \in Limits /\ cli # "none"
  BY <1>1, <1>2
<1> QED  BY <1>1, <1>3, <1>4, <1>5, <1>6, CliKeeps

LEMMA CliLimitedKeeps == IInv /\ CliLimited => IInv'
<1> SUFFICES ASSUME IInv, CliLimited  PROVE IInv'
  OBVIOUS
<1> USE LimitsAssumption, SessionAssumption
<1>1. PICK after \in Headers : disk' = RateLimited(disk, after) /\ DemandAfter429(after)
  BY DEF CliLimited
<1>2. cli = "login" /\ cli' = "none" /\ CliUnchanged
      /\ sinceLogin' = sinceLogin /\ latched' = latched
  BY DEF CliLimited
<1> DEFINE m == RateLimited(disk, after)
<1>3. /\ m \in Limits /\ m.pause >= RetryDelay(after, disk.rate) /\ m.pause >= disk.pause
      /\ m.login = disk.login /\ m.failed = disk.failed
      /\ m.rate = Smaller(2 * disk.rate, RateMax)
  BY <1>2, CliFacts, RateLimitedFacts DEF Headers
<1>4. disk' = m /\ owed' = Larger(owed, RetryDelay(after, level))
      /\ level' = Smaller(2 * level, RateMax)
  BY <1>1 DEF DemandAfter429
<1>5. /\ disk.rate \in RateMin..RateMax /\ disk.rate \in Nat
      /\ disk.pause \in Nat /\ m.pause \in Nat
      /\ level \in RateMin..RateMax /\ level \in Nat /\ level <= disk.rate
  BY <1>2, <1>3, CliFacts, LimitsFields
<1>6. /\ RetryDelay(after, disk.rate) \in Nat /\ RetryDelay(after, level) \in Nat
      /\ RetryDelay(after, level) <= RetryDelay(after, disk.rate)
  BY <1>5, RetryDelayFacts, RetryDelayMonotone DEF Headers
<1> HIDE DEF m
<1>7. owed' \in Nat /\ owed' <= m.pause
  BY <1>2, <1>3, <1>4, <1>5, <1>6, CliFacts DEF Larger
<1>8. level' \in RateMin..RateMax /\ level' <= m.rate
  BY <1>3, <1>4, <1>5 DEF Smaller
<1>9. LoginInv' /\ sinceLogin' \in 0..LoginInterval /\ latched' \in BOOLEAN
  BY <1>2, <1>3, <1>4 DEF IInv, TypeOK, LoginInv
<1> QED  BY <1>2, <1>3, <1>4, <1>7, <1>8, <1>9, CliFacts, CliKeeps

\* A process that starts reads the limits of the file.
LEMMA StartKeeps == IInv /\ Start => IInv'
<1> SUFFICES ASSUME IInv, Start  PROVE IInv'
  OBVIOUS
<1> USE LimitsAssumption, SessionAssumption DEF Start
<1>1. TypeOK'
  <2>1. (blocked \in BOOLEAN)' /\ (recoveryFailed \in BOOLEAN)'
        /\ (latched \in BOOLEAN)'
    BY Zenon DEF IInv, TypeOK
  <2>2. (penalty \in [limited : BOOLEAN, after : Headers])'
    BY NoPenaltyType, Zenon DEF Start, Headers
  <2>3. /\ task' \in Tasks /\ cli' \in {"none", "prompt", "login"}
        /\ mem' \in Limits /\ disk' \in Limits
        /\ retry' \in Nat /\ up' \in 0..HealthyTime /\ cool' \in Nat
        /\ pullIn' \in Nat /\ rxWait' \in 0..PullInterval /\ pullRetry' \in Nat
        /\ owed' \in Nat /\ level' \in RateMin..RateMax
        /\ sinceLogin' \in 0..LoginInterval /\ sincePull' \in 0..PullInterval
    BY DEF IInv, TypeOK, Tasks, historyVars
  <2> QED  BY <2>1, <2>2, <2>3 DEF TypeOK
<1>2. LockInv'
  BY DEF IInv, PauseInv, LockInv, Covers, historyVars
<1>3. PauseInv' /\ LoginInv'
  BY DEF IInv, PauseInv, LoginInv, Covers, historyVars
<1>4. PullInv'
  BY DEF PullInv
<1> QED  BY <1>1, <1>2, <1>3, <1>4 DEF IInv

\* A unit of time shortens every debt and every cover of it alike.
LEMMA ElapseKeeps == IInv /\ Elapse => IInv'
<1> SUFFICES ASSUME IInv, Elapse  PROVE IInv'
  OBVIOUS
<1> USE LimitsAssumption, SessionAssumption
<1>1. /\ mem' = Elapsed(mem) /\ disk' = Elapsed(disk)
      /\ up' = IF task \in {"stream", "pullStream"} THEN Smaller(up + 1, HealthyTime) ELSE up
      /\ cool' = Less(cool) /\ pullIn' = Less(pullIn) /\ rxWait' = Less(rxWait)
      /\ owed' = Less(owed)
      /\ sinceLogin' = Smaller(sinceLogin + 1, LoginInterval)
      /\ sincePull' = Smaller(sincePull + 1, PullInterval)
      /\ UNCHANGED <<task, cli, retry, blocked, pullRetry, recoveryFailed, penalty,
                     latched, level>>
  BY DEF Elapse
<1>2. /\ mem' \in Limits /\ disk' \in Limits
      /\ disk'.pause = Less(disk.pause) /\ disk'.login = Less(disk.login)
      /\ disk'.rate = disk.rate /\ disk'.failed = disk.failed
      /\ mem'.pause = Less(mem.pause) /\ mem'.login = Less(mem.login)
      /\ mem'.rate = mem.rate /\ mem'.failed = mem.failed
  BY <1>1, ElapsedFacts DEF IInv, TypeOK
<1>3. disk.pause \in Nat /\ disk.login \in Nat /\ mem.pause \in Nat /\ mem.login \in Nat
  BY LimitsFields DEF IInv, TypeOK
<1>4. TypeOK'
  <2>1. cool' \in Nat /\ pullIn' \in Nat /\ rxWait' \in 0..PullInterval /\ owed' \in Nat
    BY <1>1, LessFacts DEF IInv, TypeOK, Less
  <2>2. up' \in 0..HealthyTime /\ sinceLogin' \in 0..LoginInterval
        /\ sincePull' \in 0..PullInterval
    BY <1>1 DEF IInv, TypeOK, Smaller
  <2> QED  BY <1>1, <1>2, <2>1, <2>2 DEF IInv, TypeOK, Headers
<1>5. LockInv'
  BY <1>1, <1>2, <1>3 DEF IInv, TypeOK, LockInv, Covers, Less
<1>6. PauseInv'
  BY <1>1, <1>2, <1>3 DEF IInv, TypeOK, PauseInv, Covers, Less
<1>7. LoginInv'
  BY <1>1, <1>2, <1>3 DEF IInv, TypeOK, LoginInv, Less, Smaller
<1>8. PullInv'
  BY <1>1, <1>2, <1>3 DEF IInv, TypeOK, PullInv, Less, Smaller
<1> QED  BY <1>4, <1>5, <1>6, <1>7, <1>8 DEF IInv

-----------------------------------------------------------------------------
\* Every step keeps the variables in their types.
LEMMA TypePreserved ==
  ASSUME IInv, [Next]_vars
  PROVE  TypeOK'
<1> USE LimitsAssumption, SessionAssumption DEF IInv, TypeOK, Headers, Tasks,
      Smaller, limitVars, pullVars, serveVars, loginVars, historyVars
<1>1. CASE Start  BY <1>1, StartKeeps DEF IInv
<1>2. CASE Down  BY <1>2 DEF Down
<1>3. CASE SaveFails  BY <1>3 DEF SaveFails
<1>4. CASE PullSaveFails  BY <1>4, PullSaveFailsKeeps DEF IInv
<1>5. CASE Connect  BY <1>5 DEF Connect, MayRequest
<1>6. CASE Connected  BY <1>6 DEF Connected
<1>7. CASE ConnectLimited  BY <1>7, ConnectLimitedKeeps DEF IInv
<1>8. CASE ConnectRefused  BY <1>8, ConnectRefusedKeeps DEF IInv
<1>9. CASE ConnectFails  BY <1>9, ConnectFailsKeeps DEF IInv
<1>10. CASE StreamEnds  BY <1>10, StreamEndsKeeps DEF IInv
<1>11. CASE StreamRaises  BY <1>11 DEF StreamRaises, EnterCooldown
<1>12. CASE SendPull  BY <1>12 DEF SendPull, PullDue
<1>13. CASE PullSucceeds  BY <1>13 DEF PullSucceeds, PullReturns
<1>14. CASE PullFails  BY <1>14, PullFailsKeeps DEF IInv
<1>15. CASE CooldownEnds  BY <1>15 DEF CooldownEnds
<1>16. CASE NoRecovery  BY <1>16 DEF NoRecovery, MayRecover, NextRetry
<1>17. CASE Recover  BY <1>17, RecoverKeeps DEF IInv
<1>18. CASE RecoverySucceeds  BY <1>18 DEF RecoverySucceeds
<1>19. CASE RecoveryFails  BY <1>19, RecoveryFailsKeeps DEF IInv
<1>20. CASE RecoveryPauses  BY <1>20, RecoveryPausesKeeps DEF IInv
<1>21. CASE Message  BY <1>21 DEF Message
<1>22. CASE CliStart  BY <1>22 DEF CliStart, CliUnchanged
<1>23. CASE CliSends  BY <1>23 DEF CliSends, CliUnchanged
<1>24. CASE CliSucceeds  BY <1>24, CliSucceedsKeeps DEF IInv
<1>25. CASE CliLimited  BY <1>25, CliLimitedKeeps DEF IInv
<1>26. CASE CliEnds  BY <1>26 DEF CliEnds, CliUnchanged
<1>27. CASE Elapse  BY <1>27, ElapseKeeps DEF IInv
<1>28. CASE UNCHANGED vars  BY <1>28 DEF vars
<1> QED
  BY <1>1, <1>2, <1>3, <1>4, <1>5, <1>6, <1>7, <1>8, <1>9, <1>10, <1>11, <1>12,
        <1>13, <1>14, <1>15, <1>16, <1>17, <1>18, <1>19, <1>20, <1>21, <1>22,
        <1>23, <1>24, <1>25, <1>26, <1>27, <1>28
  DEF Next, ServeNext, CliNext

\* The owner of the lock is the only one to touch the limits.
LEMMA LockPreserved ==
  ASSUME IInv, [Next]_vars
  PROVE  LockInv'
<1> USE LimitsAssumption, SessionAssumption DEF IInv, LockInv, Covers, limitVars,
      pullVars, serveVars, loginVars, historyVars
<1>1. CASE Start  BY <1>1, StartKeeps DEF IInv
<1>2. CASE Down  BY <1>2 DEF Down
<1>3. CASE SaveFails  BY <1>3 DEF SaveFails
<1>4. CASE PullSaveFails  BY <1>4, PullSaveFailsKeeps DEF IInv
<1>5. CASE Connect  BY <1>5 DEF Connect, MayRequest
<1>6. CASE Connected  BY <1>6 DEF Connected
<1>7. CASE ConnectLimited  BY <1>7, ConnectLimitedKeeps DEF IInv
<1>8. CASE ConnectRefused  BY <1>8, ConnectRefusedKeeps DEF IInv
<1>9. CASE ConnectFails  BY <1>9, ConnectFailsKeeps DEF IInv
<1>10. CASE StreamEnds  BY <1>10, StreamEndsKeeps DEF IInv
<1>11. CASE StreamRaises  BY <1>11 DEF StreamRaises, EnterCooldown
<1>12. CASE SendPull  BY <1>12 DEF SendPull, PullDue
<1>13. CASE PullSucceeds  BY <1>13 DEF PullSucceeds, PullReturns
<1>14. CASE PullFails  BY <1>14, PullFailsKeeps DEF IInv
<1>15. CASE CooldownEnds  BY <1>15 DEF CooldownEnds
<1>16. CASE NoRecovery  BY <1>16 DEF NoRecovery, MayRecover, NextRetry
<1>17. CASE Recover  BY <1>17, RecoverKeeps DEF IInv
<1>18. CASE RecoverySucceeds  BY <1>18 DEF RecoverySucceeds
<1>19. CASE RecoveryFails  BY <1>19, RecoveryFailsKeeps DEF IInv
<1>20. CASE RecoveryPauses  BY <1>20, RecoveryPausesKeeps DEF IInv
<1>21. CASE Message  BY <1>21 DEF Message
<1>22. CASE CliStart  BY <1>22 DEF CliStart, CliUnchanged
<1>23. CASE CliSends  BY <1>23 DEF CliSends, CliUnchanged
<1>24. CASE CliSucceeds  BY <1>24, CliSucceedsKeeps DEF IInv
<1>25. CASE CliLimited  BY <1>25, CliLimitedKeeps DEF IInv
<1>26. CASE CliEnds  BY <1>26 DEF CliEnds, CliUnchanged
<1>27. CASE Elapse  BY <1>27, ElapseKeeps DEF IInv
<1>28. CASE UNCHANGED vars  BY <1>28 DEF vars
<1> QED
  BY <1>1, <1>2, <1>3, <1>4, <1>5, <1>6, <1>7, <1>8, <1>9, <1>10, <1>11, <1>12,
        <1>13, <1>14, <1>15, <1>16, <1>17, <1>18, <1>19, <1>20, <1>21, <1>22,
        <1>23, <1>24, <1>25, <1>26, <1>27, <1>28
  DEF Next, ServeNext, CliNext

\* The file covers every pause demanded, and knows the escalation.
LEMMA PausePreserved ==
  ASSUME IInv, [Next]_vars
  PROVE  PauseInv'
<1> USE LimitsAssumption, SessionAssumption DEF IInv, PauseInv, Covers, limitVars,
      pullVars, serveVars, loginVars, historyVars
<1>1. CASE Start  BY <1>1, StartKeeps DEF IInv
<1>2. CASE Down  BY <1>2 DEF Down
<1>3. CASE SaveFails  BY <1>3 DEF SaveFails
<1>4. CASE PullSaveFails  BY <1>4, PullSaveFailsKeeps DEF IInv
<1>5. CASE Connect  BY <1>5 DEF Connect, MayRequest
<1>6. CASE Connected  BY <1>6 DEF Connected
<1>7. CASE ConnectLimited  BY <1>7, ConnectLimitedKeeps DEF IInv
<1>8. CASE ConnectRefused  BY <1>8, ConnectRefusedKeeps DEF IInv
<1>9. CASE ConnectFails  BY <1>9, ConnectFailsKeeps DEF IInv
<1>10. CASE StreamEnds  BY <1>10, StreamEndsKeeps DEF IInv
<1>11. CASE StreamRaises  BY <1>11 DEF StreamRaises, EnterCooldown
<1>12. CASE SendPull  BY <1>12 DEF SendPull, PullDue
<1>13. CASE PullSucceeds  BY <1>13 DEF PullSucceeds, PullReturns
<1>14. CASE PullFails  BY <1>14, PullFailsKeeps DEF IInv
<1>15. CASE CooldownEnds  BY <1>15 DEF CooldownEnds
<1>16. CASE NoRecovery  BY <1>16 DEF NoRecovery, MayRecover, NextRetry
<1>17. CASE Recover  BY <1>17, RecoverKeeps DEF IInv
<1>18. CASE RecoverySucceeds  BY <1>18 DEF RecoverySucceeds
<1>19. CASE RecoveryFails  BY <1>19, RecoveryFailsKeeps DEF IInv
<1>20. CASE RecoveryPauses  BY <1>20, RecoveryPausesKeeps DEF IInv
<1>21. CASE Message  BY <1>21 DEF Message
<1>22. CASE CliStart  BY <1>22 DEF CliStart, CliUnchanged
<1>23. CASE CliSends  BY <1>23 DEF CliSends, CliUnchanged
<1>24. CASE CliSucceeds  BY <1>24, CliSucceedsKeeps DEF IInv
<1>25. CASE CliLimited  BY <1>25, CliLimitedKeeps DEF IInv
<1>26. CASE CliEnds  BY <1>26 DEF CliEnds, CliUnchanged
<1>27. CASE Elapse  BY <1>27, ElapseKeeps DEF IInv
<1>28. CASE UNCHANGED vars  BY <1>28 DEF vars
<1> QED
  BY <1>1, <1>2, <1>3, <1>4, <1>5, <1>6, <1>7, <1>8, <1>9, <1>10, <1>11, <1>12,
        <1>13, <1>14, <1>15, <1>16, <1>17, <1>18, <1>19, <1>20, <1>21, <1>22,
        <1>23, <1>24, <1>25, <1>26, <1>27, <1>28
  DEF Next, ServeNext, CliNext

\* The file knows the last login and a failed one.
LEMMA LoginPreserved ==
  ASSUME IInv, [Next]_vars
  PROVE  LoginInv'
<1> USE LimitsAssumption, SessionAssumption DEF IInv, LoginInv, limitVars,
      pullVars, serveVars, loginVars, historyVars
<1>1. CASE Start  BY <1>1, StartKeeps DEF IInv
<1>2. CASE Down  BY <1>2 DEF Down
<1>3. CASE SaveFails  BY <1>3 DEF SaveFails
<1>4. CASE PullSaveFails  BY <1>4, PullSaveFailsKeeps DEF IInv
<1>5. CASE Connect  BY <1>5 DEF Connect, MayRequest
<1>6. CASE Connected  BY <1>6 DEF Connected
<1>7. CASE ConnectLimited  BY <1>7, ConnectLimitedKeeps DEF IInv
<1>8. CASE ConnectRefused  BY <1>8, ConnectRefusedKeeps DEF IInv
<1>9. CASE ConnectFails  BY <1>9, ConnectFailsKeeps DEF IInv
<1>10. CASE StreamEnds  BY <1>10, StreamEndsKeeps DEF IInv
<1>11. CASE StreamRaises  BY <1>11 DEF StreamRaises, EnterCooldown
<1>12. CASE SendPull  BY <1>12 DEF SendPull, PullDue
<1>13. CASE PullSucceeds  BY <1>13 DEF PullSucceeds, PullReturns
<1>14. CASE PullFails  BY <1>14, PullFailsKeeps DEF IInv
<1>15. CASE CooldownEnds  BY <1>15 DEF CooldownEnds
<1>16. CASE NoRecovery  BY <1>16 DEF NoRecovery, MayRecover, NextRetry
<1>17. CASE Recover  BY <1>17, RecoverKeeps DEF IInv
<1>18. CASE RecoverySucceeds  BY <1>18 DEF RecoverySucceeds
<1>19. CASE RecoveryFails  BY <1>19, RecoveryFailsKeeps DEF IInv
<1>20. CASE RecoveryPauses  BY <1>20, RecoveryPausesKeeps DEF IInv
<1>21. CASE Message  BY <1>21 DEF Message
<1>22. CASE CliStart  BY <1>22 DEF CliStart, CliUnchanged
<1>23. CASE CliSends  BY <1>23 DEF CliSends, CliUnchanged
<1>24. CASE CliSucceeds  BY <1>24, CliSucceedsKeeps DEF IInv
<1>25. CASE CliLimited  BY <1>25, CliLimitedKeeps DEF IInv
<1>26. CASE CliEnds  BY <1>26 DEF CliEnds, CliUnchanged
<1>27. CASE Elapse  BY <1>27, ElapseKeeps DEF IInv
<1>28. CASE UNCHANGED vars  BY <1>28 DEF vars
<1> QED
  BY <1>1, <1>2, <1>3, <1>4, <1>5, <1>6, <1>7, <1>8, <1>9, <1>10, <1>11, <1>12,
        <1>13, <1>14, <1>15, <1>16, <1>17, <1>18, <1>19, <1>20, <1>21, <1>22,
        <1>23, <1>24, <1>25, <1>26, <1>27, <1>28
  DEF Next, ServeNext, CliNext

\* A pull in the recent past is covered by the time left to the next.
LEMMA PullPreserved ==
  ASSUME IInv, [Next]_vars
  PROVE  PullInv'
<1> USE LimitsAssumption, SessionAssumption DEF IInv, TypeOK, PullInv, limitVars,
      pullVars, serveVars, loginVars, historyVars
<1>1. CASE Start  BY <1>1, StartKeeps DEF IInv
<1>2. CASE Down  BY <1>2 DEF Down
<1>3. CASE SaveFails  BY <1>3 DEF SaveFails
<1>4. CASE PullSaveFails  BY <1>4, PullSaveFailsKeeps DEF IInv
<1>5. CASE Connect  BY <1>5 DEF Connect, MayRequest
<1>6. CASE Connected  BY <1>6 DEF Connected
<1>7. CASE ConnectLimited  BY <1>7, ConnectLimitedKeeps DEF IInv
<1>8. CASE ConnectRefused  BY <1>8, ConnectRefusedKeeps DEF IInv
<1>9. CASE ConnectFails  BY <1>9, ConnectFailsKeeps DEF IInv
<1>10. CASE StreamEnds  BY <1>10, StreamEndsKeeps DEF IInv
<1>11. CASE StreamRaises  BY <1>11 DEF StreamRaises, EnterCooldown
<1>12. CASE SendPull  BY <1>12 DEF SendPull, PullDue
<1>13. CASE PullSucceeds  BY <1>13 DEF PullSucceeds, PullReturns
<1>14. CASE PullFails  BY <1>14, PullFailsKeeps DEF IInv
<1>15. CASE CooldownEnds  BY <1>15 DEF CooldownEnds
<1>16. CASE NoRecovery  BY <1>16 DEF NoRecovery, MayRecover, NextRetry
<1>17. CASE Recover  BY <1>17, RecoverKeeps DEF IInv
<1>18. CASE RecoverySucceeds  BY <1>18 DEF RecoverySucceeds
<1>19. CASE RecoveryFails  BY <1>19, RecoveryFailsKeeps DEF IInv
<1>20. CASE RecoveryPauses  BY <1>20, RecoveryPausesKeeps DEF IInv
<1>21. CASE Message  BY <1>21 DEF Message
<1>22. CASE CliStart  BY <1>22 DEF CliStart, CliUnchanged
<1>23. CASE CliSends  BY <1>23 DEF CliSends, CliUnchanged
<1>24. CASE CliSucceeds  BY <1>24, CliSucceedsKeeps DEF IInv
<1>25. CASE CliLimited  BY <1>25, CliLimitedKeeps DEF IInv
<1>26. CASE CliEnds  BY <1>26 DEF CliEnds, CliUnchanged
<1>27. CASE Elapse  BY <1>27, ElapseKeeps DEF IInv
<1>28. CASE UNCHANGED vars  BY <1>28 DEF vars
<1> QED
  BY <1>1, <1>2, <1>3, <1>4, <1>5, <1>6, <1>7, <1>8, <1>9, <1>10, <1>11, <1>12,
        <1>13, <1>14, <1>15, <1>16, <1>17, <1>18, <1>19, <1>20, <1>21, <1>22,
        <1>23, <1>24, <1>25, <1>26, <1>27, <1>28
  DEF Next, ServeNext, CliNext
-----------------------------------------------------------------------------
LEMMA InvInit == Init => IInv
<1> SUFFICES ASSUME Init  PROVE IInv
  OBVIOUS
<1> USE LimitsAssumption, SessionAssumption DEF Init
<1>1. NoLimits \in Limits /\ NoLimits.pause = 0 /\ NoLimits.rate = RateMin
  BY DEF NoLimits, Limits
<1>2. TypeOK
  <2>1. blocked \in BOOLEAN /\ recoveryFailed \in BOOLEAN /\ latched \in BOOLEAN
    BY Zenon
  <2>2. penalty \in [limited : BOOLEAN, after : Headers]
    BY NoPenaltyType, Zenon
  <2>3. /\ task \in Tasks /\ cli \in {"none", "prompt", "login"}
        /\ mem \in Limits /\ disk \in Limits
        /\ retry \in Nat /\ up \in 0..HealthyTime /\ cool \in Nat
        /\ pullIn \in Nat /\ rxWait \in 0..PullInterval /\ pullRetry \in Nat
        /\ owed \in Nat /\ level \in RateMin..RateMax
        /\ sinceLogin \in 0..LoginInterval /\ sincePull \in 0..PullInterval
    BY <1>1 DEF Tasks
  <2> QED  BY <2>1, <2>2, <2>3 DEF TypeOK
<1>3. LockInv /\ PauseInv
  BY <1>1 DEF LockInv, PauseInv, Covers
<1>4. LoginInv
  BY DEF LoginInv, NoLimits
<1>5. PullInv
  BY DEF PullInv
<1> QED  BY <1>2, <1>3, <1>4, <1>5 DEF IInv

LEMMA InvStep == IInv /\ [Next]_vars => IInv'
  BY TypePreserved, LockPreserved, PausePreserved, LoginPreserved, PullPreserved DEF IInv

\* The inductive invariant holds in every behaviour.
THEOREM Invariant == Spec => []IInv
  BY InvInit, InvStep, PTL DEF Spec

\* Every variable keeps its type.
THEOREM TypeCorrect == Spec => []TypeOK
<1>1. IInv => TypeOK  BY DEF IInv
<1> QED  BY <1>1, Invariant, PTL

\* No request is sent by the client, a later process or the login command while
\* a pause that a handled response demanded is not over.
LEMMA PausesRespected ==
  ASSUME IInv, Next, Sends  PROVE owed = 0
<1>1. owed \in Nat /\ owed <= disk.pause
  BY DEF IInv, TypeOK, PauseInv, Covers
<1>2. CASE task \notin Requesting /\ task' \in Requesting
  <2>1. mem.pause = 0 /\ task \notin {"down", "dead"}
    <3> USE <1>2 DEF Requesting
    <3>1. CASE Connect  BY <3>1 DEF Connect, MayRequest
    <3>2. CASE SendPull  BY <3>2 DEF SendPull, PullDue
    <3>3. CASE Recover  BY <3>3 DEF Recover, MayRecover, LoginAllowed
    <3>4. CASE Start \/ Down \/ SaveFails \/ PullSaveFails \/ Message \/ Elapse \/ CliNext
      BY <3>4 DEF EnterCooldown, Start, Down, SaveFails, PullSaveFails, Message, Elapse, CliNext, CliStart, CliSends,
           CliSucceeds, CliLimited, CliEnds, CliUnchanged
    <3>5. CASE ConnectLimited \/ ConnectRefused \/ ConnectFails \/ StreamEnds \/ StreamRaises
      BY <3>5 DEF ConnectLimited, ConnectRefused, ConnectFails, TransportFails, StreamEnds,
           StreamRaises, EnterCooldown
    <3>6. CASE Connected \/ PullSucceeds \/ PullFails \/ CooldownEnds
      BY <3>6 DEF Connected, PullSucceeds, PullFails, PullReturns, CooldownEnds
    <3>7. CASE NoRecovery \/ RecoverySucceeds \/ RecoveryFails \/ RecoveryPauses
      BY <3>7 DEF NoRecovery, RecoverySucceeds, RecoveryFails, RecoveryPauses
    <3> QED  BY <3>1, <3>2, <3>3, <3>4, <3>5, <3>6, <3>7 DEF Next, ServeNext
  <2>2. owed <= mem.pause
    BY <2>1 DEF IInv, LockInv, Covers
  <2> QED  BY <1>1, <2>1, <2>2
<1>3. CASE cli # "login" /\ cli' = "login"
  <2>1. cli # "none"
    <3> USE <1>3
    <3>1. CASE CliNext
      BY <3>1 DEF CliNext, CliStart, CliSends, CliSucceeds, CliLimited, CliEnds
    <3>2. CASE Start \/ Down \/ SaveFails \/ PullSaveFails \/ Message \/ Elapse
      BY <3>2 DEF Start, Down, SaveFails, PullSaveFails, Message, Elapse
    <3>3. CASE ServeNext
      BY <3>3 DEF ServeNext, Connect, Connected, ConnectLimited, ConnectRefused, ConnectFails,
           TransportFails, StreamEnds, StreamRaises, SendPull, PullSucceeds, PullFails,
           CooldownEnds, NoRecovery, Recover, RecoverySucceeds, RecoveryFails, RecoveryPauses
    <3> QED  BY <3>1, <3>2, <3>3 DEF Next
  <2> QED  BY <1>1, <2>1, CliFacts
<1> QED  BY <1>2, <1>3 DEF Sends

\* Only Recover sends the stored credentials.
LEMMA LoginStep ==
  ASSUME IInv, Next, task # "login", task' = "login"
  PROVE  Recover
<1>1. CASE Start \/ Down \/ SaveFails \/ PullSaveFails \/ Message \/ Elapse \/ CliNext
  BY <1>1 DEF EnterCooldown, Start, Down, SaveFails, PullSaveFails, Message, Elapse, CliNext, CliStart, CliSends,
       CliSucceeds, CliLimited, CliEnds, CliUnchanged
<1>2. CASE ConnectLimited \/ ConnectRefused \/ ConnectFails \/ StreamEnds \/ StreamRaises
  BY <1>2 DEF ConnectLimited, ConnectRefused, ConnectFails, TransportFails, StreamEnds,
       StreamRaises, EnterCooldown
<1>3. CASE Connect \/ Connected \/ SendPull \/ PullSucceeds \/ PullFails \/ CooldownEnds
  BY <1>3 DEF Connect, Connected, SendPull, PullSucceeds, PullFails, PullReturns, CooldownEnds
<1>4. CASE NoRecovery \/ RecoverySucceeds \/ RecoveryFails \/ RecoveryPauses
  BY <1>4 DEF NoRecovery, RecoverySucceeds, RecoveryFails, RecoveryPauses
<1> QED  BY <1>1, <1>2, <1>3, <1>4 DEF Next, ServeNext

\* Automatic logins keep the login interval from every login before them, and a
\* failed one is the last until a manual one succeeds.
LEMMA LoginsSpaced ==
  ASSUME IInv, Next, SendsLogin  PROVE sinceLogin = LoginInterval /\ ~latched
<1>1. task = "after" /\ mem.login = 0 /\ ~mem.failed
  BY LoginStep DEF SendsLogin, Recover, MayRecover, LoginAllowed
<1>2. disk.login = 0 /\ ~disk.failed
  BY <1>1 DEF IInv, LockInv
<1> QED  BY <1>2, LimitsAssumption DEF IInv, TypeOK, LoginInv

\* Pulls of one process keep the pull interval.
LEMMA PullsSpaced ==
  ASSUME IInv, Next, SendsPull  PROVE sincePull = PullInterval
<1> USE DEF SendsPull
<1>1. SendPull
  <2>1. CASE Start \/ Down \/ SaveFails \/ PullSaveFails \/ Message \/ Elapse \/ CliNext
    BY <2>1 DEF EnterCooldown, Start, Down, SaveFails, PullSaveFails, Message, Elapse, CliNext, CliStart, CliSends,
         CliSucceeds, CliLimited, CliEnds, CliUnchanged
  <2>2. CASE ConnectLimited \/ ConnectRefused \/ ConnectFails \/ StreamEnds \/ StreamRaises
    BY <2>2 DEF ConnectLimited, ConnectRefused, ConnectFails, TransportFails, StreamEnds,
         StreamRaises, EnterCooldown
  <2>3. CASE Connect \/ Connected \/ PullSucceeds \/ PullFails \/ CooldownEnds
    BY <2>3 DEF Connect, Connected, PullSucceeds, PullFails, PullReturns, CooldownEnds
  <2>4. CASE NoRecovery \/ Recover \/ RecoverySucceeds \/ RecoveryFails \/ RecoveryPauses
    BY <2>4 DEF NoRecovery, Recover, RecoverySucceeds, RecoveryFails, RecoveryPauses
  <2> QED  BY <2>1, <2>2, <2>3, <2>4 DEF Next, ServeNext
<1>2. task \in {"stream", "cool"} /\ pullIn = 0 /\ mem.pause = 0
  BY <1>1 DEF SendPull, PullDue
<1>3. sincePull + pullIn >= PullInterval \/ sincePull + mem.pause >= PullInterval
  BY <1>2 DEF IInv, PullInv
<1> QED  BY <1>2, <1>3, SessionAssumption DEF IInv, TypeOK

\* Every request respects the pauses, the login interval and latch, and the pull
\* interval.
THEOREM RequestsAreAllowed == Spec => RequestsAllowed
<1>1. IInv /\ [Next]_vars =>
        [/\ Sends => owed = 0
         /\ SendsLogin => sinceLogin = LoginInterval /\ ~latched
         /\ SendsPull => sincePull = PullInterval]_vars
  BY PausesRespected, LoginsSpaced, PullsSpaced
<1> QED  BY <1>1, Invariant, PTL DEF Spec, RequestsAllowed

-----------------------------------------------------------------------------
(* VehicleMerge.                                                           *)


\* The buffer holds readings of its epoch.
BufferInv == \A f \in Fields : buffer[f] = Unknown \/ buffer[f].epoch = epoch

\* What is on show came in one acquisition, by a pull or with the buffer.
ShownInv ==
  /\ \E e \in 1..epoch : \A f \in Fields : shown[f] = Unknown \/ shown[f].epoch = e
  /\ source = "push" =>
       \A f \in Fields : shown[f].epoch = epoch => buffer[f].at >= shown[f].at
  /\ source = "pull" => \A f \in Fields : shown[f].via # "push"

MergeInv == MergeTypeOK /\ BufferInv /\ ShownInv

\* An update names fields of the vehicle and no time after now.
LEMMA UpdateFacts ==
  ASSUME NEW u \in Updates
  PROVE  DOMAIN u \subseteq Fields /\ \A f \in DOMAIN u : u[f] \in 0..now
<1>1. PICK S \in SUBSET Fields \ {{}} : u \in [S -> 0..now]
  BY DEF Updates
<1> QED BY <1>1

\* The readings of an update belong to the epoch and the channel.
LEMMA ReadingFacts ==
  ASSUME NEW u \in Updates, NEW via \in {"push", "rest"}, NEW e \in 1..MaxEpochs,
         now \in 1..MaxTime
  PROVE  \A f \in DOMAIN u : /\ f \in Fields
                             /\ Readings(u, via, e)[f] \in Reading
                             /\ Readings(u, via, e)[f].epoch = e
                             /\ Readings(u, via, e)[f].via = via
<1>1. DOMAIN u \subseteq Fields /\ \A f \in DOMAIN u : u[f] \in 0..now
  BY UpdateFacts
<1>2. SUFFICES ASSUME NEW f \in DOMAIN u
               PROVE  /\ f \in Fields
                      /\ Readings(u, via, e)[f] \in Reading
                      /\ Readings(u, via, e)[f].epoch = e
                      /\ Readings(u, via, e)[f].via = via
  OBVIOUS
<1>3. Readings(u, via, e)[f] = [at |-> u[f], epoch |-> e, via |-> via]
  BY DEF Readings
<1>4. u[f] \in 0..MaxTime /\ e \in 0..MaxEpochs
  BY <1>1, MergeAssumption
<1> QED BY <1>1, <1>3, <1>4 DEF Reading

\* A merge keeps every field's old reading or takes the new one, never an older one.
LEMMA MergeFacts ==
  ASSUME NEW u \in Updates, NEW via \in {"push", "rest"}, NEW e \in 1..MaxEpochs,
         now \in 1..MaxTime, NEW old \in [Fields -> Reading]
  PROVE  LET merged == Merge(old, Readings(u, via, e))
         IN /\ merged \in [Fields -> Reading]
            /\ \A f \in Fields :
                 /\ merged[f].at >= old[f].at
                 /\ merged[f] = old[f] \/ (merged[f].epoch = e /\ merged[f].via = via)
<1> DEFINE new == Readings(u, via, e)
           merged == Merge(old, new)
<1>1. DOMAIN new = DOMAIN u
  BY DEF Readings
<1>2. \A f \in DOMAIN u : f \in Fields /\ new[f] \in Reading /\ new[f].epoch = e
                          /\ new[f].via = via
  BY ReadingFacts
<1>3. merged = [f \in Fields |->
        IF f \in DOMAIN u /\ new[f].at >= old[f].at THEN new[f] ELSE old[f]]
  BY <1>1 DEF Merge
<1>4. \A r \in Reading : r.at \in Nat
  BY MergeAssumption DEF Reading
<1> HIDE DEF new, merged
<1>5. merged \in [Fields -> Reading]
  BY <1>2, <1>3
<1>6. ASSUME NEW f \in Fields
      PROVE  /\ merged[f].at >= old[f].at
             /\ merged[f] = old[f] \/ (merged[f].epoch = e /\ merged[f].via = via)
  BY <1>2, <1>3, <1>4
<1> QED BY <1>5, <1>6 DEF merged, new

LEMMA NothingTyped ==
  Nothing \in [Fields -> Reading] /\ \A f \in Fields : Nothing[f] = Unknown
  BY MergeAssumption DEF Nothing, Unknown, Reading

\* The times of readings can be compared.
LEMMA Times == MergeTypeOK => \A f \in Fields : buffer[f].at \in Nat /\ shown[f].at \in Nat
  BY MergeAssumption DEF MergeTypeOK, Reading

\* The invariant holds at the start.
LEMMA MergeInitInv == MergeInit => MergeInv
<1> SUFFICES ASSUME MergeInit PROVE MergeInv
  OBVIOUS
<1>1. 1 \in 1..MaxTime /\ 1 \in 1..MaxEpochs /\ 1 \in 1..1
  BY MergeAssumption
<1>2. MergeTypeOK
  BY <1>1, NothingTyped DEF MergeInit, MergeTypeOK
<1>3. BufferInv
  BY NothingTyped DEF MergeInit, BufferInv
<1>4. ShownInv
  BY <1>1, NothingTyped DEF MergeInit, ShownInv, Unknown
<1> QED BY <1>2, <1>3, <1>4 DEF MergeInv

\* Merging into the epoch's buffer preserves the invariant, accepted or not.
LEMMA MergedInv ==
  ASSUME MergeInv, NEW u \in Updates, NEW via \in {"push", "rest"},
         buffer' = Merge(buffer, Readings(u, via, epoch)),
         Accept \/ AcceptFails, connected' \in BOOLEAN,
         UNCHANGED <<now, full, epoch, delivered>>
  PROVE  MergeInv'
<1>1. now \in 1..MaxTime /\ epoch \in 1..MaxEpochs /\ epoch \in 1..epoch
      /\ buffer \in [Fields -> Reading]
  BY MergeAssumption DEF MergeInv, MergeTypeOK
<1>2. /\ buffer' \in [Fields -> Reading]
      /\ \A f \in Fields :
           buffer'[f].at >= buffer[f].at /\ (buffer'[f] = buffer[f] \/ buffer'[f].epoch = epoch)
  BY <1>1, MergeFacts
<1>3. MergeTypeOK'
  BY <1>2 DEF Accept, AcceptFails, MergeInv, MergeTypeOK
<1>4. BufferInv'
  BY <1>2 DEF MergeInv, BufferInv
<1>5. \A f \in Fields : buffer[f].at \in Nat /\ shown[f].at \in Nat /\ buffer'[f].at \in Nat
  BY <1>3, Times, MergeAssumption DEF MergeInv, MergeTypeOK, Reading
<1>6. CASE Accept
  <2>1. \A f \in Fields : buffer'[f] = Unknown \/ buffer'[f].epoch = epoch
    BY <1>4 DEF BufferInv
  <2>2. ShownInv'
    BY <1>1, <1>5, <1>6, <2>1 DEF Accept, ShownInv
  <2> QED BY <1>3, <1>4, <2>2 DEF MergeInv
<1>7. CASE AcceptFails
  <2>1. ShownInv'
    BY <1>2, <1>5, <1>7 DEF AcceptFails, MergeInv, ShownInv
  <2> QED BY <1>3, <1>4, <2>1 DEF MergeInv
<1> QED BY <1>6, <1>7

\* A full update begins an epoch that nothing on show belongs to before it is accepted.
LEMMA FullUpdateInv == MergeInv /\ FullUpdate => MergeInv'
<1> SUFFICES ASSUME MergeInv, FullUpdate PROVE MergeInv'
  OBVIOUS
<1>1. /\ epoch' = epoch + 1 /\ now' = now /\ full' = TRUE /\ delivered' = TRUE
      /\ connected' \in BOOLEAN /\ (Accept \/ AcceptFails)
  BY DEF FullUpdate, MergeInv, MergeTypeOK
<1>2. /\ now \in 1..MaxTime /\ epoch \in 1..MaxEpochs /\ epoch' \in 1..MaxEpochs
      /\ epoch' \in 1..epoch' /\ Unknown.epoch # epoch'
  BY MergeAssumption DEF FullUpdate, MergeInv, MergeTypeOK, Unknown
<1>3. PICK u \in Updates : buffer' = Merge(Nothing, Readings(u, "push", epoch'))
  BY DEF FullUpdate
<1>4. /\ buffer' \in [Fields -> Reading]
      /\ \A f \in Fields : buffer'[f] = Unknown \/ buffer'[f].epoch = epoch'
  BY <1>2, <1>3, NothingTyped, MergeFacts
<1>5. MergeTypeOK'
  BY <1>1, <1>2, <1>4 DEF Accept, AcceptFails, MergeInv, MergeTypeOK
<1>6. BufferInv'
  BY <1>4 DEF BufferInv
<1>7. \A f \in Fields : buffer'[f].at \in Nat
  BY <1>4, MergeAssumption DEF Reading
<1>8. CASE Accept
  <2>1. ShownInv'
    BY <1>2, <1>4, <1>7, <1>8 DEF Accept, ShownInv
  <2> QED BY <1>5, <1>6, <2>1 DEF MergeInv
<1>9. CASE AcceptFails
  <2>1. PICK e \in 1..epoch : \A f \in Fields : shown[f] = Unknown \/ shown[f].epoch = e
    BY DEF MergeInv, ShownInv
  <2>2. e \in 1..epoch' /\ e # epoch'
    BY <1>1, <1>2
  <2>3. ShownInv'
    BY <1>2, <1>9, <2>1, <2>2 DEF AcceptFails, MergeInv, ShownInv
  <2> QED BY <1>5, <1>6, <2>3 DEF MergeInv
<1> QED BY <1>1, <1>8, <1>9

\* A reply that stands alone brings readings of one epoch, by a pull.
LEMMA ReplaceInv == MergeInv /\ Replace => MergeInv'
<1> SUFFICES ASSUME MergeInv, Replace PROVE MergeInv'
  OBVIOUS
<1>1. PICK u \in Updates : shown' = DecodeRest(u) /\ source' = "pull"
  BY DEF Replace
<1>2. now \in 1..MaxTime /\ epoch \in 1..MaxEpochs /\ epoch \in 1..epoch
  BY MergeAssumption DEF MergeInv, MergeTypeOK
<1>3. /\ shown' \in [Fields -> Reading]
      /\ \A f \in Fields :
           shown'[f] = Unknown \/ (shown'[f].epoch = epoch /\ shown'[f].via = "rest")
  BY <1>1, <1>2, MergeFacts, NothingTyped DEF DecodeRest
<1>4. UNCHANGED <<now, connected, buffer, full, epoch, delivered>>
  BY DEF Replace
<1>5. MergeTypeOK'
  BY <1>1, <1>3, <1>4 DEF MergeInv, MergeTypeOK
<1>6. BufferInv'
  BY <1>4 DEF MergeInv, BufferInv
<1>7. ShownInv'
  BY <1>1, <1>2, <1>3, <1>4 DEF ShownInv, Unknown
<1> QED BY <1>5, <1>6, <1>7 DEF MergeInv

\* A new session starts with an empty buffer that owns nothing on show.
LEMMA SessionInv == MergeInv /\ (NewSession \/ Restart) => MergeInv'
<1> SUFFICES ASSUME MergeInv, NewSession \/ Restart PROVE MergeInv'
  OBVIOUS
<1>1. /\ epoch' = epoch + 1 /\ epoch \in 1..MaxEpochs /\ epoch' \in 1..MaxEpochs
      /\ buffer' = Nothing /\ full' = FALSE /\ now' = now
      /\ Unknown.epoch # epoch'
  BY MergeAssumption DEF NewSession, Restart, MergeInv, MergeTypeOK, Unknown
<1>2. MergeTypeOK'
  BY <1>1, NothingTyped DEF NewSession, Restart, MergeInv, MergeTypeOK
<1>3. BufferInv'
  BY <1>1, NothingTyped DEF BufferInv
<1>4. CASE NewSession
  <2>1. UNCHANGED <<shown, source>>
    BY <1>4 DEF NewSession
  <2>2. PICK e \in 1..epoch : \A f \in Fields : shown[f] = Unknown \/ shown[f].epoch = e
    BY DEF MergeInv, ShownInv
  <2>3. e \in 1..epoch' /\ e # epoch'
    BY <1>1
  <2>4. ShownInv'
    BY <1>1, <2>1, <2>2, <2>3 DEF MergeInv, ShownInv
  <2> QED BY <1>2, <1>3, <2>4 DEF MergeInv
<1>5. CASE Restart
  <2>1. shown' = Nothing /\ source' = "push" /\ 1 \in 1..epoch'
    BY <1>1, <1>5 DEF Restart
  <2>2. ShownInv'
    BY <1>1, <2>1, NothingTyped DEF ShownInv
  <2> QED BY <1>2, <1>3, <2>2 DEF MergeInv
<1> QED BY <1>4, <1>5

\* Every step preserves the invariant.
LEMMA MergeNextInv == MergeInv /\ [MergeNext]_mergeVars => MergeInv'
<1> SUFFICES ASSUME MergeInv, [MergeNext]_mergeVars PROVE MergeInv'
  OBVIOUS
<1>1. CASE ClockTicks
  <2>1. now' \in 1..MaxTime
        /\ UNCHANGED <<connected, buffer, full, shown, source, epoch, delivered>>
    BY <1>1, MergeAssumption DEF ClockTicks, MergeInv, MergeTypeOK
  <2> QED BY <2>1 DEF MergeInv, MergeTypeOK, BufferInv, ShownInv
<1>2. CASE SocketOpens
  BY <1>2 DEF SocketOpens, MergeInv, MergeTypeOK, BufferInv, ShownInv
<1>3. CASE SocketCloses
  BY <1>3 DEF SocketCloses, MergeInv, MergeTypeOK, BufferInv, ShownInv
<1>4. CASE Delta
  <2>1. PICK u \in Updates : buffer' = Merge(buffer, Readings(u, "push", epoch))
    BY <1>4 DEF Delta
  <2>2. /\ Accept \/ AcceptFails
        /\ connected' \in BOOLEAN
        /\ UNCHANGED <<now, full, epoch, delivered>>
    BY <1>4 DEF Delta, MergeInv, MergeTypeOK
  <2> QED BY <2>1, <2>2, MergedInv
<1>5. CASE FullUpdate
  BY <1>5, FullUpdateInv
<1>6. CASE Supplement
  <2>1. PICK u \in Updates : buffer' = Merge(buffer, Readings(u, "rest", epoch))
    BY <1>6 DEF Supplement
  <2>2. /\ Accept \/ AcceptFails
        /\ connected' \in BOOLEAN
        /\ UNCHANGED <<now, full, epoch, delivered>>
    BY <1>6 DEF Supplement, MergeInv, MergeTypeOK
  <2> QED BY <2>1, <2>2, MergedInv
<1>7. CASE Replace
  BY <1>7, ReplaceInv
<1>8. CASE NewSession \/ Restart
  BY <1>8, SessionInv
<1>9. CASE UNCHANGED mergeVars
  BY <1>9 DEF mergeVars, MergeInv, MergeTypeOK, BufferInv, ShownInv
<1> QED
  BY <1>1, <1>2, <1>3, <1>4, <1>5, <1>6, <1>7, <1>8, <1>9 DEF MergeNext, Pull

LEMMA MergeInvariance == MergeSpec => []MergeInv
  BY MergeInitInv, MergeNextInv, PTL DEF MergeSpec

\* Every reachable state is well typed.
THEOREM MergeTypeCorrect == MergeSpec => []MergeTypeOK
<1>1. MergeInv => MergeTypeOK
  BY DEF MergeInv
<1> QED BY <1>1, MergeInvariance, PTL

\* No snapshot joins readings from before and after a full update or a recovery
\* login (protocol.py:74-76, client.py:204-208).
THEOREM EpochsNotMixed == MergeSpec => []OneEpoch
<1>1. MergeInv => OneEpoch
  BY DEF MergeInv, ShownInv, OneEpoch
<1> QED BY <1>1, MergeInvariance, PTL

\* A snapshot pulled without an owning stream holds only REST readings.
THEOREM PullsStandAlone == MergeSpec => []PullHidesOldFields
<1>1. MergeInv => PullHidesOldFields
  BY DEF MergeInv, ShownInv, PullHidesOldFields
<1> QED BY <1>1, MergeInvariance, PTL

\* The stream never returns to an older reading (protocol.py:80-84): the buffer is
\* never behind what it has shown, and a merge never takes it back.
THEOREM StreamOrdered == MergeSpec => StreamMovesForward
<1> DEFINE Forward ==
      source = "push" /\ source' = "push" =>
        \A f \in Fields : shown[f] # Unknown /\ shown[f].epoch = shown'[f].epoch =>
                            shown'[f].at >= shown[f].at
<1>1. ASSUME MergeInv, MergeInv', [MergeNext]_mergeVars PROVE Forward
  <2> SUFFICES ASSUME source = "push", source' = "push", NEW f \in Fields,
                      shown[f] # Unknown, shown[f].epoch = shown'[f].epoch
               PROVE  shown'[f].at >= shown[f].at
    OBVIOUS
  <2>1. /\ shown[f].at \in Nat /\ buffer[f].at \in Nat /\ buffer \in [Fields -> Reading]
        /\ epoch \in 1..MaxEpochs /\ now \in 1..MaxTime
    BY <1>1, Times DEF MergeInv, MergeTypeOK
  <2>2. shown[f].epoch \in 1..epoch
    BY <1>1 DEF MergeInv, ShownInv
  <2>3. CASE shown' = shown
    BY <2>1, <2>3
  <2>4. ASSUME Accept, NEW u \in Updates, NEW via \in {"push", "rest"},
               buffer' = Merge(buffer, Readings(u, via, epoch))
        PROVE  shown'[f].at >= shown[f].at
    <3>1. buffer'[f].at >= buffer[f].at
          /\ (buffer'[f] = buffer[f] \/ buffer'[f].epoch = epoch)
      BY <2>1, <2>4, MergeFacts
    <3>2. buffer'[f].at \in Nat
      BY <1>1, Times DEF MergeInv, MergeTypeOK, Reading
    <3>3. shown[f].epoch = epoch
      BY <1>1, <2>2, <2>4, <3>1 DEF Accept, MergeInv, BufferInv, Unknown
    <3>4. buffer[f].at >= shown[f].at
      BY <1>1, <3>3 DEF MergeInv, ShownInv
    <3> QED BY <2>1, <2>4, <3>1, <3>2, <3>4 DEF Accept
  <2>5. CASE Delta
    BY <2>3, <2>4, <2>5 DEF Delta, AcceptFails
  <2>6. CASE Supplement
    BY <2>3, <2>4, <2>6 DEF Supplement, AcceptFails
  <2>7. CASE FullUpdate \/ Restart
    <3>1. shown' = shown \/ shown'[f] = Unknown \/ shown'[f].epoch = epoch + 1
      BY <1>1, <2>7, NothingTyped
      DEF FullUpdate, Restart, Accept, AcceptFails, MergeInv, BufferInv
    <3> QED BY <2>1, <2>2, <2>3, <3>1 DEF Unknown
  <2> QED
    BY <1>1, <2>3, <2>5, <2>6, <2>7
    DEF MergeNext, Pull, Replace, ClockTicks, SocketOpens, SocketCloses, NewSession, mergeVars
<1>2. MergeInv /\ MergeInv' /\ [MergeNext]_mergeVars => Forward
  BY <1>1
<1>3. MergeSpec => [][Forward]_mergeVars
  BY <1>2, MergeInvariance, PTL DEF MergeSpec
<1> QED BY <1>3 DEF StreamMovesForward

=============================================================================
