--------------------------- MODULE PollingProofs ---------------------------
(***************************************************************************)
(* Proofs about the two loops that ask for the vehicle's data, for every   *)
(* value of their constants.  PollBridge: one poll in flight, room for the *)
(* sentinel, bounded age of what is on show, spacing of requests after     *)
(* failures, and the refinement of TelemetryContract.  EvccClient: the     *)
(* pacing of requests and engine starts through crashes and failed saves,  *)
(* the latch of a recorded refusal, and freshness while the engine answers.*)
(***************************************************************************)
EXTENDS PollBridge, EvccClient, SequenceTheorems, TLAPS

-----------------------------------------------------------------------------
\* The inductive invariant, in named parts.

\* A snapshot that claims to be good carries the time of its request, which
\* is not before its stamp.
Honest(s) == s.ok => s.requested \in Times /\ s.at <= s.requested

\* Some poll is queued, being worked on, or waiting to be delivered.
InFlight == slot = "poll" \/ WorkerBusy \/ idle # <<>>

\* pending covers everything in flight except while poll() is about to set it.
PendingInv ==
  /\ SingleFlight
  /\ main \in {"put", "store", "apply"} => ~pending
  /\ ~pending /\ main # "mark" => ~InFlight

\* The breaker counts the failures that were recorded, and an open breaker
\* was opened by the last of them.
BreakerInv ==
  /\ worker = "request" => openedAt = NoTime
  /\ openedAt = NoTime => \/ failures = streak /\ streak < Threshold
                          \/ failures = Threshold - 1 /\ streak = Threshold
  /\ openedAt # NoTime => failures = Threshold /\ streak = Threshold
  /\ streak = Threshold =>
       /\ lastFailure \in Times
       /\ openedAt = lastFailure \/ (openedAt = NoTime /\ now - lastFailure >= ResetTimeout)

\* Stamps are taken before requests, and snapshots stay honest on their way.
HonestyInv ==
  /\ startedAt <= now
  /\ worker = "request" => requestAt \in Times /\ startedAt <= requestAt
  /\ Honest(result) /\ Honest(delivering)
  /\ \A i \in 1..Len(idle) : Honest(idle[i])

\* Whatever is in flight was stamped after the acquisition on show.
OrderInv ==
  lastOk # NoTime =>
    /\ lastOk <= now
    /\ worker \in {"poll", "request"} => lastOk <= startedAt
    /\ worker = "dispatch" => lastOk <= result.at
    /\ \A i \in 1..Len(idle) : lastOk <= idle[i].at
    /\ main = "apply" => lastOk <= delivering.at

\* The next tick is at most a period away, and what is called live was fresh
\* when the last tick or delivery judged it.
DeadlineInv ==
  /\ handler = "none" => now <= nextTick
  /\ nextTick <= now + TickPeriod
  /\ lastOk # NoTime => shown \in Times /\ lastOk <= shown
  /\ connected \/ outOk => lastOk # NoTime /\ nextTick < lastOk + StaleTimeout + TickPeriod

IInv ==
  /\ TypeOK /\ PendingInv /\ BreakerInv
  /\ SentinelFits /\ HonestyInv /\ OrderInv /\ DeadlineInv

-----------------------------------------------------------------------------
\* Every step keeps the variables in their types; the breaker's count needs BreakerInv.
LEMMA TypePreserved ==
  ASSUME IInv, [Next]_vars
  PROVE  TypeOK'
<1> USE PollAssumption, NoTimeAssumption DEF IInv, TypeOK, BreakerInv, Times,
      MaybeTimes, Snapshots, clockVars, appVars, breakerVars, callVars, stopVars
<1>1. CASE Advance  BY <1>1 DEF Advance
<1>2. CASE Tick  BY <1>2 DEF Tick, Publish, Fresh
<1>2a. CASE AskPoll  BY <1>2a DEF AskPoll, PollAllowed
<1>3. CASE PutLock  BY <1>3 DEF PutLock
<1>4. CASE PutStore
  <2>1. slot' \in {"empty", "poll", "stop"} /\ main' \in {"mark", "idle"} /\
        mutexHeld' \in BOOLEAN
    BY <1>4 DEF PutStore
  <2> QED  BY <1>4, <2>1 DEF PutStore
<1>5. CASE MarkPending  BY <1>5 DEF MarkPending
<1>6. CASE Deliver
  <2>1. idle' \in Seq(Snapshots) /\ Head(idle) \in Snapshots
    BY <1>6, HeadTailProperties DEF Deliver
  <2>2. main' \in {"idle", "apply"} /\ delivering' \in Snapshots /\ pending' \in
        BOOLEAN
    BY <1>6, <2>1 DEF Deliver
  <2> QED  BY <1>6, <2>1, <2>2 DEF Deliver
<1>7. CASE ApplySnapshot  BY <1>7 DEF ApplySnapshot, Accepted, Publish,
      NextLastOk, FailClosedSources, Fresh
<1>7a. CASE Applied  BY <1>7a DEF Applied
<1>8. CASE Exit  BY <1>8 DEF Exit
<1>9. CASE Signal  BY <1>9 DEF Signal, HandlerUnchanged
<1>10. CASE Drain  BY <1>10 DEF Drain, HandlerUnchanged
<1>11. CASE PutSentinel  BY <1>11 DEF PutSentinel, HandlerUnchanged
<1>12. CASE Join  BY <1>12 DEF Join, HandlerUnchanged
<1>12a. CASE CloseMqtt  BY <1>12a DEF CloseMqtt, HandlerUnchanged
<1>13. CASE Get  BY <1>13 DEF Get, WorkerUnchanged
<1>14. CASE CheckStopping  BY <1>14 DEF CheckStopping, WorkerUnchanged
<1>15. CASE PollRefused  BY <1>15 DEF PollRefused, WorkerUnchanged, Result,
      BreakerRefuses
<1>16. CASE PollRequest  BY <1>16 DEF PollRequest, WorkerUnchanged,
      FailuresOnceOpen, BreakerRefuses
<1>17. CASE Reply  BY <1>17 DEF Reply, WorkerUnchanged, Result
<1>18. CASE RequestFails  BY <1>18 DEF RequestFails, WorkerUnchanged,
      RecordFailure, Result
<1>19. CASE PollRaises  BY <1>19 DEF PollRaises, WorkerUnchanged, Result
<1>20. CASE Dispatch  BY <1>20 DEF Dispatch, WorkerUnchanged, Schedule
<1>21. CASE CloseSession  BY <1>21 DEF CloseSession, WorkerUnchanged
<1>22. CASE UNCHANGED vars  BY <1>22 DEF vars, clockVars, appVars, breakerVars,
      callVars, stopVars
<1> QED
  BY <1>1, <1>2, <1>2a, <1>3, <1>4, <1>5, <1>6, <1>7, <1>7a, <1>8, <1>9, <1>10,
     <1>11, <1>12, <1>12a, <1>13, <1>14, <1>15, <1>16, <1>17, <1>18, <1>19, <1>20,
     <1>21, <1>22
  DEF Next, MainNext, HandlerNext, StopWorker, WorkerNext, RequestEnds

\* Only MarkPending clears the way for a poll, and only one is ever in flight.
LEMMA PendingPreserved ==
  ASSUME IInv, [Next]_vars
  PROVE  PendingInv'
<1> USE PollAssumption, NoTimeAssumption DEF IInv, TypeOK, PendingInv,
      SingleFlight, InFlight, WorkerBusy, SentinelFits, clockVars, appVars,
      breakerVars, callVars, stopVars, MainRuns, HandlerActive
<1>1. CASE Advance  BY <1>1 DEF Advance
<1>2. CASE Tick  BY <1>2 DEF Tick, Publish
<1>2a. CASE AskPoll  BY <1>2a DEF AskPoll, PollAllowed
<1>3. CASE PutLock  BY <1>3 DEF PutLock
<1>4. CASE PutStore  BY <1>4 DEF PutStore
<1>5. CASE MarkPending  BY <1>5 DEF MarkPending
<1>6. CASE Deliver  BY <1>6 DEF Deliver, DeliveryAllowed
<1>7. CASE ApplySnapshot  BY <1>7 DEF ApplySnapshot, Accepted, Publish
<1>7a. CASE Applied  BY <1>7a DEF Applied
<1>8. CASE Exit  BY <1>8 DEF Exit
<1>9. CASE Signal  BY <1>9 DEF Signal, HandlerUnchanged
<1>10. CASE Drain  BY <1>10 DEF Drain, HandlerUnchanged
<1>11. CASE PutSentinel  BY <1>11 DEF PutSentinel, HandlerUnchanged
<1>12. CASE Join  BY <1>12 DEF Join, HandlerUnchanged
<1>12a. CASE CloseMqtt  BY <1>12a DEF CloseMqtt, HandlerUnchanged
<1>13. CASE Get  BY <1>13 DEF Get, WorkerUnchanged
<1>14. CASE CheckStopping  BY <1>14 DEF CheckStopping, WorkerUnchanged
<1>15. CASE PollRefused  BY <1>15 DEF PollRefused, WorkerUnchanged, Result,
      BreakerRefuses
<1>16. CASE PollRequest  BY <1>16 DEF PollRequest, WorkerUnchanged,
      FailuresOnceOpen, BreakerRefuses
<1>17. CASE Reply  BY <1>17 DEF Reply, WorkerUnchanged, Result
<1>18. CASE RequestFails  BY <1>18 DEF RequestFails, WorkerUnchanged,
      RecordFailure, Result
<1>19. CASE PollRaises  BY <1>19 DEF PollRaises, WorkerUnchanged, Result
<1>20. CASE Dispatch  BY <1>20 DEF Dispatch, WorkerUnchanged, Schedule
<1>21. CASE CloseSession  BY <1>21 DEF CloseSession, WorkerUnchanged
<1>22. CASE UNCHANGED vars  BY <1>22 DEF vars, clockVars, appVars, breakerVars,
      callVars, stopVars
<1> QED
  BY <1>1, <1>2, <1>2a, <1>3, <1>4, <1>5, <1>6, <1>7, <1>7a, <1>8, <1>9, <1>10,
     <1>11, <1>12, <1>12a, <1>13, <1>14, <1>15, <1>16, <1>17, <1>18, <1>19, <1>20,
     <1>21, <1>22
  DEF Next, MainNext, HandlerNext, StopWorker, WorkerNext, RequestEnds

\* The breaker opens at the last recorded failure and half-opens a reset time later.
LEMMA BreakerPreserved ==
  ASSUME IInv, [Next]_vars
  PROVE  BreakerInv'
<1> USE PollAssumption, NoTimeAssumption DEF IInv, TypeOK, BreakerInv, Times,
      MaybeTimes, clockVars, appVars, breakerVars, callVars, stopVars
<1>1. CASE Advance  BY <1>1 DEF Advance
<1>2. CASE Tick  BY <1>2 DEF Tick, Publish
<1>2a. CASE AskPoll  BY <1>2a DEF AskPoll, PollAllowed
<1>3. CASE PutLock  BY <1>3 DEF PutLock
<1>4. CASE PutStore  BY <1>4 DEF PutStore
<1>5. CASE MarkPending  BY <1>5 DEF MarkPending
<1>6. CASE Deliver  BY <1>6 DEF Deliver, DeliveryAllowed
<1>7. CASE ApplySnapshot  BY <1>7 DEF ApplySnapshot, Accepted, Publish
<1>7a. CASE Applied  BY <1>7a DEF Applied
<1>8. CASE Exit  BY <1>8 DEF Exit
<1>9. CASE Signal  BY <1>9 DEF Signal, HandlerUnchanged
<1>10. CASE Drain  BY <1>10 DEF Drain, HandlerUnchanged
<1>11. CASE PutSentinel  BY <1>11 DEF PutSentinel, HandlerUnchanged
<1>12. CASE Join  BY <1>12 DEF Join, HandlerUnchanged
<1>12a. CASE CloseMqtt  BY <1>12a DEF CloseMqtt, HandlerUnchanged
<1>13. CASE Get  BY <1>13 DEF Get, WorkerUnchanged
<1>14. CASE CheckStopping  BY <1>14 DEF CheckStopping, WorkerUnchanged
<1>15. CASE PollRefused  BY <1>15 DEF PollRefused, WorkerUnchanged, Result,
      BreakerRefuses
<1>16. CASE PollRequest  BY <1>16 DEF PollRequest, WorkerUnchanged,
      FailuresOnceOpen, BreakerRefuses
<1>17. CASE Reply  BY <1>17 DEF Reply, WorkerUnchanged, Result
<1>18. CASE RequestFails  BY <1>18 DEF RequestFails, WorkerUnchanged,
      RecordFailure, Result
<1>19. CASE PollRaises  BY <1>19 DEF PollRaises, WorkerUnchanged, Result
<1>20. CASE Dispatch  BY <1>20 DEF Dispatch, WorkerUnchanged, Schedule
<1>21. CASE CloseSession  BY <1>21 DEF CloseSession, WorkerUnchanged
<1>22. CASE UNCHANGED vars  BY <1>22 DEF vars, clockVars, appVars, breakerVars,
      callVars, stopVars
<1> QED
  BY <1>1, <1>2, <1>2a, <1>3, <1>4, <1>5, <1>6, <1>7, <1>7a, <1>8, <1>9, <1>10,
     <1>11, <1>12, <1>12a, <1>13, <1>14, <1>15, <1>16, <1>17, <1>18, <1>19, <1>20,
     <1>21, <1>22
  DEF Next, MainNext, HandlerNext, StopWorker, WorkerNext, RequestEnds

\* Between drain and sentinel nobody fills the slot: its only producer is suspended.
LEMMA SentinelPreserved ==
  ASSUME IInv, [Next]_vars
  PROVE  SentinelFits'
<1> USE PollAssumption, NoTimeAssumption DEF IInv, TypeOK, SentinelFits,
      clockVars, appVars, breakerVars, callVars, stopVars, MainRuns, HandlerActive
<1>1. CASE Advance  BY <1>1 DEF Advance
<1>2. CASE Tick  BY <1>2 DEF Tick, Publish
<1>2a. CASE AskPoll  BY <1>2a DEF AskPoll, PollAllowed
<1>3. CASE PutLock  BY <1>3 DEF PutLock
<1>4. CASE PutStore  BY <1>4 DEF PutStore
<1>5. CASE MarkPending  BY <1>5 DEF MarkPending
<1>6. CASE Deliver  BY <1>6 DEF Deliver, DeliveryAllowed
<1>7. CASE ApplySnapshot  BY <1>7 DEF ApplySnapshot, Accepted, Publish
<1>7a. CASE Applied  BY <1>7a DEF Applied
<1>8. CASE Exit  BY <1>8 DEF Exit
<1>9. CASE Signal  BY <1>9 DEF Signal, HandlerUnchanged
<1>10. CASE Drain  BY <1>10 DEF Drain, HandlerUnchanged
<1>11. CASE PutSentinel  BY <1>11 DEF PutSentinel, HandlerUnchanged
<1>12. CASE Join  BY <1>12 DEF Join, HandlerUnchanged
<1>12a. CASE CloseMqtt  BY <1>12a DEF CloseMqtt, HandlerUnchanged
<1>13. CASE Get  BY <1>13 DEF Get, WorkerUnchanged
<1>14. CASE CheckStopping  BY <1>14 DEF CheckStopping, WorkerUnchanged
<1>15. CASE PollRefused  BY <1>15 DEF PollRefused, WorkerUnchanged, Result,
      BreakerRefuses
<1>16. CASE PollRequest  BY <1>16 DEF PollRequest, WorkerUnchanged,
      FailuresOnceOpen, BreakerRefuses
<1>17. CASE Reply  BY <1>17 DEF Reply, WorkerUnchanged, Result
<1>18. CASE RequestFails  BY <1>18 DEF RequestFails, WorkerUnchanged,
      RecordFailure, Result
<1>19. CASE PollRaises  BY <1>19 DEF PollRaises, WorkerUnchanged, Result
<1>20. CASE Dispatch  BY <1>20 DEF Dispatch, WorkerUnchanged, Schedule
<1>21. CASE CloseSession  BY <1>21 DEF CloseSession, WorkerUnchanged
<1>22. CASE UNCHANGED vars  BY <1>22 DEF vars, clockVars, appVars, breakerVars,
      callVars, stopVars
<1> QED
  BY <1>1, <1>2, <1>2a, <1>3, <1>4, <1>5, <1>6, <1>7, <1>7a, <1>8, <1>9, <1>10,
     <1>11, <1>12, <1>12a, <1>13, <1>14, <1>15, <1>16, <1>17, <1>18, <1>19, <1>20,
     <1>21, <1>22
  DEF Next, MainNext, HandlerNext, StopWorker, WorkerNext, RequestEnds

\* A stamp never overtakes its request on the way to the main loop.
LEMMA HonestyPreserved ==
  ASSUME IInv, [Next]_vars
  PROVE  HonestyInv'
<1> USE PollAssumption, NoTimeAssumption DEF IInv, TypeOK, HonestyInv, Honest,
      Times, MaybeTimes, Snapshots, clockVars, appVars, breakerVars, callVars,
      stopVars
<1>1. CASE Advance  BY <1>1 DEF Advance
<1>2. CASE Tick  BY <1>2 DEF Tick, Publish
<1>2a. CASE AskPoll  BY <1>2a DEF AskPoll, PollAllowed
<1>3. CASE PutLock  BY <1>3 DEF PutLock
<1>4. CASE PutStore  BY <1>4 DEF PutStore
<1>5. CASE MarkPending  BY <1>5 DEF MarkPending
<1>6. CASE Deliver  BY <1>6 DEF Deliver, DeliveryAllowed
<1>7. CASE ApplySnapshot  BY <1>7 DEF ApplySnapshot, Accepted, Publish
<1>7a. CASE Applied  BY <1>7a DEF Applied
<1>8. CASE Exit  BY <1>8 DEF Exit
<1>9. CASE Signal  BY <1>9 DEF Signal, HandlerUnchanged
<1>10. CASE Drain  BY <1>10 DEF Drain, HandlerUnchanged
<1>11. CASE PutSentinel  BY <1>11 DEF PutSentinel, HandlerUnchanged
<1>12. CASE Join  BY <1>12 DEF Join, HandlerUnchanged
<1>12a. CASE CloseMqtt  BY <1>12a DEF CloseMqtt, HandlerUnchanged
<1>13. CASE Get  BY <1>13 DEF Get, WorkerUnchanged
<1>14. CASE CheckStopping  BY <1>14 DEF CheckStopping, WorkerUnchanged
<1>15. CASE PollRefused  BY <1>15 DEF PollRefused, WorkerUnchanged, Result,
      BreakerRefuses
<1>16. CASE PollRequest  BY <1>16 DEF PollRequest, WorkerUnchanged,
      FailuresOnceOpen, BreakerRefuses
<1>17. CASE Reply  BY <1>17 DEF Reply, WorkerUnchanged, Result
<1>18. CASE RequestFails  BY <1>18 DEF RequestFails, WorkerUnchanged,
      RecordFailure, Result
<1>19. CASE PollRaises  BY <1>19 DEF PollRaises, WorkerUnchanged, Result
<1>20. CASE Dispatch
  <2>1. result \in Snapshots /\ idle \in Seq(Snapshots) /\ idle' = Append(idle, result)
    BY <1>20 DEF Dispatch, Schedule
  <2>2. \A i \in 1..Len(idle') : Honest(idle'[i])
    <3> HIDE DEF Honest, Snapshots
    <3> QED  BY <2>1
  <2> QED  BY <1>20, <2>2 DEF Dispatch, WorkerUnchanged
<1>21. CASE CloseSession  BY <1>21 DEF CloseSession, WorkerUnchanged
<1>22. CASE UNCHANGED vars  BY <1>22 DEF vars, clockVars, appVars, breakerVars,
      callVars, stopVars
<1> QED
  BY <1>1, <1>2, <1>2a, <1>3, <1>4, <1>5, <1>6, <1>7, <1>7a, <1>8, <1>9, <1>10,
     <1>11, <1>12, <1>12a, <1>13, <1>14, <1>15, <1>16, <1>17, <1>18, <1>19, <1>20,
     <1>21, <1>22
  DEF Next, MainNext, HandlerNext, StopWorker, WorkerNext, RequestEnds

\* With one poll in flight, the acquisition on show is never newer than the next.
LEMMA OrderPreserved ==
  ASSUME IInv, [Next]_vars
  PROVE  OrderInv'
<1> USE PollAssumption, NoTimeAssumption DEF IInv, TypeOK, OrderInv, PendingInv,
      SingleFlight, InFlight, WorkerBusy, HonestyInv, Times, MaybeTimes,
      Snapshots, clockVars, appVars, breakerVars, callVars, stopVars
<1>1. CASE Advance  BY <1>1 DEF Advance
<1>2. CASE Tick  BY <1>2 DEF Tick, Publish
<1>2a. CASE AskPoll  BY <1>2a DEF AskPoll, PollAllowed
<1>3. CASE PutLock  BY <1>3 DEF PutLock
<1>4. CASE PutStore  BY <1>4 DEF PutStore
<1>5. CASE MarkPending  BY <1>5 DEF MarkPending
<1>6. CASE Deliver  BY <1>6 DEF Deliver, DeliveryAllowed
<1>7. CASE ApplySnapshot
  <2>1. idle' = <<>> /\ worker' \notin {"poll", "request", "dispatch"} /\ main' = "applied"
    BY <1>7 DEF ApplySnapshot
  <2>2. now' = now /\ (lastOk' = lastOk \/ lastOk' = NoTime \/ (lastOk' = delivering.at /\ lastOk' <= now))
    BY <1>7 DEF ApplySnapshot, Accepted, NextLastOk, FailClosedSources, Fresh
  <2> QED  BY <2>1, <2>2
<1>7a. CASE Applied  BY <1>7a DEF Applied
<1>8. CASE Exit  BY <1>8 DEF Exit
<1>9. CASE Signal  BY <1>9 DEF Signal, HandlerUnchanged
<1>10. CASE Drain  BY <1>10 DEF Drain, HandlerUnchanged
<1>11. CASE PutSentinel  BY <1>11 DEF PutSentinel, HandlerUnchanged
<1>12. CASE Join  BY <1>12 DEF Join, HandlerUnchanged
<1>12a. CASE CloseMqtt  BY <1>12a DEF CloseMqtt, HandlerUnchanged
<1>13. CASE Get  BY <1>13 DEF Get, WorkerUnchanged
<1>14. CASE CheckStopping  BY <1>14 DEF CheckStopping, WorkerUnchanged
<1>15. CASE PollRefused  BY <1>15 DEF PollRefused, WorkerUnchanged, Result,
      BreakerRefuses
<1>16. CASE PollRequest  BY <1>16 DEF PollRequest, WorkerUnchanged,
      FailuresOnceOpen, BreakerRefuses
<1>17. CASE Reply  BY <1>17 DEF Reply, WorkerUnchanged, Result
<1>18. CASE RequestFails  BY <1>18 DEF RequestFails, WorkerUnchanged,
      RecordFailure, Result
<1>19. CASE PollRaises  BY <1>19 DEF PollRaises, WorkerUnchanged, Result
<1>20. CASE Dispatch
  <2>1. idle = <<>> /\ result \in Snapshots /\ idle' = Append(idle, result)
    BY <1>20 DEF Dispatch, Schedule
  <2>2. Len(idle') = 1 /\ idle'[1] = result
    BY <2>1
  <2> QED  BY <1>20, <2>2 DEF Dispatch, WorkerUnchanged
<1>21. CASE CloseSession  BY <1>21 DEF CloseSession, WorkerUnchanged
<1>22. CASE UNCHANGED vars  BY <1>22 DEF vars, clockVars, appVars, breakerVars,
      callVars, stopVars
<1> QED
  BY <1>1, <1>2, <1>2a, <1>3, <1>4, <1>5, <1>6, <1>7, <1>7a, <1>8, <1>9, <1>10,
     <1>11, <1>12, <1>12a, <1>13, <1>14, <1>15, <1>16, <1>17, <1>18, <1>19, <1>20,
     <1>21, <1>22
  DEF Next, MainNext, HandlerNext, StopWorker, WorkerNext, RequestEnds

LEMMA Later ==
  /\ \A n, o, t \in Int : n - o < t => n < o + t
  /\ \A n, o, t, d, p \in Int : n < o + t /\ d <= n + p => d < o + t + p
  OBVIOUS

\* Nothing is called live past the timeout and the tick that must notice.
LEMMA DeadlinePreserved ==
  ASSUME IInv, [Next]_vars
  PROVE  DeadlineInv'
<1> USE PollAssumption, NoTimeAssumption DEF IInv, TypeOK, DeadlineInv,
      HonestyInv, Honest, Times, MaybeTimes, Snapshots, clockVars, appVars,
      breakerVars, callVars, stopVars, MainRuns, HandlerActive
<1>1. CASE Advance  BY <1>1 DEF Advance
<1>2. CASE Tick
  <2> DEFINE fresh == Fresh(now, lastOk, StaleTimeout)
  <2>1. connected' \/ outOk' => fresh
    BY <1>2 DEF Tick, Publish
  <2>2. fresh => lastOk \in Times /\ now < lastOk + StaleTimeout
    BY DEF Fresh
  <2>3. nextTick' = now + TickPeriod /\ now' = now /\ UNCHANGED <<lastOk, shown,
        handler>>
    BY <1>2 DEF Tick
  <2>4. now \in Nat /\ TickPeriod \in Nat /\ now <= now + TickPeriod  OBVIOUS
  <2> QED  BY <2>1, <2>2, <2>3, <2>4
<1>2a. CASE AskPoll  BY <1>2a DEF AskPoll, PollAllowed
<1>3. CASE PutLock  BY <1>3 DEF PutLock
<1>4. CASE PutStore  BY <1>4 DEF PutStore
<1>5. CASE MarkPending  BY <1>5 DEF MarkPending
<1>6. CASE Deliver  BY <1>6 DEF Deliver, DeliveryAllowed
<1>7. CASE ApplySnapshot
  <2> DEFINE fresh == Fresh(now, lastOk', StaleTimeout)
  <2>1. connected' \/ outOk' => fresh
    BY <1>7 DEF ApplySnapshot, Publish
  <2>2. lastOk' \in Times \/ lastOk' = NoTime
    BY <1>7 DEF ApplySnapshot, Accepted, NextLastOk, FailClosedSources, Fresh
  <2>3. lastOk' # NoTime => shown' \in Times /\ lastOk' <= shown'
    BY <1>7 DEF ApplySnapshot, Accepted, NextLastOk, FailClosedSources, Fresh
  <2>4. fresh => lastOk' \in Int /\ now < lastOk' + StaleTimeout
    <3> SUFFICES ASSUME fresh  PROVE lastOk' \in Int /\ now < lastOk' + StaleTimeout
      OBVIOUS
    <3>1. lastOk' \in Int
      BY <2>2 DEF Fresh
    <3>2. now - lastOk' < StaleTimeout
      BY DEF Fresh
    <3> HIDE DEF fresh
    <3>3. now \in Int /\ StaleTimeout \in Int
      OBVIOUS
    <3> QED  BY <3>1, <3>2, <3>3, Later
  <2> HIDE DEF fresh
  <2>5. UNCHANGED <<now, nextTick, handler>>
    BY <1>7 DEF ApplySnapshot
  <2>6. (handler' = "none" => now' <= nextTick') /\ nextTick' <= now' + TickPeriod
    BY <2>5
  <2>7. connected' \/ outOk' => nextTick' < lastOk' + StaleTimeout + TickPeriod
    <3> SUFFICES ASSUME connected' \/ outOk'
                 PROVE  nextTick' < lastOk' + StaleTimeout + TickPeriod
      OBVIOUS
    <3>1. lastOk' \in Int /\ now < lastOk' + StaleTimeout
      BY <2>1, <2>4
    <3>2. now \in Int /\ nextTick \in Int /\ StaleTimeout \in Int /\ TickPeriod \in Int
      OBVIOUS
    <3>3. nextTick' = nextTick /\ nextTick <= now + TickPeriod
      BY <2>5
    <3> QED  BY <3>1, <3>2, <3>3, Later
  <2>8. connected' \/ outOk' => lastOk' # NoTime
    BY <2>1, <2>4
  <2> QED  BY <2>3, <2>6, <2>7, <2>8
<1>7a. CASE Applied  BY <1>7a DEF Applied
<1>8. CASE Exit  BY <1>8 DEF Exit
<1>9. CASE Signal  BY <1>9 DEF Signal, HandlerUnchanged
<1>10. CASE Drain  BY <1>10 DEF Drain, HandlerUnchanged
<1>11. CASE PutSentinel  BY <1>11 DEF PutSentinel, HandlerUnchanged
<1>12. CASE Join  BY <1>12 DEF Join, HandlerUnchanged
<1>12a. CASE CloseMqtt  BY <1>12a DEF CloseMqtt, HandlerUnchanged
<1>13. CASE Get  BY <1>13 DEF Get, WorkerUnchanged
<1>14. CASE CheckStopping  BY <1>14 DEF CheckStopping, WorkerUnchanged
<1>15. CASE PollRefused  BY <1>15 DEF PollRefused, WorkerUnchanged, Result,
      BreakerRefuses
<1>16. CASE PollRequest  BY <1>16 DEF PollRequest, WorkerUnchanged,
      FailuresOnceOpen, BreakerRefuses
<1>17. CASE Reply  BY <1>17 DEF Reply, WorkerUnchanged, Result
<1>18. CASE RequestFails  BY <1>18 DEF RequestFails, WorkerUnchanged,
      RecordFailure, Result
<1>19. CASE PollRaises  BY <1>19 DEF PollRaises, WorkerUnchanged, Result
<1>20. CASE Dispatch  BY <1>20 DEF Dispatch, WorkerUnchanged, Schedule
<1>21. CASE CloseSession  BY <1>21 DEF CloseSession, WorkerUnchanged
<1>22. CASE UNCHANGED vars  BY <1>22 DEF vars, clockVars, appVars, breakerVars,
      callVars, stopVars
<1> QED
  BY <1>1, <1>2, <1>2a, <1>3, <1>4, <1>5, <1>6, <1>7, <1>7a, <1>8, <1>9, <1>10,
     <1>11, <1>12, <1>12a, <1>13, <1>14, <1>15, <1>16, <1>17, <1>18, <1>19, <1>20,
     <1>21, <1>22
  DEF Next, MainNext, HandlerNext, StopWorker, WorkerNext, RequestEnds

-----------------------------------------------------------------------------
LEMMA InvInit == Init => IInv
<1> SUFFICES ASSUME Init  PROVE IInv
  OBVIOUS
<1> USE PollAssumption, NoTimeAssumption
<1>1. NoSnapshot \in Snapshots
  BY DEF NoSnapshot, Snapshots, Times, MaybeTimes
<1>2. TypeOK
  <2> HIDE DEF NoSnapshot, Snapshots
  <2>1. <<>> \in Seq(Snapshots)  OBVIOUS
  <2>2. /\ now \in Times /\ nextTick \in Nat /\ joinStart \in Times /\ startedAt \in Times
        /\ failures \in 0..Threshold /\ streak \in 0..Threshold
    BY DEF Init, Times
  <2> QED  BY <1>1, <2>1, <2>2 DEF Init, TypeOK, MaybeTimes
<1>3. HonestyInv
  BY DEF Init, HonestyInv, Honest, NoSnapshot
<1>4. PendingInv /\ BreakerInv /\ SentinelFits /\ OrderInv /\ DeadlineInv
  BY DEF Init, PendingInv, SingleFlight, InFlight, WorkerBusy, BreakerInv,
         SentinelFits, OrderInv, DeadlineInv
<1> QED  BY <1>2, <1>3, <1>4 DEF IInv

LEMMA InvStep == IInv /\ [Next]_vars => IInv'
  BY TypePreserved, PendingPreserved, BreakerPreserved, SentinelPreserved,
     HonestyPreserved, OrderPreserved, DeadlinePreserved
  DEF IInv

\* The inductive invariant holds in every behaviour of the bridge.
THEOREM Invariant == Spec => []IInv
  BY InvInit, InvStep, PTL DEF Spec

\* Every variable keeps its type; the breaker's count stays within its threshold.
THEOREM TypeCorrect == Spec => []TypeOK
<1>1. IInv => TypeOK  BY DEF IInv
<1> QED  BY <1>1, Invariant, PTL

\* At most one poll is queued, worked on or waiting for delivery.
THEOREM OneOutstanding == Spec => []SingleFlight
<1>1. IInv => SingleFlight  BY DEF IInv, PendingInv
<1> QED  BY <1>1, Invariant, PTL

\* The signal handler's None always finds room in the queue.
THEOREM SentinelHasRoom == Spec => []SentinelFits
<1>1. IInv => SentinelFits  BY DEF IInv
<1> QED  BY <1>1, Invariant, PTL

\* While the handler is quiet, whatever D-Bus and the outputs call live was
\* requested less than a timeout and a tick ago.
THEOREM FreshnessBound == Spec => []FreshWhileResponsive
<1>1. IInv => FreshWhileResponsive
  BY PollAssumption, NoTimeAssumption
  DEF IInv, TypeOK, DeadlineInv, FreshWhileResponsive, Times, MaybeTimes
<1> QED  BY <1>1, Invariant, PTL

\* After Threshold recorded failures in a row, requests keep their distance.
THEOREM FailuresSpaceRequests == Spec => BreakerSpacing
<1> DEFINE Spaced == worker = "poll" /\ worker' = "request" /\ streak >= Threshold
                       => now - lastFailure >= ResetTimeout
<1>1. IInv /\ [Next]_vars => [Spaced]_vars
  <2> SUFFICES ASSUME IInv, Next, worker = "poll", worker' = "request", streak >= Threshold
               PROVE  now - lastFailure >= ResetTimeout
    OBVIOUS
  <2>1. PollRequest
    BY DEF Next, MainNext, HandlerNext, StopWorker, WorkerNext, RequestEnds, Advance,
           Signal, Tick, AskPoll, Applied, CloseMqtt,
           PutLock, PutStore, MarkPending, Deliver, ApplySnapshot, Exit, Drain,
           PutSentinel, Join, Get, CheckStopping, PollRefused, Reply, RequestFails,
           PollRaises, Dispatch, CloseSession, HandlerUnchanged
  <2>2. streak = Threshold
    BY PollAssumption DEF IInv, TypeOK
  <2> QED  BY <2>1, <2>2, PollAssumption, NoTimeAssumption
           DEF PollRequest, BreakerRefuses, IInv, BreakerInv, TypeOK, Times, MaybeTimes
<1> QED  BY <1>1, Invariant, PTL DEF Spec, BreakerSpacing

\* Once the shutdown has begun only an interrupted callback still publishes.
THEOREM LateResultsDiscarded == Spec => DiscardAfterStop
<1>1. [Next]_vars => [stopping /\ main # "apply" =>
                        main' # "apply" /\ UNCHANGED <<lastOk, shown>>]_vars
  BY DEF Next, MainNext, HandlerNext, StopWorker, WorkerNext, RequestEnds, Advance,
           Signal, Tick, AskPoll, Applied, CloseMqtt,
         PutLock, PutStore, MarkPending, Deliver, ApplySnapshot, Exit, Drain,
         PutSentinel, Join, Get, CheckStopping, PollRefused, PollRequest, Reply,
         RequestFails, PollRaises, Dispatch, CloseSession, HandlerUnchanged,
         WorkerUnchanged, DeliveryAllowed, PollAllowed, appVars
<1> QED  BY <1>1, PTL DEF Spec, DiscardAfterStop

-----------------------------------------------------------------------------
\* The refinement: the bridge's acquisition only moves forward.
LEMMA ContractInit == Init => Contract!Init
  BY DEF Init, Contract!Init

LEMMA ContractStep == IInv /\ [Next]_vars => [Contract!Next]_(Contract!vars)
<1> SUFFICES ASSUME IInv, [Next]_vars
             PROVE  [Contract!Next]_(Contract!vars)
  OBVIOUS
<1> USE DEF clockVars, appVars
<1>1. CASE Advance
  BY <1>1 DEF Advance, Contract!Next, Contract!Advance
<1>2. CASE Tick
  BY <1>2 DEF Tick, Publish, Contract!Next, Contract!Reevaluate, Fresh, Contract!Fresh
<1>3. CASE ApplySnapshot
  <2> DEFINE ok == Accepted(delivering)
  <2>1. now' = now /\ connected' = Fresh(now, lastOk', StaleTimeout)
    BY <1>3 DEF ApplySnapshot, Publish
  <2>2. CASE ok
    <3>1. lastOk' = delivering.at /\ Fresh(now, delivering.at, StaleTimeout)
      BY <1>3, <2>2 DEF ApplySnapshot, Accepted, NextLastOk
    <3>2. delivering.at \in 0..now
      BY <3>1, PollAssumption DEF IInv, TypeOK, Snapshots, Times, Fresh
    <3>3. lastOk # NoTime => lastOk <= delivering.at
      BY <1>3 DEF IInv, OrderInv, ApplySnapshot
    <3>4. Contract!Accept
      BY <2>1, <3>1, <3>2, <3>3 DEF Contract!Accept, Fresh, Contract!Fresh
    <3> QED  BY <3>4 DEF Contract!Next
  <2>3. CASE ~ok
    <3>1. lastOk' = lastOk
      BY <1>3, <2>3 DEF ApplySnapshot, NextLastOk, FailClosedSources
    <3> QED  BY <2>1, <3>1 DEF Contract!Next, Contract!Reevaluate, Fresh, Contract!Fresh
  <2> QED  BY <2>2, <2>3
<1>4. CASE \/ AskPoll \/ PutLock \/ PutStore \/ MarkPending \/ Deliver \/ Applied
           \/ Exit \/ Signal \/ HandlerNext \/ WorkerNext \/ UNCHANGED vars
  BY <1>4 DEF HandlerNext, StopWorker, WorkerNext, RequestEnds, Signal, AskPoll, Applied,
     CloseMqtt, PutLock, PutStore,
     MarkPending, Deliver, Exit, Drain, PutSentinel, Join, Get, CheckStopping,
     PollRefused, PollRequest, Reply, RequestFails, PollRaises, Dispatch,
     CloseSession, HandlerUnchanged, WorkerUnchanged, vars, Contract!vars
<1> QED  BY <1>1, <1>2, <1>3, <1>4 DEF Next, MainNext

\* The bridge implements the telemetry contract.
THEOREM BridgeImplementsContract == Spec => ImplementsContract
  BY ContractInit, ContractStep, Invariant, PTL DEF Spec, ImplementsContract, Contract!Spec

-----------------------------------------------------------------------------
(* EvccClient.                                                             *)


-----------------------------------------------------------------------------
\* The count of failures stays in its range, and the backoff is at least the
\* poll interval and the retry_after of the reply.
LEMMA FailuresFacts ==
  ASSUME NEW s \in States
  PROVE  Failures(s) \in 1..MaxFailures
<1>1. s.failures \in 0..5
  BY DEF States, MaxFailures
<1> QED  BY <1>1 DEF Failures, AtMost, MaxFailures

LEMMA DelayFacts ==
  ASSUME NEW k \in 1..MaxFailures, NEW after \in Nat
  PROVE  /\ Delay(k, after) \in Nat
         /\ Delay(k, after) >= Interval /\ Delay(k, after) >= after
<1>1. Doubled[k] \in Nat
  BY DEF Doubled, MaxFailures
<1> DEFINE d == FirstDelay * Doubled[k]
<1>2. d \in Nat
  BY <1>1, EvccAssumption
<1> HIDE DEF d
<1>3. AtMost(LoginInterval, d) \in Nat
  BY <1>2, EvccAssumption DEF AtMost
<1>4. Delay(k, after) = AtLeast(AtLeast(Interval, AtMost(LoginInterval, d)), after)
  BY DEF Delay, d
<1> QED  BY <1>3, <1>4, EvccAssumption DEF AtLeast

\* The fields of the state file.
LEMMA StateFields ==
  ASSUME NEW s \in States
  PROVE  s.poll \in Nat /\ s.login \in Nat
  BY DEF States

LEMMA FailedFacts ==
  ASSUME NEW s \in States, NEW kind, NEW after \in Nat
  PROVE  /\ Failed(s, kind, after) \in States
         /\ Failed(s, kind, after).poll = Delay(Failures(s), after)
         /\ Failed(s, kind, after).login = s.login
         /\ Failed(s, kind, after).blocked = (kind = "auth")
<1>1. Failures(s) \in 1..MaxFailures
  BY FailuresFacts
<1>2. Failures(s) \in 0..MaxFailures
  BY <1>1 DEF MaxFailures
<1>3. Delay(Failures(s), after) \in Nat
  BY <1>1, DelayFacts
<1> QED  BY <1>2, <1>3 DEF Failed, States

LEMMA ReserveFacts ==
  ASSUME NEW s \in States
  PROVE  /\ ReservePoll(s) \in States /\ ReservePoll(s).poll = Interval
         /\ ReservePoll(s).login = s.login /\ ReservePoll(s).blocked = s.blocked
         /\ ReserveLogin(s) \in States /\ ReserveLogin(s).login = LoginInterval
         /\ ReserveLogin(s).poll = s.poll /\ ReserveLogin(s).blocked = s.blocked
  BY EvccAssumption DEF ReservePoll, ReserveLogin, States

\* The state file after a good reply.
LEMMA GoodFacts ==
  ASSUME NEW s \in States
  PROVE  LET g == [ReservePoll(s) EXCEPT !.failures = 0] IN
         /\ g \in States /\ g.poll = Interval /\ g.login = s.login /\ g.blocked = s.blocked
<1>1. ReservePoll(s) \in States
  BY ReserveFacts
<1>2. 0 \in 0..MaxFailures
  BY DEF MaxFailures
<1> QED  BY <1>1, <1>2, ReserveFacts DEF States

-----------------------------------------------------------------------------
\* Until a request may be sent, the file keeps it away; once it is reserved,
\* nothing is owed any more.
PaceInv ==
  /\ owed <= state.poll
  /\ task \in {"reserve", "send"} => sinceRequest = Interval /\ state.poll = Interval
  /\ task \in {"reserve", "send", "wait"} => owed = 0
  /\ sinceRequest + state.poll >= Interval

\* The same for the start of an engine, which works on every request.
StartInv ==
  /\ sinceStart + state.login >= LoginInterval
  /\ task = "wait" => engine = "runs"
  /\ task = "reserve" => engine = "none" /\ sinceStart = LoginInterval
  /\ task = "send" /\ engine = "none" => sinceStart = LoginInterval /\ state.login = LoginInterval

\* A recorded refusal blocks the file, and a blocked client sends nothing.
RefusalInv ==
  /\ refusal = "recorded" => state.blocked /\ task \in {"down", "idle", "fails"}
  /\ task \in {"reserve", "send", "wait"} => ~state.blocked

\* A steady client replaces its reading an interval and a reply after the last.
SteadyInv ==
  steady =>
    /\ engine = "runs" /\ ~state.blocked /\ task \in {"idle", "send", "wait"}
    /\ task = "idle" => age + state.poll <= Interval + ReplyTimeout
    /\ task = "send" => age <= Interval + ReplyTimeout
    /\ task = "wait" => age <= Interval + ReplyTimeout + flight

EvccInv == EvccTypeOK /\ PaceInv /\ StartInv /\ RefusalInv /\ SteadyInv

LEMMA LessFacts ==
  ASSUME NEW n \in Nat
  PROVE  Less(n) \in Nat /\ Less(n) <= n /\ Less(n) + 1 >= n /\ (n # 0 => Less(n) = n - 1)
  BY DEF Less

LEMMA EvccInvInit == EvccInit => EvccInv
<1> SUFFICES ASSUME EvccInit  PROVE EvccInv
  OBVIOUS
<1> USE EvccAssumption DEF EvccInit
<1>1. state \in States /\ state.poll = 0 /\ state.login = 0
  BY DEF States, MaxFailures
<1>2. steady \in BOOLEAN
  BY Zenon
<1>3. EvccTypeOK
  BY <1>1, <1>2 DEF EvccTypeOK
<1>4. PaceInv /\ StartInv
  BY <1>1 DEF PaceInv, StartInv
<1>5. RefusalInv /\ SteadyInv
  BY DEF RefusalInv, SteadyInv
<1> QED  BY <1>3, <1>4, <1>5 DEF EvccInv

\* Reading the file changes nothing.
LEMMA StartKeeps == EvccInv /\ Start => EvccInv'
<1> SUFFICES ASSUME EvccInv, Start  PROVE EvccInv'
  OBVIOUS
<1> USE EvccAssumption
<1>1. state' = state /\ state \in States
  BY DEF EvccInv, EvccTypeOK, Start, historyVars
<1>2. state.poll \in Nat /\ state.login \in Nat
  BY StateFields DEF EvccInv, EvccTypeOK
<1>3. EvccTypeOK'
  BY <1>1, <1>2 DEF EvccTypeOK, AtMost, EvccInv, Start, historyVars
<1>4. PaceInv'
  BY <1>1, <1>2 DEF EvccTypeOK, PaceInv, EvccInv, Start, historyVars
<1>5. StartInv'
  BY <1>1, <1>2 DEF EvccTypeOK, StartInv, EvccInv, Start, historyVars
<1>6. RefusalInv'
  BY <1>1 DEF RefusalInv, EvccInv, Start, historyVars
<1>7. SteadyInv'
  BY <1>1, <1>2 DEF EvccTypeOK, SteadyInv, StartInv, RefusalInv, AtMost, EvccInv, Start,
        historyVars
<1> QED  BY <1>3, <1>4, <1>5, <1>6, <1>7 DEF EvccInv

\* A crash leaves the file.
LEMMA DownKeeps == EvccInv /\ Down => EvccInv'
<1> SUFFICES ASSUME EvccInv, Down  PROVE EvccInv'
  OBVIOUS
<1> USE EvccAssumption
<1>1. state' = state /\ state \in States
  BY DEF EvccInv, EvccTypeOK, Down, historyVars
<1>2. state.poll \in Nat /\ state.login \in Nat
  BY StateFields DEF EvccInv, EvccTypeOK
<1>3. EvccTypeOK'
  <2>1. steady' \in BOOLEAN
    BY Zenon DEF EvccTypeOK, EvccInv, Down, historyVars
  <2>2. /\ task' \in {"down", "idle", "reserve", "send", "wait", "fails"}
        /\ engine' \in {"none", "runs", "stuck"} /\ flight' \in 0..ReplyTimeout /\ age' \in 0..EvccStaleTimeout
    BY DEF EvccTypeOK, AtMost, EvccInv, Down, historyVars
  <2>3. sinceRequest' \in 0..Interval /\ sinceStart' \in 0..LoginInterval
    BY DEF EvccTypeOK, EvccInv, Down, historyVars
  <2>4. owed' \in Nat /\ refusal' \in {"none", "unrecorded", "recorded"}
    BY DEF EvccTypeOK, EvccInv, Down, historyVars
  <2> QED  BY <1>1, <2>1, <2>2, <2>3, <2>4 DEF EvccTypeOK
<1>4. PaceInv'
  BY <1>1, <1>2 DEF EvccTypeOK, PaceInv, EvccInv, Down, historyVars
<1>5. StartInv'
  BY <1>1, <1>2 DEF EvccTypeOK, StartInv, EvccInv, Down, historyVars
<1>6. RefusalInv'
  BY <1>1 DEF RefusalInv, EvccInv, Down, historyVars
<1>7. SteadyInv'
  BY <1>1, <1>2 DEF EvccTypeOK, SteadyInv, StartInv, RefusalInv, AtMost, EvccInv, Down,
        historyVars
<1> QED  BY <1>3, <1>4, <1>5, <1>6, <1>7 DEF EvccInv

\* A reservation that could not be saved changes nothing.
LEMMA ReserveFailsKeeps == EvccInv /\ ReserveFails => EvccInv'
<1> SUFFICES ASSUME EvccInv, ReserveFails  PROVE EvccInv'
  OBVIOUS
<1> USE EvccAssumption
<1>1. state' = state /\ state \in States
  BY DEF EvccInv, EvccTypeOK, ReserveFails, historyVars
<1>2. state.poll \in Nat /\ state.login \in Nat
  BY StateFields DEF EvccInv, EvccTypeOK
<1>3. EvccTypeOK'
  BY <1>1, <1>2 DEF EvccTypeOK, AtMost, EvccInv, ReserveFails, historyVars, Due
<1>4. PaceInv'
  BY <1>1, <1>2 DEF EvccTypeOK, PaceInv, EvccInv, ReserveFails, historyVars, Due
<1>5. StartInv'
  BY <1>1, <1>2 DEF EvccTypeOK, StartInv, EvccInv, ReserveFails, historyVars, Due
<1>6. RefusalInv'
  BY <1>1 DEF RefusalInv, EvccInv, ReserveFails, historyVars, Due
<1>7. SteadyInv'
  BY <1>1, <1>2 DEF EvccTypeOK, SteadyInv, StartInv, RefusalInv, AtMost, EvccInv,
        ReserveFails, historyVars, Due
<1> QED  BY <1>3, <1>4, <1>5, <1>6, <1>7 DEF EvccInv

\* The request is sent, and an engine started, on saved reservations.
LEMMA SendKeeps == EvccInv /\ Send => EvccInv'
<1> SUFFICES ASSUME EvccInv, Send  PROVE EvccInv'
  OBVIOUS
<1> USE EvccAssumption
<1>1. state' = state /\ state \in States
  BY DEF EvccInv, EvccTypeOK, Send, historyVars
<1>2. state.poll \in Nat /\ state.login \in Nat
  BY StateFields DEF EvccInv, EvccTypeOK
<1>3. EvccTypeOK'
  <2>1. steady' \in BOOLEAN
    BY Zenon DEF EvccTypeOK, EvccInv, Send, historyVars
  <2>2. /\ task' \in {"down", "idle", "reserve", "send", "wait", "fails"}
        /\ engine' \in {"none", "runs", "stuck"} /\ flight' \in 0..ReplyTimeout /\ age' \in 0..EvccStaleTimeout
    BY DEF EvccTypeOK, AtMost, EvccInv, Send, historyVars
  <2>3. sinceRequest' \in 0..Interval /\ sinceStart' \in 0..LoginInterval
    BY DEF EvccTypeOK, EvccInv, Send, historyVars
  <2>4. owed' \in Nat /\ refusal' \in {"none", "unrecorded", "recorded"}
    BY DEF EvccTypeOK, EvccInv, Send, historyVars
  <2> QED  BY <1>1, <2>1, <2>2, <2>3, <2>4 DEF EvccTypeOK
<1>4. PaceInv'
  BY <1>1, <1>2 DEF EvccTypeOK, PaceInv, EvccInv, Send, historyVars
<1>5. StartInv'
  BY <1>1, <1>2 DEF EvccTypeOK, StartInv, EvccInv, Send, historyVars
<1>6. RefusalInv'
  BY <1>1 DEF RefusalInv, EvccInv, Send, historyVars
<1>7. SteadyInv'
  BY <1>1, <1>2 DEF EvccTypeOK, SteadyInv, StartInv, RefusalInv, AtMost, EvccInv, Send,
        historyVars
<1> QED  BY <1>3, <1>4, <1>5, <1>6, <1>7 DEF EvccInv

\* A reply that is not recorded leaves the reservation.
LEMMA ReplyUnrecordedKeeps == EvccInv /\ ReplyUnrecorded => EvccInv'
<1> SUFFICES ASSUME EvccInv, ReplyUnrecorded  PROVE EvccInv'
  OBVIOUS
<1> USE EvccAssumption
<1>1. state' = state /\ state \in States
  BY DEF EvccInv, EvccTypeOK, ReplyUnrecorded, historyVars
<1>2. state.poll \in Nat /\ state.login \in Nat
  BY StateFields DEF EvccInv, EvccTypeOK
<1>3. EvccTypeOK'
  <2>1. steady' \in BOOLEAN
    BY Zenon DEF EvccTypeOK, EvccInv, ReplyUnrecorded, historyVars
  <2>2. /\ task' \in {"down", "idle", "reserve", "send", "wait", "fails"}
        /\ engine' \in {"none", "runs", "stuck"} /\ flight' \in 0..ReplyTimeout /\ age' \in 0..EvccStaleTimeout
    BY DEF EvccTypeOK, AtMost, EvccInv, ReplyUnrecorded, historyVars
  <2>3. sinceRequest' \in 0..Interval /\ sinceStart' \in 0..LoginInterval
    BY DEF EvccTypeOK, EvccInv, ReplyUnrecorded, historyVars
  <2>4. owed' \in Nat /\ refusal' \in {"none", "unrecorded", "recorded"}
    BY DEF EvccTypeOK, EvccInv, ReplyUnrecorded, historyVars
  <2> QED  BY <1>1, <2>1, <2>2, <2>3, <2>4 DEF EvccTypeOK
<1>4. PaceInv'
  BY <1>1, <1>2 DEF EvccTypeOK, PaceInv, EvccInv, ReplyUnrecorded, historyVars
<1>5. StartInv'
  BY <1>1, <1>2 DEF EvccTypeOK, StartInv, EvccInv, ReplyUnrecorded, historyVars
<1>6. RefusalInv'
  BY <1>1 DEF RefusalInv, EvccInv, ReplyUnrecorded, historyVars
<1>7. SteadyInv'
  BY <1>1, <1>2 DEF EvccTypeOK, SteadyInv, StartInv, RefusalInv, AtMost, EvccInv,
        ReplyUnrecorded, historyVars
<1> QED  BY <1>3, <1>4, <1>5, <1>6, <1>7 DEF EvccInv

\* An exception leaves the reservation.
LEMMA EngineFailsKeeps == EvccInv /\ EngineFails => EvccInv'
<1> SUFFICES ASSUME EvccInv, EngineFails  PROVE EvccInv'
  OBVIOUS
<1> USE EvccAssumption
<1>1. state' = state /\ state \in States
  BY DEF EvccInv, EvccTypeOK, EngineFails, historyVars
<1>2. state.poll \in Nat /\ state.login \in Nat
  BY StateFields DEF EvccInv, EvccTypeOK
<1>3. EvccTypeOK'
  <2>1. steady' \in BOOLEAN
    BY Zenon DEF EvccTypeOK, EvccInv, EngineFails, historyVars
  <2>2. /\ task' \in {"down", "idle", "reserve", "send", "wait", "fails"}
        /\ engine' \in {"none", "runs", "stuck"} /\ flight' \in 0..ReplyTimeout /\ age' \in 0..EvccStaleTimeout
    BY DEF EvccTypeOK, AtMost, EvccInv, EngineFails, historyVars
  <2>3. sinceRequest' \in 0..Interval /\ sinceStart' \in 0..LoginInterval
    BY DEF EvccTypeOK, EvccInv, EngineFails, historyVars
  <2>4. owed' \in Nat /\ refusal' \in {"none", "unrecorded", "recorded"}
    BY DEF EvccTypeOK, EvccInv, EngineFails, historyVars
  <2> QED  BY <1>1, <2>1, <2>2, <2>3, <2>4 DEF EvccTypeOK
<1>4. PaceInv'
  BY <1>1, <1>2 DEF EvccTypeOK, PaceInv, EvccInv, EngineFails, historyVars
<1>5. StartInv'
  BY <1>1, <1>2 DEF EvccTypeOK, StartInv, EvccInv, EngineFails, historyVars
<1>6. RefusalInv'
  BY <1>1 DEF RefusalInv, EvccInv, EngineFails, historyVars
<1>7. SteadyInv'
  BY <1>1, <1>2 DEF EvccTypeOK, SteadyInv, StartInv, RefusalInv, AtMost, EvccInv,
        EngineFails, historyVars
<1> QED  BY <1>3, <1>4, <1>5, <1>6, <1>7 DEF EvccInv

\* A due poll owes nothing.
LEMMA ReserveKeeps == EvccInv /\ Reserve => EvccInv'
<1> SUFFICES ASSUME EvccInv, Reserve  PROVE EvccInv'
  OBVIOUS
<1> USE EvccAssumption
<1>1. /\ state' \in States /\ state'.poll = Interval /\ state'.login = state.login
      /\ state'.blocked = state.blocked
  BY ReserveFacts DEF EvccInv, EvccTypeOK, Reserve
<1>2. state.poll \in Nat /\ state.login \in Nat
  BY StateFields DEF EvccInv, EvccTypeOK
<1>3. EvccTypeOK'
  BY <1>1, <1>2 DEF EvccTypeOK, AtMost, EvccInv, Reserve, historyVars, Due
<1>4. PaceInv'
  BY <1>1, <1>2 DEF EvccTypeOK, PaceInv, EvccInv, Reserve, historyVars, Due
<1>5. StartInv'
  BY <1>1, <1>2 DEF EvccTypeOK, StartInv, EvccInv, Reserve, historyVars, Due
<1>6. RefusalInv'
  BY <1>1 DEF RefusalInv, EvccInv, Reserve, historyVars, Due
<1>7. SteadyInv'
  BY <1>1, <1>2 DEF EvccTypeOK, SteadyInv, StartInv, RefusalInv, AtMost, EvccInv,
        Reserve, historyVars, Due
<1> QED  BY <1>3, <1>4, <1>5, <1>6, <1>7 DEF EvccInv

\* A due start owes nothing.
LEMMA ReserveStartKeeps == EvccInv /\ ReserveStart => EvccInv'
<1> SUFFICES ASSUME EvccInv, ReserveStart  PROVE EvccInv'
  OBVIOUS
<1> USE EvccAssumption
<1>1. /\ state' \in States /\ state'.poll = state.poll /\ state'.login =
        LoginInterval
      /\ state'.blocked = state.blocked
  BY ReserveFacts DEF EvccInv, EvccTypeOK, ReserveStart
<1>2. state.poll \in Nat /\ state.login \in Nat
  BY StateFields DEF EvccInv, EvccTypeOK
<1>3. EvccTypeOK'
  BY <1>1, <1>2 DEF EvccTypeOK, AtMost, EvccInv, ReserveStart, historyVars
<1>4. PaceInv'
  BY <1>1, <1>2 DEF EvccTypeOK, PaceInv, EvccInv, ReserveStart, historyVars
<1>5. StartInv'
  BY <1>1, <1>2 DEF EvccTypeOK, StartInv, EvccInv, ReserveStart, historyVars
<1>6. RefusalInv'
  BY <1>1 DEF RefusalInv, EvccInv, ReserveStart, historyVars
<1>7. SteadyInv'
  BY <1>1, <1>2 DEF EvccTypeOK, SteadyInv, StartInv, RefusalInv, AtMost, EvccInv,
        ReserveStart, historyVars
<1> QED  BY <1>3, <1>4, <1>5, <1>6, <1>7 DEF EvccInv

\* A good reply schedules the next poll.
LEMMA ReplyOkKeeps == EvccInv /\ ReplyOk => EvccInv'
<1> SUFFICES ASSUME EvccInv, ReplyOk  PROVE EvccInv'
  OBVIOUS
<1> USE EvccAssumption
<1>1. /\ state' \in States /\ state'.poll = Interval /\ state'.login = state.login
      /\ state'.blocked = state.blocked
  BY GoodFacts DEF EvccInv, EvccTypeOK, ReplyOk
<1>2. state.poll \in Nat /\ state.login \in Nat
  BY StateFields DEF EvccInv, EvccTypeOK
<1>3. EvccTypeOK'
  BY <1>1, <1>2 DEF EvccTypeOK, AtMost, EvccInv, ReplyOk, historyVars
<1>4. PaceInv'
  BY <1>1, <1>2 DEF EvccTypeOK, PaceInv, EvccInv, ReplyOk, historyVars
<1>5. StartInv'
  BY <1>1, <1>2 DEF EvccTypeOK, StartInv, EvccInv, ReplyOk, historyVars
<1>6. RefusalInv'
  BY <1>1 DEF RefusalInv, EvccInv, ReplyOk, historyVars
<1>7. SteadyInv'
  BY <1>1, <1>2 DEF EvccTypeOK, SteadyInv, StartInv, RefusalInv, AtMost, EvccInv,
        ReplyOk, historyVars
<1> QED  BY <1>3, <1>4, <1>5, <1>6, <1>7 DEF EvccInv

\* The recovery command starts afresh.
LEMMA RecoverKeeps == EvccInv /\ Recover => EvccInv'
<1> SUFFICES ASSUME EvccInv, Recover  PROVE EvccInv'
  OBVIOUS
<1> USE EvccAssumption
<1>1. /\ state' \in States /\ state'.poll = 0 /\ state'.login = 0
      /\ state'.blocked = FALSE
  BY DEF Recover, States, MaxFailures
<1>2. state.poll \in Nat /\ state.login \in Nat
  BY StateFields DEF EvccInv, EvccTypeOK
<1>3. EvccTypeOK'
  BY <1>1, <1>2 DEF EvccTypeOK, AtMost, EvccInv, Recover, historyVars
<1>4. PaceInv'
  BY <1>1, <1>2 DEF EvccTypeOK, PaceInv, EvccInv, Recover, historyVars
<1>5. StartInv'
  BY <1>1, <1>2 DEF EvccTypeOK, StartInv, EvccInv, Recover, historyVars
<1>6. RefusalInv'
  BY <1>1 DEF RefusalInv, EvccInv, Recover, historyVars
<1>7. SteadyInv'
  BY <1>1, <1>2 DEF EvccTypeOK, SteadyInv, StartInv, RefusalInv, AtMost, EvccInv,
        Recover, historyVars
<1> QED  BY <1>3, <1>4, <1>5, <1>6, <1>7 DEF EvccInv

\* A recorded failure demands what the file then demands, also when the engine
\* cannot be stopped after it.
LEMMA ReplyFailedKeeps == EvccInv /\ ReplyFailed => EvccInv'
<1> SUFFICES ASSUME EvccInv, ReplyFailed  PROVE EvccInv'
  OBVIOUS
<1> USE EvccAssumption
<1>1. PICK kind \in Kinds, after \in RetryAfters :
        /\ state' = Failed(state, kind, after)
        /\ owed' = AtLeast(owed, Delay(Failures(state), after))
        /\ refusal' = IF kind = "auth" THEN "recorded" ELSE refusal
        /\ \/ task' = "idle" /\ UNCHANGED engine
           \/ task' = "idle" /\ engine' = "none"
           \/ task' = "fails" /\ UNCHANGED engine
  BY DEF ReplyFailed
<1>2. /\ task = "wait" /\ flight' = 0 /\ steady' = FALSE
      /\ UNCHANGED <<age, sinceRequest, sinceStart>>
  BY DEF ReplyFailed
<1>3. state \in States /\ owed = 0 /\ after \in Nat
  BY <1>2 DEF EvccInv, EvccTypeOK, PaceInv
<1> DEFINE d == Delay(Failures(state), after)
<1>4. d \in Nat /\ d >= Interval
  BY <1>3, FailuresFacts, DelayFacts
<1>5. /\ state' \in States /\ state'.poll = d /\ state'.login = state.login
      /\ state'.blocked = (kind = "auth")
  BY <1>1, <1>3, FailedFacts
<1>6. owed' = AtLeast(owed, d)
  BY <1>1
<1>7. task' \in {"idle", "fails"} /\ engine' \in {"none", "runs", "stuck"}
  BY <1>1 DEF EvccInv, EvccTypeOK
<1> HIDE DEF d
<1>8. EvccTypeOK'
  <2>1. steady' \in BOOLEAN
    BY <1>2, Zenon
  <2>2. owed' \in Nat
    BY <1>3, <1>4, <1>6 DEF AtLeast
  <2>3. refusal' \in {"none", "unrecorded", "recorded"}
    BY <1>1 DEF EvccInv, EvccTypeOK
  <2> QED  BY <1>2, <1>5, <1>7, <2>1, <2>2, <2>3 DEF EvccInv, EvccTypeOK
<1>9. PaceInv'
  BY <1>2, <1>3, <1>4, <1>5, <1>6, <1>7 DEF EvccInv, EvccTypeOK, PaceInv, AtLeast
<1>10. StartInv'
  BY <1>2, <1>5, <1>7 DEF EvccInv, StartInv
<1>11. RefusalInv'
  BY <1>1, <1>2, <1>5, <1>7 DEF EvccInv, RefusalInv
<1>12. SteadyInv'
  BY <1>2 DEF SteadyInv
<1> QED  BY <1>8, <1>9, <1>10, <1>11, <1>12 DEF EvccInv

\* The transport failure takes the place of what was on record, and of what it
\* demanded.
LEMMA RecordTransportKeeps == EvccInv /\ RecordTransport => EvccInv'
<1> SUFFICES ASSUME EvccInv, RecordTransport  PROVE EvccInv'
  OBVIOUS
<1> USE EvccAssumption
<1>1. /\ task = "fails" /\ task' = "idle" /\ engine' = "none"
      /\ UNCHANGED <<flight, age, steady, sinceRequest, sinceStart>>
  BY DEF RecordTransport
<1>2. state \in States /\ ~steady
  BY <1>1 DEF EvccInv, EvccTypeOK, SteadyInv
<1> DEFINE d == Delay(Failures(state), 0)
<1>3. d \in Nat /\ d >= Interval
  BY <1>2, FailuresFacts, DelayFacts
<1>4. \/ /\ state' \in States /\ state'.poll = d /\ state'.login = state.login
         /\ owed' = d
         /\ refusal' = IF refusal = "recorded" THEN "unrecorded" ELSE refusal
      \/ UNCHANGED <<state, owed, refusal>>
  BY <1>2, FailedFacts DEF RecordTransport
<1> HIDE DEF d
<1>5. state' \in States /\ owed' \in Nat /\ refusal' \in {"none", "unrecorded", "recorded"}
  BY <1>2, <1>3, <1>4 DEF EvccInv, EvccTypeOK
<1>6. EvccTypeOK'
  BY <1>1, <1>5 DEF EvccInv, EvccTypeOK
<1>7. PaceInv'
  BY <1>1, <1>2, <1>3, <1>4 DEF EvccInv, EvccTypeOK, PaceInv
<1>8. StartInv'
  BY <1>1, <1>4 DEF EvccInv, StartInv
<1>9. RefusalInv'
  BY <1>1, <1>4 DEF EvccInv, EvccTypeOK, RefusalInv
<1>10. SteadyInv'
  BY <1>1, <1>2 DEF SteadyInv
<1> QED  BY <1>6, <1>7, <1>8, <1>9, <1>10 DEF EvccInv

\* A stop that fails leaves the record alone.
LEMMA StopFailsKeeps == EvccInv /\ StopFails => EvccInv'
<1> SUFFICES ASSUME EvccInv, StopFails  PROVE EvccInv'
  OBVIOUS
<1> USE EvccAssumption
<1>1. /\ task = "fails" /\ task' = "idle" /\ engine' = "stuck"
      /\ UNCHANGED <<state, flight, age, steady, sinceRequest, sinceStart, owed, refusal>>
  BY DEF StopFails, historyVars
<1>2. ~steady
  BY <1>1 DEF EvccInv, SteadyInv
<1>3. EvccTypeOK'
  BY <1>1 DEF EvccInv, EvccTypeOK
<1>4. PaceInv' /\ StartInv'
  BY <1>1 DEF EvccInv, PaceInv, StartInv
<1>5. RefusalInv' /\ SteadyInv'
  BY <1>1, <1>2 DEF EvccInv, RefusalInv, SteadyInv
<1> QED  BY <1>3, <1>4, <1>5 DEF EvccInv

\* A unit of time shortens what is owed and what covers it alike; a steady
\* client does not let it pass when a poll is due.
LEMMA ElapseKeeps == EvccInv /\ Elapse => EvccInv'
<1> SUFFICES ASSUME EvccInv, Elapse  PROVE EvccInv'
  OBVIOUS
<1> USE EvccAssumption
<1>1. state \in States /\ state.poll \in Nat /\ state.login \in Nat
  BY StateFields DEF EvccInv, EvccTypeOK
<1>2. Less(state.poll) \in Nat /\ Less(state.login) \in Nat
  BY <1>1, LessFacts
<1>3. /\ state' \in States /\ state'.poll = Less(state.poll)
      /\ state'.login = Less(state.login) /\ state'.blocked = state.blocked
  BY <1>1, <1>2 DEF Elapse, States
<1>4. /\ task \in {"down", "idle", "wait"} /\ UNCHANGED <<task, engine, steady, refusal>>
      /\ flight' = IF task = "wait" THEN flight + 1 ELSE flight
      /\ task = "wait" => flight < ReplyTimeout
      /\ age' = AtMost(age + 1, EvccStaleTimeout)
      /\ sinceRequest' = AtMost(sinceRequest + 1, Interval)
      /\ sinceStart' = AtMost(sinceStart + 1, LoginInterval)
      /\ owed' = Less(owed)
      /\ task = "idle" /\ steady => ~Due
  BY DEF Elapse
<1>5. EvccTypeOK'
  <2>1. flight' \in 0..ReplyTimeout /\ age' \in 0..EvccStaleTimeout
    BY <1>4 DEF EvccInv, EvccTypeOK, AtMost
  <2>2. sinceRequest' \in 0..Interval /\ sinceStart' \in 0..LoginInterval
    BY <1>4 DEF EvccInv, EvccTypeOK, AtMost
  <2>3. owed' \in Nat
    BY <1>4, LessFacts DEF EvccInv, EvccTypeOK
  <2> QED  BY <1>3, <1>4, <2>1, <2>2, <2>3 DEF EvccInv, EvccTypeOK
<1>6. PaceInv'
  BY <1>1, <1>3, <1>4 DEF EvccInv, EvccTypeOK, PaceInv, AtMost, Less
<1>7. StartInv'
  BY <1>1, <1>3, <1>4 DEF EvccInv, EvccTypeOK, StartInv, AtMost, Less
<1>8. RefusalInv'
  BY <1>3, <1>4 DEF EvccInv, RefusalInv
<1>9. SteadyInv'
  <2> SUFFICES ASSUME steady  PROVE SteadyInv'
    BY <1>4 DEF SteadyInv
  <2>1. task \in {"idle", "wait"} /\ engine = "runs" /\ ~state.blocked
    BY <1>4 DEF EvccInv, SteadyInv
  <2>2. CASE task = "idle"
    <3>1. state.poll # 0
      BY <1>4, <2>1, <2>2 DEF Due
    <3>2. Less(state.poll) = state.poll - 1
      BY <3>1 DEF Less
    <3>3. age + state.poll <= Interval + ReplyTimeout
      BY <2>2 DEF EvccInv, SteadyInv
    <3>4. age' + state'.poll <= Interval + ReplyTimeout
      BY <1>1, <1>3, <1>4, <3>1, <3>2, <3>3 DEF EvccInv, EvccTypeOK, AtMost
    <3> QED  BY <1>3, <1>4, <2>1, <2>2, <3>4 DEF SteadyInv
  <2>3. CASE task = "wait"
    <3>1. age <= Interval + ReplyTimeout + flight
      BY <2>3 DEF EvccInv, SteadyInv
    <3>2. age' <= Interval + ReplyTimeout + flight'
      BY <1>4, <2>3, <3>1 DEF EvccInv, EvccTypeOK, AtMost
    <3> QED  BY <1>3, <1>4, <2>1, <2>3, <3>2 DEF SteadyInv
  <2> QED  BY <2>1, <2>2, <2>3
<1> QED  BY <1>5, <1>6, <1>7, <1>8, <1>9 DEF EvccInv

LEMMA EvccInvStep == EvccInv /\ [EvccNext]_evccVars => EvccInv'
<1> SUFFICES ASSUME EvccInv, [EvccNext]_evccVars  PROVE EvccInv'
  OBVIOUS
<1>1. CASE Start \/ Down \/ Reserve \/ ReserveStart \/ ReserveFails
  BY <1>1, StartKeeps, DownKeeps, ReserveKeeps, ReserveStartKeeps, ReserveFailsKeeps
<1>2. CASE Send \/ ReplyOk \/ ReplyFailed \/ ReplyUnrecorded \/ EngineFails
  BY <1>2, SendKeeps, ReplyOkKeeps, ReplyFailedKeeps, ReplyUnrecordedKeeps, EngineFailsKeeps
<1>3. CASE RecordTransport \/ StopFails \/ Recover \/ Elapse
  BY <1>3, RecordTransportKeeps, StopFailsKeeps, RecoverKeeps, ElapseKeeps
<1>4. CASE UNCHANGED evccVars
  BY <1>4 DEF evccVars, historyVars, EvccInv, EvccTypeOK, PaceInv, StartInv, RefusalInv, SteadyInv
<1> QED  BY <1>1, <1>2, <1>3, <1>4 DEF EvccNext

\* The inductive invariant holds in every behaviour.
THEOREM EvccInvariant == EvccSpec => []EvccInv
  BY EvccInvInit, EvccInvStep, PTL DEF EvccSpec

-----------------------------------------------------------------------------
\* Every variable keeps its type.
THEOREM EvccTypeCorrect == EvccSpec => []EvccTypeOK
<1>1. EvccInv => EvccTypeOK  BY DEF EvccInv
<1> QED  BY <1>1, EvccInvariant, PTL

\* Every request keeps its intervals and waits out what was recorded, through
\* crashes, restarts and failed saves.
THEOREM RequestsAreAllowed == EvccSpec => RequestsAllowed
<1>1. EvccInv /\ Sends => /\ sinceRequest = Interval /\ (engine = "none" => sinceStart = LoginInterval)
                       /\ owed = 0 /\ refusal # "recorded"
  BY DEF EvccInv, PaceInv, StartInv, RefusalInv, Sends
<1>2. EvccInv /\ [EvccNext]_evccVars =>
        [Sends => /\ sinceRequest = Interval /\ (engine = "none" => sinceStart = LoginInterval)
                  /\ owed = 0 /\ refusal # "recorded"]_evccVars
  BY <1>1
<1> QED  BY <1>2, EvccInvariant, PTL DEF EvccSpec, RequestsAllowed

\* While the engine answers, the reading on show does not expire, provided the
\* stale timeout covers the interval and two replies.
THEOREM ReadingStaysFresh == EvccSpec => []FreshWhileAnswering
<1>1. EvccInv => FreshWhileAnswering
  <2> SUFFICES ASSUME EvccInv, EvccStaleTimeout > Interval + 2 * ReplyTimeout, steady
               PROVE  age < EvccStaleTimeout
    BY DEF FreshWhileAnswering
  <2>1. state.poll \in Nat
    BY StateFields DEF EvccInv, EvccTypeOK
  <2>2. age <= Interval + 2 * ReplyTimeout
    BY <2>1, EvccAssumption DEF EvccInv, EvccTypeOK, SteadyInv
  <2> QED  BY <2>2, EvccAssumption DEF EvccInv, EvccTypeOK
<1> QED  BY <1>1, EvccInvariant, PTL

=============================================================================
