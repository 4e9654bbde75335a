---------------------------- MODULE TrafficGate ----------------------------
(***************************************************************************)
(* The vehicle engine (src/vehicle-engine): one process per EvccClient     *)
(* that answers "poll" lines by calling a provider library, and the gate   *)
(* (traffic.go) that every HTTP request of the library passes.  The gate   *)
(* serializes the requests of all goroutines, spaces them, holds them to a *)
(* budget per window and stops them for as long as the provider asks; what *)
(* it decides outlives the process in a file.                              *)
(*                                                                         *)
(* The gate keeps points in time; here they are the time left to them, so  *)
(* that the file read at a start has the record the process before saved.  *)
(* Of the client (providers/evcc.py) only its latch is modelled: when it   *)
(* polls is EvccClient's subject, and any time here.                       *)
(***************************************************************************)
EXTENDS Integers, FiniteSets

CONSTANTS
  Callers,         \* goroutines of the library that send requests
  Window,          \* the hour of a budget
  Budget,          \* 60, the requests it allows
  Spacing,         \* the two seconds between requests
  FirstPause,      \* the 1800 that each refusal doubles
  MaxPause,        \* 21600, its largest value and the least for a 401 or 403
  RetryAfters      \* the values of Retry-After, 0 for none

Nobody == "nobody"

ASSUME GateAssumption ==
  /\ Nobody \notin Callers
  /\ Window \in Nat \ {0} /\ Budget \in Nat \ {0} /\ Spacing \in Nat
  /\ FirstPause \in Nat \ {0} /\ MaxPause \in Nat /\ FirstPause <= MaxPause
  /\ RetryAfters \subseteq Nat

VARIABLES
  up,              \* the engine process runs
  polling,         \* it works on a "poll"
  vehicle,         \* the provider instance is constructed
  pc,              \* each caller: "out" of the gate, or inside it "spacing",
                   \* "saving" its reservation, "flight", "pausing" (saving a pause)
  lock,            \* the caller holding g.mu, or Nobody
  mem, disk,       \* trafficState in the process and in the file
  errors,          \* what the gate and the provider have reported during this poll
  blocked,         \* the client's latch
  \* history, read by no action but Elapse
  opened,          \* time left of the window that attempts counts
  attempts,        \* requests sent in it
  gap,             \* time since a request was sent, capped,
  turn,            \* since its turn came,
  reserved,        \* and since any turn came
  owed,            \* time left of the longest pause a provider asked for
  unsaved,         \* that pause is not in the file
  tried            \* since the last recovery something was sent or not saved

client == <<up, polling, vehicle, errors, blocked>>
gate == <<pc, lock, mem, disk>>
spacings == <<gap, turn, reserved>>
historyVars == <<opened, attempts, spacings, owed, unsaved, tried>>
vars == <<client, gate, historyVars>>

Steps == {"out", "spacing", "saving", "flight", "pausing"}
Kinds == {"auth", "rate_limit"}
MaxFailures == 5

NewGate ==
  [window |-> 0, count |-> 0, next |-> 0, pause |-> 0, reason |-> "auth", failures |-> 0]

Init ==
  /\ up = FALSE /\ polling = FALSE /\ vehicle = FALSE
  /\ pc = [c \in Callers |-> "out"] /\ lock = Nobody
  /\ mem = NewGate /\ disk = NewGate
  /\ errors = {} /\ blocked = FALSE
  /\ opened = 0 /\ attempts = 0
  /\ gap = Spacing /\ turn = Spacing /\ reserved = Spacing
  /\ owed = 0 /\ unsaved = FALSE /\ tried = FALSE

Larger(a, b) == IF a >= b THEN a ELSE b
Smaller(a, b) == IF a <= b THEN a ELSE b
Less(n) == IF n = 0 THEN 0 ELSE n - 1

RolledOverEarly(m) == IF m.next = 0 THEN [m EXCEPT !.window = Window, !.count = 0] ELSE m
\* A new window opens when the last one is over.
RolledOver(m) == IF m.window = 0 THEN [m EXCEPT !.window = Window, !.count = 0] ELSE m

\* The least pause, for the count of refusals with this one; Doubled tabulates
\* 1 << (Failures - 1), one place further than the counts there are.
Doubled == <<1, 2, 4, 8, 16, 32>>
FailuresUncapped(m) == m.failures + 1
Failures(m) == Smaller(MaxFailures, m.failures + 1)
Pause(failures, kind, after) ==
  LET delay == Larger(Smaller(MaxPause, FirstPause * Doubled[failures]), after)
  IN  IF kind = "auth" THEN Larger(delay, MaxPause) ELSE delay

-----------------------------------------------------------------------------
(* The process and its client. *)

\* The client starts an engine, which reads the file.
StartWithoutNext ==
  /\ ~up /\ ~blocked
  /\ up' = TRUE /\ mem' = [disk EXCEPT !.next = 0]
  /\ UNCHANGED <<polling, vehicle, errors, blocked, pc, lock, disk, historyVars>>
Start ==
  /\ ~up /\ ~blocked
  /\ up' = TRUE /\ mem' = disk
  /\ UNCHANGED <<polling, vehicle, errors, blocked, pc, lock, disk, historyVars>>

Killed ==
  /\ up' = FALSE /\ polling' = FALSE /\ vehicle' = FALSE /\ errors' = {}
  /\ pc' = [c \in Callers |-> "out"] /\ lock' = Nobody
  /\ owed' = IF unsaved THEN 0 ELSE owed
  /\ unsaved' = FALSE

\* It ends, or is killed, at any point.
Down ==
  /\ up /\ Killed
  /\ UNCHANGED <<blocked, mem, disk, opened, attempts, spacings, tried>>

Poll ==
  /\ up /\ ~polling /\ ~blocked
  /\ polling' = TRUE /\ errors' = {}
  /\ UNCHANGED <<up, vehicle, blocked, gate, historyVars>>

ReplyOk ==
  /\ polling
  /\ polling' = FALSE /\ vehicle' = TRUE
  /\ UNCHANGED <<up, errors, blocked, gate, historyVars>>

\* A poll fails with what the gate or the provider reported, or for a reason of
\* the library's own.  Without a constructed provider it counts as a failed
\* login.  The client goes on, stops the engine, or latches.
ReplyFailed ==
  /\ polling
  /\ \E kind \in errors \cup {"provider"} :
       LET said == IF vehicle THEN kind ELSE "auth"
       IN  /\ IF said = "provider"
                THEN /\ polling' = FALSE
                     /\ UNCHANGED <<up, vehicle, errors, pc, lock, owed, unsaved>>
                ELSE Killed
           /\ blocked' = (said \in {"auth", "storage"})
           /\ tried' = (tried \/ kind = "provider")
  /\ UNCHANGED <<mem, disk, opened, attempts, spacings>>

\* The operator's recovery command; it leaves the gate's file alone.
Recover ==
  /\ ~up
  /\ blocked' = FALSE /\ tried' = FALSE
  /\ UNCHANGED <<up, polling, vehicle, errors, gate, opened, attempts, spacings, owed,
                 unsaved>>

-----------------------------------------------------------------------------
(* The gate: RoundTrip.  A caller holds the lock from Refuse or Take on. *)

Move(c, step) == pc' = [pc EXCEPT ![c] = step]
Report(kind) == errors' = IF polling THEN errors \cup {kind} ELSE errors

\* The library sends requests in a poll, and its goroutines between polls.
MayTake(c) == up /\ (polling \/ vehicle) /\ pc[c] = "out" /\ lock = Nobody

Refused(c) ==
  /\ MayTake(c) /\ mem.pause > 0
  /\ Report(mem.reason)
  /\ UNCHANGED <<up, polling, vehicle, blocked, gate, historyVars>>

OverBudget(c) ==
  /\ MayTake(c) /\ mem.pause = 0 /\ RolledOver(mem).count >= Budget
  /\ Report("rate_limit")
  /\ UNCHANGED <<up, polling, vehicle, blocked, gate, historyVars>>

Take(c) ==
  /\ MayTake(c) /\ mem.pause = 0 /\ RolledOver(mem).count < Budget
  /\ lock' = c /\ Move(c, "spacing")
  /\ mem' = RolledOver(mem)
  /\ IF RolledOver(mem) # mem /\ opened = 0
       THEN opened' = Window /\ attempts' = 0
       ELSE UNCHANGED <<opened, attempts>>
  /\ UNCHANGED <<client, disk, spacings, owed, unsaved, tried>>

\* The request is cancelled while it waits for its turn.
Cancelled(c) ==
  /\ pc[c] = "spacing"
  /\ lock' = Nobody /\ Move(c, "out")
  /\ UNCHANGED <<client, mem, disk, historyVars>>

\* Its turn has come: it is counted before it is sent.
Reserve(c) ==
  /\ pc[c] = "spacing" /\ mem.next = 0
  /\ mem' = [mem EXCEPT !.count = @ + 1, !.next = Spacing]
  /\ reserved' = 0
  /\ Move(c, "saving")
  /\ UNCHANGED <<client, lock, disk, opened, attempts, gap, turn, owed, unsaved, tried>>

\* The reservation is in the file, and the request goes out.
Send(c) ==
  /\ pc[c] = "saving"
  /\ disk' = mem
  /\ Move(c, "flight")
  /\ attempts' = attempts + 1 /\ gap' = 0 /\ turn' = reserved /\ tried' = TRUE
  /\ UNCHANGED <<client, lock, mem, opened, reserved, owed, unsaved>>

\* The file is replaced at once by a rename, or left as it was.
SaveFails(c) ==
  /\ pc[c] \in {"saving", "pausing"}
  /\ lock' = Nobody /\ Move(c, "out")
  /\ Report("storage") /\ tried' = TRUE
  /\ UNCHANGED <<up, polling, vehicle, blocked, mem, disk, opened, attempts, spacings, owed,
                 unsaved>>

\* The provider answers, or the connection breaks.
Answered(c) ==
  /\ pc[c] = "flight"
  /\ lock' = Nobody /\ Move(c, "out")
  /\ UNCHANGED <<client, mem, disk, historyVars>>

\* The provider refuses: 429, or 401 and 403.
Refuses(c) ==
  /\ pc[c] = "flight"
  /\ \E kind \in Kinds, after \in RetryAfters :
       LET pause == Pause(Failures(mem), kind, after)
       IN  /\ mem' = [mem EXCEPT !.failures = Failures(mem), !.pause = pause, !.reason = kind]
           /\ owed' = Larger(owed, pause)
           /\ Report(kind)
  /\ unsaved' = TRUE
  /\ Move(c, "pausing")
  /\ UNCHANGED <<up, polling, vehicle, blocked, lock, disk, opened, attempts, spacings, tried>>

SavePauseNot(c) ==
  /\ pc[c] = "pausing"
  /\ unsaved' = FALSE
  /\ lock' = Nobody /\ Move(c, "out")
  /\ UNCHANGED <<client, mem, disk, opened, attempts, spacings, owed, tried>>

SavePause(c) ==
  /\ pc[c] = "pausing"
  /\ disk' = mem /\ unsaved' = FALSE
  /\ lock' = Nobody /\ Move(c, "out")
  /\ UNCHANGED <<client, mem, opened, attempts, spacings, owed, tried>>

\* Time passes while a request waits for its turn, is written down, waits for its
\* answer, and while none is inside.
Elapsed(m) ==
  [m EXCEPT !.window = Less(@), !.next = Less(@), !.pause = Less(@)]

Elapse ==
  /\ \A c \in Callers : pc[c] = "spacing" => mem.next > 0
  /\ mem' = Elapsed(mem) /\ disk' = Elapsed(disk)
  /\ opened' = Less(opened)
  /\ gap' = Smaller(gap + 1, Spacing) /\ turn' = Smaller(turn + 1, Spacing)
  /\ reserved' = Smaller(reserved + 1, Spacing)
  /\ owed' = Less(owed)
  /\ UNCHANGED <<client, pc, lock, attempts, unsaved, tried>>

Gate(c) ==
  \/ Refused(c) \/ OverBudget(c) \/ Take(c) \/ Cancelled(c) \/ Reserve(c) \/ Send(c)
  \/ SaveFails(c) \/ Answered(c) \/ Refuses(c) \/ SavePause(c)

Next ==
  \/ Start \/ Down \/ Poll \/ ReplyOk \/ ReplyFailed \/ Recover \/ Elapse
  \/ \E c \in Callers : Gate(c)

Spec == Init /\ [][Next]_vars

-----------------------------------------------------------------------------
GateStates ==
  [window : Nat, count : 0..Budget, next : Nat, pause : Nat,
   reason : Kinds, failures : 0..MaxFailures]

TypeOK ==
  /\ up \in BOOLEAN /\ polling \in BOOLEAN /\ vehicle \in BOOLEAN
  /\ pc \in [Callers -> Steps] /\ lock \in Callers \cup {Nobody}
  /\ mem \in GateStates /\ disk \in GateStates
  /\ errors \subseteq Kinds \cup {"storage"} /\ blocked \in BOOLEAN
  /\ opened \in 0..Window /\ attempts \in Nat /\ gap \in 0..Spacing
  /\ turn \in 0..Spacing /\ reserved \in 0..Spacing
  /\ owed \in Nat /\ unsaved \in BOOLEAN /\ tried \in BOOLEAN

\* Within one window no more requests are sent than its budget, by whatever
\* goroutines and however often the engine is killed and started again.
BudgetKept == opened > 0 => attempts <= Budget

\* While a provider's pause that this process knows, or that reached the file,
\* is running, no request is on its way: not of another goroutine either.
CooldownKept == owed > 0 => \A c \in Callers : pc[c] # "flight"

\* Requests are never on their way together.
Serialized == \A c, d \in Callers : pc[c] = "flight" /\ pc[d] = "flight" => c = d

\* A request's turn comes when that of the last request sent is the whole spacing
\* ago, for all goroutines, cancelled waits, failed saves, kills and restarts.
TurnSpacing ==
  [][\A c \in Callers : pc[c] = "spacing" /\ pc'[c] = "saving" => turn = Spacing]_vars

\* vehicles.md: requests are spaced by at least two seconds.  As they go out after
\* the time that saving takes, they may be closer: see TrafficGate_slow.cfg.
RequestSpacing ==
  [][\A c \in Callers : pc[c] # "flight" /\ pc'[c] = "flight" => gap = Spacing]_vars

\* vehicles.md: the recovery command releases the latch.  It does not hold while
\* the gate's pause runs; see TrafficGate_recovery.cfg.
RecoveryLasts == [][~blocked /\ blocked' => tried']_vars

=============================================================================
