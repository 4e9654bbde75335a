------------------------- MODULE TrafficGateProofs -------------------------
(***************************************************************************)
(* TrafficGate's safety properties for every number of goroutines, every   *)
(* budget and every pause.  The inductive invariant says who is inside the *)
(* gate, that the window and count in memory and on disk never know less   *)
(* than was sent, that a pause demanded is known where it must be, and     *)
(* that the next turn, in memory and on disk, is never due before the      *)
(* spacing from the last one that led to a request is over.                *)
(***************************************************************************)
EXTENDS TrafficGate, TLAPS

Inside(c) == pc[c] # "out"

\* Only the holder of the lock is inside, and only while the engine runs; what
\* it has passed still holds.
LockInv ==
  /\ \A c \in Callers : Inside(c) => lock = c /\ up
  /\ \A c \in Callers : pc[c] = "spacing" => mem.count < Budget
  /\ \A c \in Callers : pc[c] \in {"spacing", "saving", "flight"} => mem.pause = 0

\* The window that attempts counts never outlasts the one known in memory and on
\* disk, and both have counted its requests before they are sent.
WindowInv ==
  /\ up => disk.window <= mem.window
  /\ disk.window > 0 => opened <= disk.window
  /\ up /\ mem.window > 0 => opened <= mem.window
  /\ \A c \in Callers : Inside(c) => opened <= mem.window
CountInv ==
  /\ opened > 0 /\ attempts > 0 => disk.window > 0 /\ attempts <= disk.count
  /\ up /\ opened > 0 => attempts <= mem.count \/ attempts = 0
  /\ \A c \in Callers : pc[c] = "saving" /\ opened > 0 => attempts + 1 <= mem.count

\* A pause is known to the process, and on disk unless it is still to be saved.
PauseInv ==
  /\ up => owed <= mem.pause
  /\ ~unsaved => owed <= disk.pause
  /\ ~up => ~unsaved

\* The next turn, in memory and on disk, is at least the rest of the spacing, and
\* what a save under way will put there is too.
TurnInv ==
  /\ turn + disk.next >= Spacing
  /\ up => turn + mem.next >= Spacing
  /\ \A c \in Callers : pc[c] = "saving" => reserved + mem.next >= Spacing

Inv == TypeOK /\ LockInv /\ WindowInv /\ CountInv /\ PauseInv /\ TurnInv

-----------------------------------------------------------------------------
(* Facts about the operators. *)

LEMMA Constants ==
  /\ Nobody \notin Callers
  /\ Window \in Nat /\ Window > 0 /\ Budget \in Nat /\ Budget > 0 /\ Spacing \in Nat
  /\ FirstPause \in Nat /\ MaxPause \in Nat
  /\ \A after \in RetryAfters : after \in Nat
  BY GateAssumption

\* The fields of a gate's state are in their ranges.
LEMMA GateFields ==
  ASSUME NEW m \in GateStates
  PROVE  /\ m.window \in Nat /\ m.count \in 0..Budget /\ m.next \in Nat
         /\ m.pause \in Nat /\ m.reason \in Kinds /\ m.failures \in 0..MaxFailures
  BY DEF GateStates

\* Rolling over leaves an open window alone and opens a new one otherwise.
LEMMA RolledOverFacts ==
  ASSUME NEW m \in GateStates
  PROVE  /\ RolledOver(m) \in GateStates
         /\ RolledOver(m).next = m.next /\ RolledOver(m).pause = m.pause
         /\ m.window > 0 => RolledOver(m) = m
         /\ m.window = 0 => /\ RolledOver(m) # m
                            /\ RolledOver(m).window = Window /\ RolledOver(m).count = 0
<1>1. Window \in Nat /\ Window > 0 /\ 0 \in 0..Budget
  BY Constants
<1>2. m.window \in Nat
  BY GateFields
<1>3. CASE m.window > 0
  BY <1>2, <1>3 DEF RolledOver
<1>4. CASE m.window = 0
  <2>1. RolledOver(m) = [m EXCEPT !.window = Window, !.count = 0]
    BY <1>4 DEF RolledOver
  <2>2. RolledOver(m).window = Window /\ RolledOver(m).count = 0
    BY <2>1 DEF GateStates
  <2>3. RolledOver(m) \in GateStates
    BY <1>1, <2>1 DEF GateStates
  <2>4. RolledOver(m).next = m.next /\ RolledOver(m).pause = m.pause
    BY <2>1 DEF GateStates
  <2>5. RolledOver(m) # m
    BY <1>1, <1>4, <2>2
  <2> QED BY <1>4, <2>2, <2>3, <2>4, <2>5
<1> QED BY <1>2, <1>3, <1>4

\* Time shortens what is left of a window, a turn and a pause, and no count.
LEMMA ElapsedFacts ==
  ASSUME NEW m \in GateStates
  PROVE  /\ Elapsed(m) \in GateStates
         /\ Elapsed(m).window = Less(m.window) /\ Elapsed(m).next = Less(m.next)
         /\ Elapsed(m).pause = Less(m.pause) /\ Elapsed(m).count = m.count
<1>1. Less(m.window) \in Nat /\ Less(m.next) \in Nat /\ Less(m.pause) \in Nat
  BY GateFields DEF Less
<1> QED BY <1>1 DEF Elapsed, GateStates

\* A refusal is counted within the cap, and its pause is a time.
LEMMA PauseFacts ==
  ASSUME NEW m \in GateStates, NEW kind \in Kinds, NEW after \in RetryAfters
  PROVE  /\ Failures(m) \in 0..MaxFailures
         /\ Pause(Failures(m), kind, after) \in Nat
<1>1. Failures(m) \in 1..MaxFailures
  BY GateFields DEF Failures, Smaller, MaxFailures
<1>2. Doubled[Failures(m)] \in Nat
  BY <1>1 DEF Doubled, MaxFailures
<1>3. FirstPause * Doubled[Failures(m)] \in Nat
  BY <1>2, Constants
<1>4. MaxPause \in Nat /\ after \in Nat
  BY Constants
<1>5. Pause(Failures(m), kind, after) \in Nat
  BY <1>3, <1>4 DEF Pause, Larger, Smaller
<1> QED BY <1>1, <1>5 DEF MaxFailures

\* Two callers are never inside together.
LEMMA Alone ==
  ASSUME LockInv, NEW c \in Callers, Inside(c)
  PROVE  \A d \in Callers : Inside(d) => d = c
  BY DEF LockInv

LEMMA FreeMeansEmpty ==
  ASSUME LockInv, lock = Nobody
  PROVE  \A c \in Callers : pc[c] = "out"
  BY Constants DEF LockInv, Inside

LEMMA DownMeansEmpty ==
  ASSUME LockInv, ~up
  PROVE  \A c \in Callers : pc[c] = "out"
  BY DEF LockInv, Inside

\* The invariant holds at the start.
LEMMA InitInv == Init => Inv
<1> SUFFICES ASSUME Init PROVE Inv
  OBVIOUS
<1>1. NewGate \in GateStates /\ NewGate.window = 0 /\ NewGate.next = 0 /\ NewGate.pause = 0
  BY Constants DEF NewGate, GateStates, Kinds, MaxFailures
<1>2. TypeOK
  <2>1. pc \in [Callers -> Steps] /\ lock \in Callers \cup {Nobody}
    BY DEF Init, Steps
  <2>2. opened \in 0..Window /\ attempts \in Nat /\ owed \in Nat
        /\ gap \in 0..Spacing /\ turn \in 0..Spacing /\ reserved \in 0..Spacing
    BY Constants DEF Init
  <2> QED BY <1>1, <2>1, <2>2 DEF Init, TypeOK
<1>3. LockInv /\ WindowInv
  BY <1>1 DEF Init, LockInv, WindowInv, Inside
<1>4. CountInv /\ PauseInv
  BY <1>1 DEF Init, CountInv, PauseInv
<1>5. TurnInv
  BY <1>1, Constants DEF Init, TurnInv
<1> QED BY <1>2, <1>3, <1>4, <1>5 DEF Inv

-----------------------------------------------------------------------------
(* The process and its client. *)

\* What a killed engine leaves behind satisfies the invariant.
LEMMA KilledInv ==
  ASSUME Inv, Killed, blocked' \in BOOLEAN, tried' \in BOOLEAN,
         UNCHANGED <<mem, disk, opened, attempts, spacings>>
  PROVE  Inv'
<1> USE DEF Inv
<1>1. \A c \in Callers : pc'[c] = "out"
  BY DEF Killed
<1>2. mem \in GateStates /\ disk \in GateStates /\ disk.pause \in Nat /\ owed \in Nat
  BY GateFields DEF TypeOK
<1>3. owed' \in Nat /\ unsaved' = FALSE /\ up' = FALSE
  BY <1>2 DEF Killed
<1>4. TypeOK'
  BY <1>2, <1>3 DEF Killed, TypeOK, Steps, spacings
<1>5. LockInv'
  BY <1>1 DEF LockInv, Inside
<1>6. WindowInv' /\ CountInv'
  BY <1>1, <1>3 DEF WindowInv, CountInv, Inside
<1>7. PauseInv'
  BY <1>2, <1>3 DEF PauseInv, Killed
<1>8. TurnInv'
  BY <1>1, <1>3 DEF TurnInv, spacings
<1> QED BY <1>4, <1>5, <1>6, <1>7, <1>8

LEMMA StartInv == Inv /\ Start => Inv'
<1> SUFFICES ASSUME Inv, Start PROVE Inv'
  OBVIOUS
<1> USE DEF Inv
<1>1. \A c \in Callers : pc'[c] = "out"
  BY DownMeansEmpty DEF Start
<1>2. disk \in GateStates /\ disk.window \in Nat
  BY GateFields DEF TypeOK
<1>3. TypeOK'
  BY DEF Start, TypeOK, historyVars, spacings
<1>4. LockInv'
  BY <1>1 DEF LockInv, Inside
<1>5. WindowInv'
  BY <1>1, <1>2 DEF WindowInv, Inside, Start, historyVars, spacings
<1>6. CountInv'
  BY <1>1, <1>2, GateFields DEF CountInv, Start, historyVars, spacings, TypeOK
<1>7. PauseInv'
  BY DEF PauseInv, Start, historyVars, spacings
<1>8. TurnInv'
  BY <1>1 DEF TurnInv, Start, historyVars, spacings
<1> QED BY <1>3, <1>4, <1>5, <1>6, <1>7, <1>8

\* The rest of the client's steps leave the gate alone.
LEMMA ClientInv ==
  ASSUME Inv, UNCHANGED <<up, gate, opened, attempts, spacings, owed, unsaved>>, TypeOK'
  PROVE  Inv'
<1> USE DEF Inv, gate
<1>1. LockInv' /\ WindowInv' /\ CountInv'
  BY DEF LockInv, WindowInv, CountInv, Inside
<1>2. PauseInv' /\ TurnInv'
  BY DEF PauseInv, TurnInv, spacings
<1> QED BY <1>1, <1>2

LEMMA PollInv == Inv /\ (Poll \/ ReplyOk \/ Recover) => Inv'
<1> SUFFICES ASSUME Inv, Poll \/ ReplyOk \/ Recover PROVE Inv'
  OBVIOUS
<1>1. UNCHANGED <<up, gate, opened, attempts, spacings, owed, unsaved>>
  BY DEF Poll, ReplyOk, Recover, historyVars, spacings
<1>2. TypeOK'
  <2>1. CASE Poll
    BY <2>1, <1>1 DEF Poll, Inv, TypeOK, gate, historyVars, spacings
  <2>2. CASE ReplyOk
    BY <2>2, <1>1 DEF ReplyOk, Inv, TypeOK, gate, historyVars, spacings
  <2>3. CASE Recover
    BY <2>3, <1>1 DEF Recover, Inv, TypeOK, gate, spacings
  <2> QED BY <2>1, <2>2, <2>3
<1> QED BY <1>1, <1>2, ClientInv

LEMMA ReplyFailedInv == Inv /\ ReplyFailed => Inv'
<1> SUFFICES ASSUME Inv, ReplyFailed PROVE Inv'
  OBVIOUS
<1>1. PICK kind \in errors \cup {"provider"} :
        LET said == IF vehicle THEN kind ELSE "auth"
        IN  /\ IF said = "provider"
                 THEN /\ polling' = FALSE
                      /\ UNCHANGED <<up, vehicle, errors, pc, lock, owed, unsaved>>
                 ELSE Killed
            /\ blocked' = (said \in {"auth", "storage"})
            /\ tried' = (tried \/ kind = "provider")
  BY DEF ReplyFailed
<1>2. blocked' \in BOOLEAN /\ tried' \in BOOLEAN
  BY <1>1 DEF Inv, TypeOK
<1>3. UNCHANGED <<mem, disk, opened, attempts, spacings>>
  BY DEF ReplyFailed
<1>4. CASE Killed
  BY <1>2, <1>3, <1>4, KilledInv
<1>5. CASE polling' = FALSE /\ UNCHANGED <<up, vehicle, errors, pc, lock, owed, unsaved>>
  <2>1. TypeOK'
    BY <1>2, <1>3, <1>5 DEF Inv, TypeOK, spacings
  <2> QED BY <1>3, <1>5, <2>1, ClientInv DEF gate
<1> QED BY <1>1, <1>4, <1>5

LEMMA DownInv == Inv /\ Down => Inv'
  BY KilledInv DEF Down, Inv, TypeOK

-----------------------------------------------------------------------------
(* The gate. *)

\* A refused request, by a pause or by the budget, leaves only its report.
LEMMA RefusedInv ==
  ASSUME NEW c \in Callers, Inv, Refused(c) \/ OverBudget(c)
  PROVE  Inv'
<1>1. errors' \subseteq Kinds \cup {"storage"}
  <2>1. mem.reason \in Kinds
    BY GateFields DEF Inv, TypeOK
  <2> QED BY <2>1 DEF Refused, OverBudget, Report, Inv, TypeOK, Kinds
<1>2. TypeOK'
  BY <1>1 DEF Refused, OverBudget, Inv, TypeOK, gate, historyVars, spacings
<1> QED BY <1>2, ClientInv DEF Refused, OverBudget, historyVars, spacings

LEMMA TakeInv ==
  ASSUME NEW c \in Callers, Inv, Take(c)
  PROVE  Inv'
<1> USE DEF Inv
<1>1. /\ up /\ lock = Nobody /\ mem.pause = 0 /\ RolledOver(mem).count < Budget
      /\ lock' = c /\ pc' = [pc EXCEPT ![c] = "spacing"] /\ mem' = RolledOver(mem)
      /\ up' = up /\ disk' = disk /\ UNCHANGED spacings /\ owed' = owed /\ unsaved' = unsaved
  BY DEF Take, MayTake, Move, client
<1>2. \A d \in Callers : pc[d] = "out"
  BY <1>1, FreeMeansEmpty
<1>3. pc' \in [Callers -> Steps] /\ pc'[c] = "spacing" /\ \A d \in Callers : Inside(d)' => d = c
  BY <1>1, <1>2 DEF TypeOK, Steps, Inside
<1>4. /\ mem \in GateStates /\ mem' \in GateStates
      /\ mem'.next = mem.next /\ mem'.pause = mem.pause
      /\ mem.window > 0 => mem' = mem
      /\ mem.window = 0 => /\ mem' # mem
                           /\ mem'.window = Window /\ mem'.count = 0
  BY <1>1, RolledOverFacts DEF TypeOK
<1>5. /\ mem.window \in Nat /\ disk.window \in Nat /\ opened \in Nat /\ opened <= Window
      /\ Window \in Nat /\ Window > 0 /\ attempts \in Nat /\ mem.count \in Nat
  BY GateFields, Constants DEF TypeOK
<1>6. \/ mem' = mem /\ mem.window > 0 /\ opened' = opened /\ attempts' = attempts
      \/ /\ mem.window = 0 /\ mem'.window = Window /\ mem'.count = 0
         /\ \/ opened = 0 /\ opened' = Window /\ attempts' = 0
            \/ opened > 0 /\ opened' = opened /\ attempts' = attempts
  BY <1>1, <1>4, <1>5 DEF Take
<1>7. TypeOK'
  <2>1. opened' \in 0..Window /\ attempts' \in Nat
    BY <1>5, <1>6
  <2> QED BY <1>1, <1>3, <1>4, <2>1 DEF Take, TypeOK, client, spacings
<1>8. LockInv'
  BY <1>1, <1>3, <1>4 DEF LockInv, Inside
<1>9. disk.window <= mem.window /\ (disk.window > 0 => opened <= disk.window)
      /\ (mem.window > 0 => opened <= mem.window)
  BY <1>1 DEF WindowInv
<1>10. WindowInv'
  <2>1. opened' <= mem'.window
    BY <1>5, <1>6, <1>9
  <2>2. disk'.window <= mem'.window
    BY <1>1, <1>5, <1>6, <1>9
  <2>3. disk'.window > 0 => opened' <= disk'.window
    BY <1>1, <1>5, <1>6, <1>9
  <2> QED BY <2>1, <2>2, <2>3 DEF WindowInv
<1>11. CountInv'
  <2>1. \A d \in Callers : pc'[d] # "saving"
    BY <1>3 DEF Inside
  <2>2. opened > 0 /\ attempts > 0 => disk.window > 0 /\ attempts <= disk.count
    BY DEF CountInv
  <2>3. opened > 0 => attempts <= mem.count \/ attempts = 0
    BY <1>1 DEF CountInv
  <2>4. opened' > 0 /\ attempts' > 0 => disk'.window > 0 /\ attempts' <= disk'.count
    BY <1>1, <1>5, <1>6, <2>2
  <2>5. opened' > 0 => attempts' <= mem'.count \/ attempts' = 0
    BY <1>5, <1>6, <1>9, <2>2, <2>3
  <2> QED BY <2>1, <2>4, <2>5 DEF CountInv
<1>12. PauseInv'
  BY <1>1, <1>4 DEF PauseInv
<1>13. TurnInv'
  BY <1>1, <1>3, <1>4 DEF TurnInv, Inside, spacings
<1> QED BY <1>7, <1>8, <1>10, <1>11, <1>12, <1>13

\* Leaving the gate without a change of its state: cancelled, answered, or not saved.
LEMMA LeaveInv ==
  ASSUME NEW c \in Callers, Inv, Inside(c),
         lock' = Nobody, Move(c, "out"), TypeOK',
         UNCHANGED <<up, mem, disk, opened, attempts, spacings, owed, unsaved>>
  PROVE  Inv'
<1> USE DEF Inv
<1>1. \A d \in Callers : pc'[d] = "out"
  BY Alone DEF Move, TypeOK, Inside
<1>2. LockInv' /\ WindowInv' /\ CountInv'
  BY <1>1 DEF LockInv, WindowInv, CountInv, Inside
<1>3. PauseInv' /\ TurnInv'
  BY <1>1 DEF PauseInv, TurnInv, spacings
<1> QED BY <1>2, <1>3

LEMMA CancelledInv ==
  ASSUME NEW c \in Callers, Inv, Cancelled(c) \/ Answered(c)
  PROVE  Inv'
<1>1. TypeOK'
  BY DEF Cancelled, Answered, Move, Inv, TypeOK, Steps, client, historyVars, spacings
<1> QED BY <1>1, LeaveInv DEF Cancelled, Answered, Inside, client, historyVars, spacings

LEMMA SaveFailsInv ==
  ASSUME NEW c \in Callers, Inv, SaveFails(c)
  PROVE  Inv'
<1>1. errors' \subseteq Kinds \cup {"storage"}
  BY DEF SaveFails, Report, Inv, TypeOK
<1>2. pc' \in [Callers -> Steps] /\ lock' = Nobody
  BY DEF SaveFails, Move, Inv, TypeOK, Steps
<1>3. TypeOK'
  BY <1>1, <1>2 DEF SaveFails, Inv, TypeOK, spacings
<1> QED BY <1>3, LeaveInv DEF SaveFails, Inside

\* A step that the holder of the lock takes inside the gate.
LEMMA Moved ==
  ASSUME NEW c \in Callers, NEW step \in Steps, LockInv, TypeOK, Inside(c), Move(c, step)
  PROVE  /\ pc' \in [Callers -> Steps] /\ pc'[c] = step
         /\ \A d \in Callers : d # c => pc'[d] = "out"
         /\ lock = c /\ up
  BY Alone DEF Move, TypeOK, LockInv, Inside

LEMMA ReserveInv ==
  ASSUME NEW c \in Callers, Inv, Reserve(c)
  PROVE  Inv'
<1> USE DEF Inv
<1>1. /\ pc[c] = "spacing" /\ mem.next = 0 /\ Move(c, "saving")
      /\ mem' = [mem EXCEPT !.count = @ + 1, !.next = Spacing]
      /\ reserved' = 0
      /\ UNCHANGED <<client, lock, disk, opened, attempts, gap, turn, owed, unsaved, tried>>
  BY DEF Reserve
<1>2. /\ pc' \in [Callers -> Steps] /\ pc'[c] = "saving" /\ lock = c /\ up
      /\ \A d \in Callers : d # c => pc'[d] = "out"
  BY <1>1, Moved DEF Inside, Steps
<1>3. mem.count \in Nat /\ mem.count < Budget /\ mem.pause = 0
  BY <1>1, GateFields DEF LockInv, TypeOK
<1>4. /\ mem' \in GateStates /\ mem'.count = mem.count + 1 /\ mem'.next = Spacing
      /\ mem'.window = mem.window /\ mem'.pause = mem.pause
  <2>1. mem.count + 1 \in 0..Budget /\ Spacing \in Nat /\ mem \in GateStates
    BY <1>3, Constants DEF TypeOK
  <2> QED BY <1>1, <2>1 DEF GateStates
<1>5. TypeOK'
  <2>1. reserved' \in 0..Spacing
    BY <1>1, Constants
  <2> QED BY <1>1, <1>2, <1>4, <2>1 DEF TypeOK, client
<1>6. LockInv'
  BY <1>1, <1>2, <1>3, <1>4 DEF LockInv, Inside, client
<1>7. WindowInv'
  BY <1>1, <1>2, <1>4 DEF WindowInv, Inside, client
<1>8. CountInv'
  <2>1. opened > 0 => attempts <= mem.count \/ attempts = 0
    BY <1>2 DEF CountInv
  <2>2. attempts \in Nat
    BY DEF TypeOK
  <2>3. opened' > 0 => attempts' + 1 <= mem'.count /\ attempts' <= mem'.count
    BY <1>1, <1>3, <1>4, <2>1, <2>2 DEF historyVars, spacings
  <2>4. opened' > 0 /\ attempts' > 0 => disk'.window > 0 /\ attempts' <= disk'.count
    BY <1>1 DEF CountInv
  <2> QED BY <1>2, <2>3, <2>4 DEF CountInv
<1>9. PauseInv'
  BY <1>1, <1>4 DEF PauseInv, client
<1>10. TurnInv'
  <2>1. turn \in 0..Spacing /\ Spacing \in Nat
    BY Constants DEF TypeOK
  <2> QED BY <1>1, <1>2, <1>4, <2>1 DEF TurnInv
<1> QED BY <1>5, <1>6, <1>7, <1>8, <1>9, <1>10

LEMMA SendInv ==
  ASSUME NEW c \in Callers, Inv, Send(c)
  PROVE  Inv'
<1> USE DEF Inv
<1>1. /\ pc[c] = "saving" /\ disk' = mem /\ Move(c, "flight")
      /\ attempts' = attempts + 1 /\ gap' = 0 /\ turn' = reserved /\ tried' = TRUE
      /\ mem' = mem /\ lock' = lock /\ opened' = opened /\ owed' = owed /\ unsaved' = unsaved
      /\ UNCHANGED <<client, reserved>>
  BY DEF Send
<1>2. /\ pc' \in [Callers -> Steps] /\ pc'[c] = "flight" /\ lock = c /\ up /\ Inside(c)
      /\ \A d \in Callers : d # c => pc'[d] = "out"
  BY <1>1, Moved DEF Inside, Steps
<1>3. /\ mem \in GateStates /\ mem.count \in Nat /\ mem.window \in Nat
      /\ mem.next \in Nat /\ attempts \in Nat /\ opened \in Nat
  BY GateFields DEF TypeOK
<1>4. TypeOK'
  <2>1. gap' \in 0..Spacing /\ turn' \in 0..Spacing /\ attempts' \in Nat
    BY <1>1, <1>3, Constants DEF TypeOK
  <2> QED BY <1>1, <1>2, <2>1 DEF TypeOK, client
<1>5. LockInv'
  BY <1>1, <1>2 DEF LockInv, Inside, client
<1>6. opened <= mem.window
  BY <1>2 DEF WindowInv
<1>7. WindowInv'
  BY <1>1, <1>2, <1>3, <1>6 DEF WindowInv, Inside
<1>8. CountInv'
  <2>1. opened > 0 => attempts + 1 <= mem.count
    BY <1>1 DEF CountInv
  <2> QED BY <1>1, <1>2, <1>3, <1>6, <2>1 DEF CountInv
<1>9. PauseInv'
  BY <1>1, <1>2 DEF PauseInv, client
<1>10. TurnInv'
  <2>1. reserved + mem.next >= Spacing
    BY <1>1 DEF TurnInv
  <2> QED BY <1>1, <1>2, <2>1 DEF TurnInv
<1> QED BY <1>4, <1>5, <1>7, <1>8, <1>9, <1>10

\* A refusal comes while no pause runs, so the pause it brings is the one owed.
LEMMA RefusesInv ==
  ASSUME NEW c \in Callers, Inv, Refuses(c)
  PROVE  Inv'
<1> USE DEF Inv
<1>1. PICK kind \in Kinds, after \in RetryAfters :
        LET pause == Pause(Failures(mem), kind, after)
        IN  /\ mem' = [mem EXCEPT !.failures = Failures(mem), !.pause = pause, !.reason = kind]
            /\ owed' = Larger(owed, pause)
            /\ Report(kind)
  BY DEF Refuses
<1> DEFINE pause == Pause(Failures(mem), kind, after)
<1>2. /\ pc[c] = "flight" /\ Move(c, "pausing") /\ unsaved' = TRUE
      /\ UNCHANGED <<up, polling, vehicle, blocked, lock, disk, opened, attempts, spacings, tried>>
  BY DEF Refuses
<1>3. /\ pc' \in [Callers -> Steps] /\ pc'[c] = "pausing" /\ lock = c /\ up
      /\ \A d \in Callers : d # c => pc'[d] = "out"
  BY <1>2, Moved DEF Inside, Steps
<1>4. mem \in GateStates /\ pause \in Nat /\ Failures(mem) \in 0..MaxFailures
  BY PauseFacts DEF TypeOK
<1>5. owed \in Nat /\ owed <= mem.pause /\ mem.pause = 0
  BY <1>2, <1>3 DEF PauseInv, LockInv, TypeOK
<1> HIDE DEF pause
<1>6. /\ mem' \in GateStates /\ mem'.pause = pause
      /\ mem'.window = mem.window /\ mem'.count = mem.count /\ mem'.next = mem.next
  BY <1>1, <1>4 DEF GateStates, pause
<1>7. owed' = pause
  BY <1>1, <1>4, <1>5 DEF Larger, pause
<1>8. TypeOK'
  <2>1. errors' \subseteq Kinds \cup {"storage"}
    BY <1>1 DEF Report, TypeOK
  <2> QED BY <1>2, <1>3, <1>4, <1>6, <1>7, <2>1 DEF TypeOK, spacings
<1>9. LockInv'
  BY <1>2, <1>3 DEF LockInv, Inside
<1>10. WindowInv' /\ CountInv'
  <2>1. opened <= mem.window
    BY <1>2 DEF WindowInv, Inside
  <2> QED BY <1>2, <1>3, <1>6, <2>1 DEF WindowInv, CountInv, Inside
<1>11. PauseInv'
  BY <1>2, <1>3, <1>4, <1>6, <1>7 DEF PauseInv
<1>12. TurnInv'
  BY <1>2, <1>3, <1>6 DEF TurnInv, spacings
<1> QED BY <1>8, <1>9, <1>10, <1>11, <1>12

LEMMA SavePauseInv ==
  ASSUME NEW c \in Callers, Inv, SavePause(c)
  PROVE  Inv'
<1> USE DEF Inv
<1>1. /\ pc[c] = "pausing" /\ Move(c, "out") /\ disk' = mem /\ unsaved' = FALSE
      /\ lock' = Nobody /\ mem' = mem /\ opened' = opened /\ attempts' = attempts
      /\ UNCHANGED spacings /\ owed' = owed /\ tried' = tried /\ UNCHANGED client
  BY DEF SavePause
<1>2. up /\ Inside(c) /\ pc' \in [Callers -> Steps] /\ \A d \in Callers : pc'[d] = "out"
  BY <1>1, Moved DEF Inside, Steps
<1>3. mem \in GateStates /\ mem.window \in Nat /\ opened \in Nat /\ opened <= mem.window
  BY <1>2, GateFields DEF TypeOK, WindowInv
<1>4. TypeOK'
  BY <1>1, <1>2 DEF TypeOK, client, spacings
<1>5. LockInv' /\ WindowInv'
  BY <1>1, <1>2, <1>3 DEF LockInv, WindowInv, Inside
<1>6. CountInv'
  <2>1. opened > 0 => attempts <= mem.count \/ attempts = 0
    BY <1>2 DEF CountInv
  <2> QED BY <1>1, <1>2, <1>3, <2>1 DEF CountInv
<1>7. PauseInv'
  BY <1>1, <1>2 DEF PauseInv, client
<1>8. TurnInv'
  BY <1>1, <1>2 DEF TurnInv, spacings
<1> QED BY <1>4, <1>5, <1>6, <1>7, <1>8

LEMMA ElapseInv == Inv /\ Elapse => Inv'
<1> SUFFICES ASSUME Inv, Elapse PROVE Inv'
  OBVIOUS
<1> USE DEF Inv
<1>1. /\ mem' = Elapsed(mem) /\ disk' = Elapsed(disk) /\ opened' = Less(opened)
      /\ gap' = Smaller(gap + 1, Spacing) /\ turn' = Smaller(turn + 1, Spacing)
      /\ reserved' = Smaller(reserved + 1, Spacing) /\ owed' = Less(owed)
      /\ pc' = pc /\ lock' = lock /\ attempts' = attempts /\ unsaved' = unsaved
      /\ tried' = tried /\ UNCHANGED client
  BY DEF Elapse
<1>2. mem \in GateStates /\ disk \in GateStates
  BY DEF TypeOK
<1>3. /\ mem' \in GateStates /\ mem'.window = Less(mem.window) /\ mem'.next = Less(mem.next)
      /\ mem'.pause = Less(mem.pause) /\ mem'.count = mem.count
  BY <1>1, <1>2, ElapsedFacts
<1>4. /\ disk' \in GateStates /\ disk'.window = Less(disk.window)
      /\ disk'.next = Less(disk.next)
      /\ disk'.pause = Less(disk.pause) /\ disk'.count = disk.count
  BY <1>1, <1>2, ElapsedFacts
<1>5. /\ mem.window \in Nat /\ mem.next \in Nat /\ mem.pause \in Nat
      /\ disk.window \in Nat /\ disk.next \in Nat /\ disk.pause \in Nat
      /\ opened \in Nat /\ owed \in Nat /\ opened <= Window
      /\ gap \in 0..Spacing /\ turn \in 0..Spacing /\ reserved \in 0..Spacing
      /\ Spacing \in Nat /\ Window \in Nat
  BY <1>2, GateFields, Constants DEF TypeOK
<1>6. TypeOK'
  <2>1. /\ opened' \in 0..Window /\ owed' \in Nat
        /\ gap' \in 0..Spacing /\ turn' \in 0..Spacing /\ reserved' \in 0..Spacing
    BY <1>1, <1>5 DEF Less, Smaller
  <2> QED BY <1>1, <1>3, <1>4, <2>1 DEF TypeOK, client
<1>7. LockInv'
  <2>1. mem.pause = 0 => mem'.pause = 0
    BY <1>3 DEF Less
  <2> QED BY <1>1, <1>3, <2>1 DEF LockInv, Inside, client
<1>8. WindowInv'
  <2>1. disk.window <= mem.window => disk'.window <= mem'.window
    BY <1>3, <1>4, <1>5 DEF Less
  <2>2. (disk.window > 0 => opened <= disk.window)
          => (disk'.window > 0 => opened' <= disk'.window)
    BY <1>1, <1>4, <1>5 DEF Less
  <2>3. (mem.window > 0 => opened <= mem.window)
          => (mem'.window > 0 => opened' <= mem'.window)
    BY <1>1, <1>3, <1>5 DEF Less
  <2>4. opened <= mem.window => opened' <= mem'.window
    BY <1>1, <1>3, <1>5 DEF Less
  <2> QED BY <1>1, <2>1, <2>2, <2>3, <2>4 DEF WindowInv, Inside, client
<1>9. CountInv'
  <2>1. opened' > 0 => opened > 0
    BY <1>1, <1>5 DEF Less
  <2>2. disk.window > 0 /\ opened' > 0 => disk'.window > 0
    BY <1>1, <1>4, <1>5 DEF Less, WindowInv
  <2> QED BY <1>1, <1>3, <1>4, <2>1, <2>2 DEF CountInv, client
<1>10. PauseInv'
  <2>1. owed <= mem.pause => owed' <= mem'.pause
    BY <1>1, <1>3, <1>5 DEF Less
  <2>2. owed <= disk.pause => owed' <= disk'.pause
    BY <1>1, <1>4, <1>5 DEF Less
  <2> QED BY <1>1, <2>1, <2>2 DEF PauseInv, client
<1>11. TurnInv'
  <2>1. turn + disk.next >= Spacing => turn' + disk'.next >= Spacing
    BY <1>1, <1>4, <1>5 DEF Less, Smaller
  <2>2. turn + mem.next >= Spacing => turn' + mem'.next >= Spacing
    BY <1>1, <1>3, <1>5 DEF Less, Smaller
  <2>3. reserved + mem.next >= Spacing => reserved' + mem'.next >= Spacing
    BY <1>1, <1>3, <1>5 DEF Less, Smaller
  <2> QED BY <1>1, <2>1, <2>2, <2>3 DEF TurnInv, client
<1> QED BY <1>6, <1>7, <1>8, <1>9, <1>10, <1>11

LEMMA NextInv == Inv /\ [Next]_vars => Inv'
<1> SUFFICES ASSUME Inv, [Next]_vars PROVE Inv'
  OBVIOUS
<1>1. CASE Start
  BY <1>1, StartInv
<1>2. CASE Down
  BY <1>2, DownInv
<1>3. CASE Poll \/ ReplyOk \/ Recover
  BY <1>3, PollInv
<1>4. CASE ReplyFailed
  BY <1>4, ReplyFailedInv
<1>5. CASE Elapse
  BY <1>5, ElapseInv
<1>6. ASSUME NEW c \in Callers, Gate(c) PROVE Inv'
  <2>1. CASE Refused(c) \/ OverBudget(c)
    BY <2>1, RefusedInv
  <2>2. CASE Take(c)
    BY <2>2, TakeInv
  <2>3. CASE Cancelled(c) \/ Answered(c)
    BY <2>3, CancelledInv
  <2>4. CASE Reserve(c)
    BY <2>4, ReserveInv
  <2>5. CASE Send(c)
    BY <2>5, SendInv
  <2>6. CASE SaveFails(c)
    BY <2>6, SaveFailsInv
  <2>7. CASE Refuses(c)
    BY <2>7, RefusesInv
  <2>8. CASE SavePause(c)
    BY <2>8, SavePauseInv
  <2> QED BY <1>6, <2>1, <2>2, <2>3, <2>4, <2>5, <2>6, <2>7, <2>8 DEF Gate
<1>7. CASE UNCHANGED vars
  <2>1. TypeOK'
    BY <1>7 DEF vars, client, gate, historyVars, spacings, Inv, TypeOK
  <2> QED BY <1>7, <2>1, ClientInv DEF vars, client, historyVars, spacings
<1> QED BY <1>1, <1>2, <1>3, <1>4, <1>5, <1>6, <1>7 DEF Next

THEOREM Invariance == Spec => []Inv
<1> QED BY InitInv, NextInv, PTL DEF Spec

-----------------------------------------------------------------------------
(* The properties. *)

\* Every reachable state is well typed.
THEOREM TypeCorrect == Spec => []TypeOK
<1>1. Inv => TypeOK
  BY DEF Inv
<1> QED BY <1>1, Invariance, PTL

\* No window sees more requests than its budget, through kills and restarts.
THEOREM BudgetsKept == Spec => []BudgetKept
<1>1. Inv => BudgetKept
  BY GateFields, Constants DEF Inv, TypeOK, CountInv, BudgetKept
<1> QED BY <1>1, Invariance, PTL

\* No request of any goroutine is on its way while a pause runs.
THEOREM CooldownsKept == Spec => []CooldownKept
<1>1. Inv => CooldownKept
  <2> SUFFICES ASSUME Inv, NEW c \in Callers, pc[c] = "flight" PROVE ~(owed > 0)
    BY DEF CooldownKept
  <2>1. mem.pause = 0 /\ up
    BY DEF Inv, LockInv, Inside
  <2>2. owed \in Nat /\ owed <= mem.pause
    BY <2>1 DEF Inv, PauseInv, TypeOK
  <2> QED BY <2>1, <2>2
<1> QED BY <1>1, Invariance, PTL

\* The gate's requests are never on their way together.
THEOREM SerializedAlways == Spec => []Serialized
<1>1. Inv => Serialized
  BY Alone DEF Inv, Serialized, Inside
<1> QED BY <1>1, Invariance, PTL

\* A request's turn comes the whole spacing after that of the last request sent,
\* through cancelled waits, failed saves, kills and restarts.
THEOREM TurnsSpaced == Spec => TurnSpacing
<1>1. ASSUME Inv, [Next]_vars, NEW c \in Callers, pc[c] = "spacing", pc'[c] = "saving"
      PROVE  turn = Spacing
  <2>1. pc \in [Callers -> Steps]
    BY <1>1 DEF Inv, TypeOK
  <2>2. ASSUME NEW d \in Callers, Gate(d) PROVE d = c /\ mem.next = 0
    BY <1>1, <2>1, <2>2 DEF Gate, Refused, OverBudget, Take, Cancelled, Reserve, Send,
          SaveFails, Answered, Refuses, SavePause, Move, gate
  <2>3. \E d \in Callers : Gate(d)
    BY <1>1, <2>1 DEF Next, Start, Down, Killed, Poll, ReplyOk, ReplyFailed, Recover,
          Elapse, gate, vars
  <2>4. mem.next = 0
    BY <2>2, <2>3
  <2>5. turn + mem.next >= Spacing
    BY <1>1 DEF Inv, LockInv, TurnInv, Inside
  <2>6. turn \in 0..Spacing /\ Spacing \in Nat
    BY <1>1, Constants DEF Inv, TypeOK
  <2> QED BY <2>4, <2>5, <2>6
<1>2. Inv /\ [Next]_vars
        => [\A c \in Callers : pc[c] = "spacing" /\ pc'[c] = "saving" => turn = Spacing]_vars
  BY <1>1
<1> QED BY <1>2, Invariance, PTL DEF Spec, TurnSpacing

=============================================================================
