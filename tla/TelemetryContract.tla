------------------------ MODULE TelemetryContract ------------------------
(***************************************************************************)
(* What the bridge promises a D-Bus consumer about /Connected, whatever    *)
(* thread, socket or engine acquires the data: the acquisition on show     *)
(* never goes back in time, it is replaced only by one that is fresh, it   *)
(* can be withdrawn, and /Connected is raised only by a fresh acquisition. *)
(***************************************************************************)
EXTENDS Freshness

CONSTANT StaleTimeout   \* the age at which an acquisition expires

VARIABLES
  now,         \* the monotonic clock
  lastOk,      \* when the data on show was acquired, NoTime for none
  connected    \* the value of /Connected

vars == <<now, lastOk, connected>>

Init == now = 0 /\ lastOk = NoTime /\ connected = FALSE

Advance ==
  /\ now' = now + 1
  /\ UNCHANGED <<lastOk, connected>>

\* A newer (or the same) acquisition is put on show, and only while fresh.
Accept ==
  \E at \in 0..now :
    /\ Fresh(now, at, StaleTimeout)
    /\ lastOk # NoTime => lastOk <= at
    /\ lastOk' = at
    /\ connected' = TRUE
    /\ UNCHANGED now

\* The source failed closed.
Withdraw ==
  /\ lastOk' = NoTime
  /\ connected' = FALSE
  /\ UNCHANGED now

\* The main loop judges the acquisition on show again.
Reevaluate ==
  /\ connected' = Fresh(now, lastOk, StaleTimeout)
  /\ UNCHANGED <<now, lastOk>>

Next == Advance \/ Accept \/ Withdraw \/ Reevaluate

Spec == Init /\ [][Next]_vars

=============================================================================
