----------------------------- MODULE Freshness -----------------------------
(***************************************************************************)
(* The freshness rule of App (dbus_ev/main.py), shared by every data       *)
(* source: an acquisition is a monotonic time, NoTime stands for Python's  *)
(* None, and a sample is fresh while its age lies in 0 .. timeout - 1.     *)
(***************************************************************************)
EXTENDS Integers

CONSTANT NoTime      \* None where a monotonic time is expected

ASSUME NoTimeAssumption == NoTime \notin Int

\* Sources whose failed poll withdraws the last good acquisition at once; a
\* failed Home Assistant poll keeps it until it expires.
FailClosedSources == {"mercedes", "evcc"}

Fresh(now, at, timeout) ==
  /\ at # NoTime
  /\ 0 <= now - at
  /\ now - at < timeout

\* last_ok_time after apply_snapshot has judged one snapshot.
NextLastOk(source, accepted, at, last) ==
  CASE accepted                                   -> at
    [] ~accepted /\ source \in FailClosedSources  -> NoTime
    [] OTHER                                      -> last

=============================================================================
