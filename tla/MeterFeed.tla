----------------------------- MODULE MeterFeed -----------------------------
(***************************************************************************)
(* The charger on D-Bus and the local meter it may depend on: CerboMqtt    *)
(* (dbus_ev/cerbo_mqtt.py) asks the meter's paths and caches the live      *)
(* answers on paho's thread; every tick of the main loop Charger.update    *)
(* (dbus_ev/charger.py) projects the cache and the vehicle snapshot.       *)
(*                                                                         *)
(* The meter's measurements are abstracted to the two that decide: whether *)
(* it is connected and its power, "idle" or "high" (above 50 W).  The main *)
(* loop ticks once per unit of time.                                       *)
(***************************************************************************)
EXTENDS Naturals

CONSTANTS
  MeterTtl,      \* CERBO_METER_TTL
  RefreshPeriod, \* time between two reads of the meter's paths
  Latency        \* the longest a meter that works takes to answer

ASSUME MeterAssumption ==
  /\ MeterTtl \in Nat \ {0} /\ RefreshPeriod \in Nat \ {0} /\ Latency \in Nat

VARIABLES
  requireMeter,  \* CERBO_METER_INSTANCE is set
  connected,
  cache,         \* _meter: value and age of every path, "none" for no entry
  refresh,       \* time until the paths are read again, 0 for now
  ticked,        \* this unit's tick has run
  snap,          \* the vehicle snapshot of the last tick
  shown,         \* the charger on D-Bus
  \* history
  pending,       \* the paths that the meter still has to answer,
  left,          \* and how long a working meter may take
  steady         \* since every path was answered once, the meter worked

vars == <<requireMeter, connected, cache, refresh, ticked, snap, shown, pending, left, steady>>

Paths == {"connected", "power"}
Values == [connected |-> {"yes", "no", "null"}, power |-> {"idle", "high", "null"}]
Empty == [p \in Paths |-> [value |-> "none", age |-> 0]]

\* What the vehicle says: charger status 0, 1, 2, 3 or "none", whether it is at the
\* site, and whether it reports its own power.
Statuses == {"unplugged", "connected", "charging", "charged", "none"}
Snapshots ==
  [ok : BOOLEAN, status : Statuses,
   atSite : {"yes", "no", "none"}, power : BOOLEAN]
Expired(s) == [s EXCEPT !.ok = FALSE, !.status = "none", !.atSite = "none", !.power = FALSE]

\* EvChargerService: connected and unplugged without power, until Charger has
\* updated it without a snapshot, before it is registered.
NewService == [usable |-> TRUE, status |-> "unplugged", power |-> "idle", age |-> 0]
Unusable ==
  [usable |-> FALSE, status |-> NewService.status, power |-> "none", age |-> NewService.age]

Init ==
  /\ requireMeter \in BOOLEAN
  /\ connected = FALSE /\ cache = Empty /\ refresh = 0
  /\ ticked = FALSE
  /\ snap = [ok |-> FALSE, status |-> "none", atSite |-> "none", power |-> FALSE]
  /\ shown = Unusable
  /\ pending = {} /\ left = 0 /\ steady = FALSE

-----------------------------------------------------------------------------
(* paho's thread. *)

OnConnect ==
  /\ ~connected
  /\ connected' = TRUE /\ cache' = Empty /\ refresh' = 0
  /\ pending' = {} /\ steady' = FALSE
  /\ UNCHANGED <<requireMeter, ticked, snap, shown, left>>

OnDisconnect ==
  /\ connected
  /\ connected' = FALSE /\ cache' = Empty
  /\ pending' = {} /\ steady' = FALSE
  /\ UNCHANGED <<requireMeter, refresh, ticked, snap, shown, left>>

OnMessageKeepingAge ==
  /\ connected /\ requireMeter
  /\ \E p \in Paths : \E value \in Values[p] :
       /\ cache' = [cache EXCEPT ![p].value = value]
       /\ pending' = pending \ {p}
       /\ steady' = (steady \/ pending = {p})
  /\ UNCHANGED <<requireMeter, connected, refresh, ticked, snap, shown, left>>

\* A live value, asked for or not, of the meter that is subscribed to; retained
\* messages are passed over.
OnMessage ==
  /\ connected /\ requireMeter
  /\ \E p \in Paths : \E value \in Values[p] :
       /\ cache' = [cache EXCEPT ![p] = [value |-> value, age |-> 0]]
       /\ pending' = pending \ {p}
       /\ steady' = (steady \/ pending = {p})
  /\ UNCHANGED <<requireMeter, connected, refresh, ticked, snap, shown, left>>

-----------------------------------------------------------------------------
(* The main loop. *)

\* meter(): the values that are connected and young enough.
Meter(p) == IF connected /\ cache[p].age < MeterTtl THEN cache[p].value ELSE "none"

CloudPower(s) == IF s.power THEN "cloud" ELSE "none"
PowerOrCloud(s) ==
  IF Meter("power") \in {"idle", "high"} THEN Meter("power") ELSE CloudPower(s)
\* The power that counts: a required meter is never replaced by the cloud.
Power(s) ==
  IF ~requireMeter THEN CloudPower(s)
  ELSE IF Meter("power") = "null" THEN "none" ELSE Meter("power")

\* _status_and_power: the dedicated circuit is stronger than the vehicle's word,
\* which counts only for a vehicle known to be here or known to be unplugged.
Status(s) ==
  LET said == IF s.atSite = "no" THEN "unplugged" ELSE s.status
  IN IF requireMeter /\ Power(s) = "high" THEN "charging"
     ELSE IF requireMeter /\ s.atSite = "none" /\ said # "unplugged" THEN "none"
     ELSE said

\* Charger.update for a snapshot that is empty unless it is fresh.
Projection(s) ==
  LET ready == IF requireMeter THEN Meter("connected") # "no" ELSE Status(s) # "none"
  IN IF ready /\ Power(s) # "none"
     THEN [usable |-> TRUE, status |-> Status(s), power |-> Power(s),
           age |-> IF requireMeter THEN cache["power"].age ELSE 0]
     ELSE Unusable

\* A refused read leaves the whole batch due.
NextRefresh(accepted) == IF accepted THEN RefreshPeriod ELSE 0

\* _refresh_meter, then Charger.update with what the cache holds, for a snapshot.
TickWith(s) ==
  /\ ~ticked
  /\ ticked' = TRUE
  /\ IF requireMeter /\ connected /\ refresh = 0
     THEN \E accepted \in BOOLEAN :
            /\ refresh' = NextRefresh(accepted)
            /\ pending' = IF accepted THEN Paths ELSE {}
            /\ left' = IF accepted THEN Latency ELSE left
            /\ steady' = (steady /\ accepted /\ pending = {})
     ELSE UNCHANGED <<refresh, pending, left, steady>>
  /\ LET fresh == IF s.ok THEN s ELSE Expired(s)
     IN snap' = fresh /\ shown' = Projection(fresh)
  /\ UNCHANGED <<requireMeter, connected, cache>>

Tick == \E s \in Snapshots : TickWith(s)

Less(n) == IF n = 0 THEN 0 ELSE n - 1
Older(age) == IF age < MeterTtl THEN age + 1 ELSE age

\* Time passes after the tick; a meter that has not answered in time is not steady.
Elapse ==
  /\ ticked
  /\ ticked' = FALSE
  /\ cache' = [p \in Paths |-> IF cache[p].value = "none" THEN cache[p]
                               ELSE [cache[p] EXCEPT !.age = Older(@)]]
  /\ refresh' = Less(refresh)
  /\ shown' = IF shown.usable /\ requireMeter THEN [shown EXCEPT !.age = @ + 1] ELSE shown
  /\ left' = Less(left)
  /\ pending' = IF left > 0 THEN pending ELSE {}
  /\ steady' = (steady /\ (pending = {} \/ left > 0))
  /\ UNCHANGED <<requireMeter, connected, snap>>

Next == OnConnect \/ OnDisconnect \/ OnMessage \/ Tick \/ Elapse

Spec == Init /\ [][Next]_vars

-----------------------------------------------------------------------------
Entries == [value : {"yes", "no", "idle", "high", "null", "none"}, age : 0..MeterTtl]

TypeOK ==
  /\ requireMeter \in BOOLEAN /\ connected \in BOOLEAN /\ ticked \in BOOLEAN
  /\ cache \in [Paths -> Entries]
  /\ refresh \in 0..RefreshPeriod
  /\ snap \in Snapshots
  /\ shown \in [usable : BOOLEAN, status : Statuses,
                power : {"idle", "high", "cloud", "none"}, age : 0..MeterTtl]
  /\ pending \subseteq Paths /\ left \in 0..Latency /\ steady \in BOOLEAN

\* What a usable charger shows has a ground.  With a required meter it is the
\* meter's own live power: never the cloud's, and never one older than its deadline
\* and the last tick.  Neither expired vehicle fields nor an idle circuit establish
\* a status: it takes a fresh snapshot of a vehicle known to be here, gone or
\* unplugged, or power.
ShownIsGrounded ==
  shown.usable =>
    /\ requireMeter => shown.power \in {"idle", "high"} /\ shown.age <= MeterTtl
    /\ shown.status # "none" /\ shown.power # "high" =>
         snap.ok /\ (shown.status = "unplugged" \/ snap.status = shown.status)

\* A meter that answers keeps all its values alive between two reads, provided
\* the deadline covers the read period and the answer.
MeterStaysFresh ==
  MeterTtl > RefreshPeriod + Latency /\ steady => \A p \in Paths : cache[p].age < MeterTtl

=============================================================================
