--------------------------- MODULE OutputsProofs ---------------------------
(***************************************************************************)
(* Proofs about the charger and its meter (MeterFeed) and about the        *)
(* outputs they are a part of (Outputs): what the charger shows has a      *)
(* ground, a meter that works keeps its values alive, the outputs do to    *)
(* the charger and the meter nothing that MeterFeed does not allow, the    *)
(* two devices on D-Bus agree, nothing that they show is invented, and     *)
(* every option gets its entity, for any period, deadline and latency, any *)
(* payloads and any states.                                                *)
(***************************************************************************)
EXTENDS Outputs, TLAPS

Powers == {"idle", "high", "cloud", "none"}

\* A charger that the tick has just shown leaves room for a second more.
Young == ticked /\ requireMeter /\ shown.usable => shown.age < MeterTtl

\* While answers are due or all came in time: how old they are, from the time
\* until the next read and the time left for the answer.
Answered == RefreshPeriod - refresh
Steady ==
  steady \/ pending # {} =>
    /\ requireMeter /\ connected
    /\ ticked => refresh > 0
    /\ \A p \in Paths \ pending : cache[p].age <= Answered
    /\ pending # {} => left + Answered = Latency
    /\ steady => \A p \in pending : cache[p].age <= RefreshPeriod + Answered

\* Every path holds what its topic carries.
CacheOK == \A p \in Paths : cache[p].value \in Values[p] \cup {"none"}

MeterInv == TypeOK /\ CacheOK /\ Young /\ Steady /\ ShownIsGrounded

-----------------------------------------------------------------------------
(* The meter's cache and the projection.                                   *)

LEMMA MeterConstants ==
  MeterTtl \in Nat /\ MeterTtl > 0 /\ RefreshPeriod \in Nat /\ RefreshPeriod > 0 /\ Latency \in Nat
  BY MeterAssumption

LEMMA ValuesFacts ==
  /\ Values["connected"] = {"yes", "no", "null"} /\ Values["power"] = {"idle", "high", "null"}
  /\ \A p \in Paths : \A v \in Values[p] \cup {"none"}, n \in 0..MeterTtl :
       [value |-> v, age |-> n] \in Entries
<1>1. Values["connected"] = {"yes", "no", "null"} /\ Values["power"] = {"idle", "high", "null"}
  BY DEF Values
<1>2. Paths = {"connected", "power"}
  BY DEF Paths
<1> QED  BY <1>1, <1>2 DEF Entries

LEMMA UnusableFact ==
  Unusable = [usable |-> FALSE, status |-> "unplugged", power |-> "none", age |-> 0]
  BY DEF Unusable, NewService

LEMMA EmptyFacts ==
  /\ Empty \in [Paths -> Entries]
  /\ \A p \in Paths : Empty[p].age = 0 /\ Empty[p].value = "none"
<1>1. 0 \in 0..MeterTtl
  BY MeterConstants
<1>2. \A p \in Paths : [value |-> "none", age |-> 0] \in Entries
  BY <1>1, ValuesFacts
<1> QED  BY <1>2 DEF Empty

LEMMA EntryFields ==
  ASSUME TypeOK, NEW p \in Paths
  PROVE  /\ cache[p] \in Entries /\ cache[p].age \in 0..MeterTtl
         /\ cache[p] = [value |-> cache[p].value, age |-> cache[p].age]
  BY DEF TypeOK, Entries

\* The power that a usable charger shows, and how old it is.
LEMMA PowerFacts ==
  ASSUME NEW s, TypeOK, CacheOK
  PROVE  /\ Power(s) \in Powers
         /\ requireMeter /\ Power(s) # "none" =>
              Power(s) \in {"idle", "high"} /\ cache["power"].age < MeterTtl
<1>1. "power" \in Paths
  BY DEF Paths
<1>2. cache["power"].value \in {"idle", "high", "null", "none"}
  BY <1>1, ValuesFacts DEF CacheOK
<1>3. CloudPower(s) \in {"cloud", "none"}
  BY DEF CloudPower
<1>4. Meter("power") \in {"idle", "high", "null", "none"}
      /\ (Meter("power") # "none" => cache["power"].age < MeterTtl)
  BY <1>2 DEF Meter
<1> QED  BY <1>3, <1>4 DEF Power, Powers

LEMMA StatusFacts ==
  ASSUME NEW s \in Snapshots
  PROVE  /\ Status(s) \in Statuses
         /\ Status(s) # "none" /\ ~(requireMeter /\ Power(s) = "high") =>
              Status(s) = "unplugged" \/ Status(s) = s.status
  BY DEF Status, Snapshots, Statuses

LEMMA ExpiredFacts ==
  ASSUME NEW s \in Snapshots
  PROVE  /\ Expired(s) \in Snapshots /\ ~Expired(s).ok
         /\ Expired(s).status = "none" /\ Expired(s).atSite = "none" /\ ~Expired(s).power
  BY DEF Expired, Snapshots, Statuses

\* What Charger.update makes of a fresh snapshot, and of one that has expired.
LEMMA ProjectionFacts ==
  ASSUME TypeOK, CacheOK, NEW s \in Snapshots, ~s.ok => s = Expired(s)
  PROVE  /\ Projection(s) \in [usable : BOOLEAN, status : Statuses, power : Powers, age : 0..MeterTtl]
         /\ Projection(s).usable =>
              /\ requireMeter => /\ Projection(s).power \in {"idle", "high"}
                                 /\ Projection(s).age < MeterTtl
              /\ Projection(s).status # "none" /\ Projection(s).power # "high" =>
                   s.ok /\ (Projection(s).status = "unplugged" \/ s.status = Projection(s).status)
<1> DEFINE good == [usable |-> TRUE, status |-> Status(s), power |-> Power(s),
                    age |-> IF requireMeter THEN cache["power"].age ELSE 0]
<1>1. cache["power"].age \in 0..MeterTtl /\ 0 \in 0..MeterTtl
  BY EntryFields, MeterConstants DEF Paths
<1>2. CASE Projection(s) = good /\ Power(s) # "none"
  <2>1. Power(s) \in Powers /\ Status(s) \in Statuses
    BY PowerFacts, StatusFacts
  <2>2. requireMeter => Power(s) \in {"idle", "high"} /\ cache["power"].age < MeterTtl
    BY <1>2, PowerFacts
  <2>3. Status(s) # "none" /\ Power(s) # "high" =>
          s.ok /\ (Status(s) = "unplugged" \/ s.status = Status(s))
    BY StatusFacts, ExpiredFacts DEF Status
  <2> QED  BY <1>1, <1>2, <2>1, <2>2, <2>3
<1>3. CASE Projection(s) = Unusable
  BY <1>1, <1>3, UnusableFact DEF Statuses, Powers
<1> QED  BY <1>2, <1>3 DEF Projection

-----------------------------------------------------------------------------
(* Every step of MeterFeed keeps the invariant.                            *)

LEMMA InitMeter == Init => MeterInv
<1> SUFFICES ASSUME Init  PROVE MeterInv
  OBVIOUS
<1>1. cache = Empty /\ CacheOK
  BY EmptyFacts DEF Init, CacheOK
<1>2. snap \in Snapshots
  BY DEF Init, Snapshots, Statuses
<1>3. shown \in [usable : BOOLEAN, status : Statuses,
                power : {"idle", "high", "cloud", "none"}, age : 0..MeterTtl]
  BY MeterConstants, UnusableFact DEF Init, Statuses
<1>4. refresh \in 0..RefreshPeriod /\ left \in 0..Latency /\ pending \subseteq Paths
  BY MeterConstants DEF Init
<1>5. requireMeter \in BOOLEAN /\ connected \in BOOLEAN /\ ticked \in BOOLEAN /\ steady \in BOOLEAN
  BY DEF Init
<1>6. TypeOK
  BY <1>1, <1>2, <1>3, <1>4, <1>5, EmptyFacts DEF TypeOK
<1> QED  BY <1>1, <1>6, UnusableFact DEF Init, MeterInv, Young, Steady, ShownIsGrounded

LEMMA MessageStep ==
  ASSUME MeterInv, OnMessage
  PROVE  MeterInv'
<1> USE DEF MeterInv
<1>1. PICK p \in Paths : \E value \in Values[p] :
        /\ cache' = [cache EXCEPT ![p] = [value |-> value, age |-> 0]]
        /\ pending' = pending \ {p}
        /\ steady' = (steady \/ pending = {p})
  BY DEF OnMessage
<1>2. PICK value \in Values[p] : cache' = [cache EXCEPT ![p] = [value |-> value, age |-> 0]]
  BY <1>1
<1>3. /\ connected /\ requireMeter
      /\ UNCHANGED <<requireMeter, connected, refresh, ticked, snap, shown, left>>
  BY DEF OnMessage
<1>4. 0 \in 0..MeterTtl /\ [value |-> value, age |-> 0] \in Entries
  BY ValuesFacts, MeterConstants
<1>5. TypeOK'
  BY <1>1, <1>2, <1>3, <1>4 DEF TypeOK
<1>6. CacheOK'
  BY <1>2, <1>3 DEF TypeOK, CacheOK
<1>7. Young' /\ ShownIsGrounded'
  BY <1>3 DEF Young, ShownIsGrounded
<1>8. Steady'
  <2> SUFFICES ASSUME steady' \/ pending' # {}  PROVE Steady'
    BY DEF Steady
  <2>1. steady \/ pending # {}
    BY <1>1
  <2>2. /\ cache'[p].age = 0
        /\ \A q \in Paths : q # p => cache'[q] = cache[q]
    BY <1>1 DEF TypeOK
  <2>3. Answered \in Nat /\ Answered' = Answered /\ RefreshPeriod \in Nat
    BY <1>3, MeterConstants DEF Answered, TypeOK
  <2>4. \A q \in Paths \ pending' : cache'[q].age <= Answered
    BY <1>1, <2>1, <2>2, <2>3 DEF Steady
  <2>5. pending' # {} => left' + Answered = Latency
    BY <1>1, <1>3, <2>1 DEF Steady
  <2>6. steady' => \A q \in pending' : cache'[q].age <= RefreshPeriod + Answered
    BY <1>1, <2>2, <2>3 DEF Steady, TypeOK
  <2> QED  BY <1>3, <2>1, <2>3, <2>4, <2>5, <2>6 DEF Steady
<1> QED  BY <1>5, <1>6, <1>7, <1>8

LEMMA TickStep ==
  ASSUME MeterInv, NEW s \in Snapshots, TickWith(s)
  PROVE  MeterInv'
<1> USE DEF MeterInv
<1> DEFINE fresh == IF s.ok THEN s ELSE Expired(s)
<1>1. /\ ~ticked /\ ticked' = TRUE /\ snap' = fresh /\ shown' = Projection(fresh)
      /\ UNCHANGED <<requireMeter, connected, cache>>
  BY DEF TickWith
<1>2. fresh \in Snapshots /\ (~fresh.ok => fresh = Expired(fresh))
  BY ExpiredFacts DEF Expired, Snapshots
<1>3. /\ shown' \in [usable : BOOLEAN, status : Statuses, power : Powers, age : 0..MeterTtl]
      /\ shown'.usable =>
           /\ requireMeter => shown'.power \in {"idle", "high"} /\ shown'.age < MeterTtl
           /\ shown'.status # "none" /\ shown'.power # "high" =>
                snap'.ok /\ (shown'.status = "unplugged" \/ snap'.status = shown'.status)
  BY <1>1, <1>2, ProjectionFacts
<1>4. CASE ~(requireMeter /\ connected /\ refresh = 0)
  <2>1. UNCHANGED <<refresh, pending, left, steady>>
    BY <1>4 DEF TickWith
  <2>2. TypeOK' /\ CacheOK'
    BY <1>1, <1>2, <1>3, <2>1 DEF TypeOK, CacheOK, Powers
  <2>3. Young' /\ ShownIsGrounded'
    BY <1>1, <1>3, MeterConstants DEF Young, ShownIsGrounded
  <2>4. Steady'
    BY <1>1, <1>4, <2>1, MeterConstants DEF Steady, Answered, TypeOK
  <2> QED  BY <2>2, <2>3, <2>4
<1>5. CASE requireMeter /\ connected /\ refresh = 0
  <2>1. PICK accepted \in BOOLEAN :
          /\ refresh' = NextRefresh(accepted)
          /\ pending' = IF accepted THEN Paths ELSE {}
          /\ left' = IF accepted THEN Latency ELSE left
          /\ steady' = (steady /\ accepted /\ pending = {})
    BY <1>5 DEF TickWith
  <2>2. TypeOK' /\ CacheOK'
    BY <1>1, <1>2, <1>3, <2>1, MeterConstants DEF TypeOK, CacheOK, Powers, NextRefresh
  <2>3. Young' /\ ShownIsGrounded'
    BY <1>1, <1>3, MeterConstants DEF Young, ShownIsGrounded
  <2>4. Steady'
    <3>1. CASE accepted
      <4>1. refresh' = RefreshPeriod /\ pending' = Paths /\ left' = Latency /\ Answered' = 0
        BY <2>1, <3>1, MeterConstants DEF NextRefresh, Answered
      <4>2. steady' => \A p \in Paths : cache[p].age <= RefreshPeriod
        <5> SUFFICES ASSUME steady', NEW p \in Paths  PROVE cache[p].age <= RefreshPeriod
          OBVIOUS
        <5>1. steady /\ pending = {}
          BY <2>1
        <5>2. cache[p].age <= Answered
          BY <5>1 DEF Steady
        <5> QED  BY <1>5, <5>2, MeterConstants DEF Answered
      <4>3. steady' => \A p \in pending' : cache'[p].age <= RefreshPeriod + Answered'
        BY <1>1, <4>1, <4>2, MeterConstants
      <4>4. requireMeter' /\ connected' /\ refresh' > 0 /\ left' + Answered' = Latency
        BY <1>1, <1>5, <4>1, MeterConstants
      <4> QED  BY <4>1, <4>3, <4>4 DEF Steady
    <3>2. CASE ~accepted
      BY <2>1, <3>2 DEF Steady
    <3> QED  BY <3>1, <3>2
  <2> QED  BY <2>2, <2>3, <2>4
<1> QED  BY <1>4, <1>5

LEMMA ElapseStep ==
  ASSUME MeterInv, Elapse
  PROVE  MeterInv'
<1> USE DEF MeterInv
<1>1. /\ ticked /\ ticked' = FALSE /\ refresh' = Less(refresh) /\ left' = Less(left)
      /\ pending' = IF left > 0 THEN pending ELSE {}
      /\ steady' = (steady /\ (pending = {} \/ left > 0))
      /\ UNCHANGED <<requireMeter, connected, snap>>
  BY DEF Elapse
<1>2. refresh \in 0..RefreshPeriod /\ left \in 0..Latency
  BY DEF TypeOK
<1>3. ASSUME NEW p \in Paths
      PROVE  /\ cache'[p] \in Entries /\ cache'[p].value = cache[p].value
             /\ cache'[p].age <= cache[p].age + 1
  <2>1. /\ cache[p] = [value |-> cache[p].value, age |-> cache[p].age]
        /\ cache[p] \in Entries /\ cache[p].age \in 0..MeterTtl
    BY EntryFields
  <2>2. cache'[p] = IF cache[p].value = "none" THEN cache[p]
                    ELSE [cache[p] EXCEPT !.age = Older(cache[p].age)]
    BY DEF Elapse
  <2>3. /\ cache'[p].value = cache[p].value
        /\ cache'[p] = [value |-> cache[p].value, age |-> cache'[p].age]
        /\ cache'[p].age \in {cache[p].age, Older(cache[p].age)}
    BY <2>1, <2>2
  <2>4. Older(cache[p].age) \in 0..MeterTtl /\ Older(cache[p].age) <= cache[p].age + 1
    BY <2>1, MeterConstants DEF Older
  <2>5. cache'[p].age \in 0..MeterTtl /\ cache[p].value \in Values[p] \cup {"none"}
    BY <2>1, <2>3, <2>4 DEF CacheOK
  <2>6. [value |-> cache[p].value, age |-> cache'[p].age] \in Entries
    BY <2>5, ValuesFacts
  <2> QED  BY <2>1, <2>3, <2>4, <2>6
<1>4. cache' \in [Paths -> Entries]
  BY <1>3 DEF Elapse
<1>5. CacheOK'
  BY <1>3 DEF CacheOK
<1>6. shown' = IF shown.usable /\ requireMeter THEN [shown EXCEPT !.age = shown.age + 1] ELSE shown
  BY DEF Elapse
<1>7. shown.usable /\ requireMeter => shown.age < MeterTtl
  BY <1>1 DEF Young
<1>8. shown' \in [usable : BOOLEAN, status : Statuses, power : Powers, age : 0..MeterTtl]
  BY <1>6, <1>7, MeterConstants DEF TypeOK, Powers
<1>9. /\ shown'.usable = shown.usable /\ shown'.status = shown.status
      /\ shown'.power = shown.power /\ shown'.age \in 0..MeterTtl
  BY <1>6, <1>8 DEF TypeOK
<1>10. ShownIsGrounded'
  BY <1>1, <1>9, MeterConstants DEF ShownIsGrounded
<1>11. refresh' \in 0..RefreshPeriod /\ left' \in 0..Latency
  BY <1>1, <1>2, MeterConstants DEF Less
<1>12. TypeOK'
  BY <1>1, <1>4, <1>8, <1>11 DEF TypeOK, Powers
<1>13. Steady'
  <2> SUFFICES ASSUME steady' \/ pending' # {}  PROVE Steady'
    BY DEF Steady
  <2>1. pending' = pending /\ (steady \/ pending # {}) /\ (pending # {} => left > 0)
    BY <1>1
  <2>2. refresh > 0 /\ refresh' = refresh - 1 /\ Answered' = Answered + 1 /\ Answered \in Nat
    BY <1>1, <1>2, <2>1, MeterConstants DEF Steady, Less, Answered
  <2>3. \A p \in Paths : cache[p].age \in Nat /\ cache'[p].age \in Nat
    <3>1. \A e \in Entries : e.age \in Nat
      BY MeterConstants DEF Entries
    <3> QED  BY <1>3, <3>1, EntryFields
  <2>4. \A p \in Paths \ pending' : cache'[p].age <= Answered'
    BY <1>3, <2>1, <2>2, <2>3 DEF Steady
  <2>5. pending' # {} => left' + Answered' = Latency
    BY <1>1, <1>2, <2>1, <2>2 DEF Steady, Less
  <2>6. steady' => \A p \in pending' : cache'[p].age <= RefreshPeriod + Answered'
    <3> SUFFICES ASSUME steady', NEW p \in pending'
                 PROVE  cache'[p].age <= RefreshPeriod + Answered'
      OBVIOUS
    <3>1. p \in Paths /\ cache[p].age <= RefreshPeriod + Answered
      BY <1>1, <2>1 DEF Steady, TypeOK
    <3> QED  BY <1>3, <2>2, <2>3, <3>1, MeterConstants
  <2> QED  BY <1>1, <2>1, <2>4, <2>5, <2>6 DEF Steady
<1> QED  BY <1>1, <1>5, <1>10, <1>12, <1>13 DEF Young

LEMMA ConnectionStep ==
  ASSUME MeterInv, OnConnect \/ OnDisconnect
  PROVE  MeterInv'
<1> USE DEF MeterInv
<1>1. /\ cache' = Empty /\ pending' = {} /\ ~steady' /\ steady' \in BOOLEAN
      /\ connected' \in BOOLEAN /\ refresh' \in {0, refresh}
      /\ UNCHANGED <<requireMeter, ticked, snap, shown, left>>
  BY DEF OnConnect, OnDisconnect
<1>2. TypeOK' /\ CacheOK'
  BY <1>1, EmptyFacts, MeterConstants DEF TypeOK, CacheOK
<1> QED  BY <1>1, <1>2 DEF Young, Steady, ShownIsGrounded

LEMMA MeterStays == MeterInv /\ [Next]_vars => MeterInv'
<1> SUFFICES ASSUME MeterInv, [Next]_vars  PROVE MeterInv'
  OBVIOUS
<1>1. CASE UNCHANGED vars
  BY <1>1 DEF vars, MeterInv, TypeOK, CacheOK, Young, Steady, Answered, ShownIsGrounded
<1>2. CASE Tick
  BY <1>2, TickStep DEF Tick
<1> QED  BY <1>1, <1>2, MessageStep, ElapseStep, ConnectionStep DEF Next

LEMMA SteadyIsFresh == MeterInv => MeterStaysFresh
<1> SUFFICES ASSUME MeterInv, MeterTtl > RefreshPeriod + Latency, steady, NEW p \in Paths
             PROVE  cache[p].age < MeterTtl
  BY DEF MeterStaysFresh
<1>1. refresh \in 0..RefreshPeriod /\ left \in 0..Latency /\ cache[p].age \in Nat
  BY EntryFields DEF MeterInv, TypeOK
<1>2. CASE p \in pending
  BY <1>1, <1>2, MeterConstants DEF MeterInv, Steady, Answered
<1>3. CASE p \notin pending
  BY <1>1, <1>3, MeterConstants DEF MeterInv, Steady, Answered
<1> QED  BY <1>2, <1>3

\* The variables of the charger and its meter keep their types.
THEOREM MeterTypes == Spec => []TypeOK
<1>1. MeterInv => TypeOK
  BY DEF MeterInv
<1> QED  BY <1>1, InitMeter, MeterStays, PTL DEF Spec

\* The charger shows only what the meter or a fresh snapshot establishes,
\* however the connection, the answers and the expiry of the snapshot fall.
THEOREM Grounded == Spec => []ShownIsGrounded
<1>1. MeterInv => ShownIsGrounded
  BY DEF MeterInv
<1> QED  BY <1>1, InitMeter, MeterStays, PTL DEF Spec

\* _refresh_meter: with a deadline beyond the period and the answer, the values
\* of a meter that answers never run out between two reads.
THEOREM StaysFresh == Spec => []MeterStaysFresh
  BY SteadyIsFresh, InitMeter, MeterStays, PTL DEF Spec

-----------------------------------------------------------------------------
(* The outputs.                                                            *)

\* A snapshot whose status for the charger goes with its state for the vehicle.
SnapshotOK(s) ==
  /\ s = [ok |-> s.ok, target |-> s.target, state |-> s.state, status |-> s.status,
          atSite |-> s.atSite, power |-> s.power]
  /\ s.ok \in BOOLEAN /\ s.status \in Statuses /\ s.atSite \in {"yes", "no", "none"}
  /\ s.status # "none" =>
       /\ s.status = "charging" <=> s.state = "charging"
       /\ s.status = "unplugged" => s.state = "not_charging"

OutputsInv ==
  /\ SnapshotOK(latest)
  /\ source = "ha" \/ integration => ~shown.usable
  /\ latest.ok /\ shown.usable /\ ~requireMeter =>
       /\ shown.status = IF latest.atSite = "no" THEN "unplugged" ELSE latest.status
       /\ shown.status # "none" /\ ev.state = latest.state

\* The two translations of Mercedes' charging status agree.
LEMMA MercedesStatus ==
  ASSUME NEW raw, ChargerStatus(raw) # "none"
  PROVE  /\ ChargerStatus(raw) = "charging" <=> MapChargingState(raw) = "charging"
         /\ ChargerStatus(raw) = "unplugged" => MapChargingState(raw) = "not_charging"
<1>1. CASE raw \in {"0", "5", "6", "9", "10", "11", "13", "14"}
  BY <1>1 DEF ChargerStatus, MapChargingState, ChargingStateMap
<1>2. CASE raw = "1"
  BY <1>2 DEF ChargerStatus, MapChargingState, ChargingStateMap
<1>3. CASE raw = "3"
  BY <1>3 DEF ChargerStatus, MapChargingState, ChargingStateMap
<1>4. CASE raw \in {"2", "8", "12", "15"}
  BY <1>4 DEF ChargerStatus, MapChargingState, ChargingStateMap
<1> QED  BY <1>1, <1>2, <1>3, <1>4 DEF ChargerStatus

\* Every source makes a snapshot of this kind.
LEMMA MercedesSnapshot ==
  ASSUME NEW decoded
  PROVE  SnapshotOK(VehicleSnapshot(decoded)) /\ VehicleSnapshot(decoded).ok
<1> DEFINE raw == IF decoded["chargingstatus"].status = "VALID"
                  THEN decoded["chargingstatus"].value ELSE "none"
           s == VehicleSnapshot(decoded)
<1>1. s = [ok |-> s.ok, target |-> s.target, state |-> s.state, status |-> s.status,
           atSite |-> s.atSite, power |-> s.power]
      /\ s.ok = TRUE /\ s.state = MapChargingState(raw) /\ s.status = ChargerStatus(raw)
      /\ s.atSite \in {"yes", "no", "none"}
  BY DEF VehicleSnapshot, AtSite
<1>2. ChargerStatus(raw) \in Statuses
  BY DEF ChargerStatus, Statuses
<1> QED  BY <1>1, <1>2, MercedesStatus DEF SnapshotOK

LEMMA EvccSnapshot ==
  ASSUME NEW data
  PROVE  SnapshotOK(Normalize(data))
<1> DEFINE s == Normalize(data)
<1>1. s = [ok |-> s.ok, target |-> s.target, state |-> s.state, status |-> s.status,
           atSite |-> s.atSite, power |-> s.power]
      /\ s.ok \in BOOLEAN /\ s.atSite \in {"yes", "no", "none"}
  BY DEF Normalize, AtSite
<1>2. s.state = CASE data.status = "C" -> "charging"
                  [] data.status \in {"A", "B"} -> "not_charging"
                  [] OTHER -> "none"
  BY DEF Normalize
<1>3. s.status = CASE data.status = "A" -> "unplugged"
                   [] data.status = "B" -> "connected"
                   [] data.status = "C" -> "charging"
                   [] OTHER -> "none"
  BY DEF Normalize
<1> QED  BY <1>1, <1>2, <1>3 DEF SnapshotOK, Statuses

LEMMA HaSnapshotOK ==
  ASSUME NEW states
  PROVE  SnapshotOK(HaSnapshot(states))
  BY DEF SnapshotOK, HaSnapshot, StateIsOn, Statuses

LEMMA QuietSnapshot ==
  ASSUME SnapshotOK(latest), NEW ok \in {latest.ok, FALSE}
  PROVE  SnapshotOK([latest EXCEPT !.ok = ok])
<1> DEFINE s == [latest EXCEPT !.ok = ok]
<1>1. latest = [ok |-> latest.ok, target |-> latest.target, state |-> latest.state,
                status |-> latest.status, atSite |-> latest.atSite, power |-> latest.power]
  BY DEF SnapshotOK
<1>2. s = [ok |-> ok, target |-> latest.target, state |-> latest.state,
           status |-> latest.status, atSite |-> latest.atSite, power |-> latest.power]
  BY <1>1
<1>3. /\ s = [ok |-> s.ok, target |-> s.target, state |-> s.state, status |-> s.status,
              atSite |-> s.atSite, power |-> s.power]
      /\ s.ok = ok /\ s.status = latest.status /\ s.state = latest.state
      /\ s.atSite = latest.atSite
  BY <1>2
<1> QED  BY <1>3 DEF SnapshotOK

LEMMA ForChargerFacts ==
  ASSUME NEW s, SnapshotOK(s)
  PROVE  /\ ForCharger(s) \in Snapshots
         /\ ForCharger(s).ok = s.ok /\ ForCharger(s).status = s.status
         /\ ForCharger(s).atSite = s.atSite
  BY DEF SnapshotOK, ForCharger, Snapshots

\* A tick shows the same snapshot to the charger and the vehicle service.
LEMMA ShowsBoth ==
  ASSUME OutputsInv, NEW s, SnapshotOK(s), Apply(s), ToCharger(s), s.ok => ev' = Updated(s),
         UNCHANGED <<source, integration>>
  PROVE  OutputsInv' /\ [Next]_vars
<1>1. latest' = s
  BY DEF Apply
<1>2. CASE source = "ha" \/ integration
  <2>1. UNCHANGED vars
    BY <1>2 DEF ToCharger
  <2> QED  BY <1>1, <1>2, <2>1 DEF OutputsInv, vars
<1>3. CASE ~(source = "ha" \/ integration)
  <2> DEFINE c == ForCharger(s)
  <2>1. TickWith(c) /\ c \in Snapshots /\ c.ok = s.ok /\ c.status = s.status /\ c.atSite = s.atSite
    BY <1>3, ForChargerFacts DEF ToCharger
  <2>2. Next
    BY <2>1 DEF Next, Tick
  <2> HIDE DEF c
  <2>3. requireMeter' = requireMeter /\ (s.ok => shown' = Projection(c))
    BY <2>1 DEF TickWith
  <2>4. ASSUME s.ok, shown'.usable, ~requireMeter
        PROVE  /\ shown'.status = IF s.atSite = "no" THEN "unplugged" ELSE s.status
               /\ shown'.status # "none" /\ ev'.state = s.state
    <3>1. Projection(c).usable /\ shown' = Projection(c)
      BY <2>3, <2>4
    <3>2. Status(c) # "none" /\ Projection(c).status = Status(c)
      BY <2>4, <3>1, UnusableFact DEF Projection
    <3>3. Status(c) = IF s.atSite = "no" THEN "unplugged" ELSE s.status
      BY <2>1, <2>4 DEF Status
    <3>4. ev'.state = s.state
      BY <2>4 DEF Updated
    <3> QED  BY <3>1, <3>2, <3>3, <3>4
  <2> QED  BY <1>1, <1>3, <2>2, <2>3, <2>4 DEF OutputsInv
<1> QED  BY <1>2, <1>3

LEMMA OutputsStep == OutputsInv /\ [OutputsNext]_outputsVars => OutputsInv' /\ [Next]_vars
<1> SUFFICES ASSUME OutputsInv, [OutputsNext]_outputsVars  PROVE OutputsInv' /\ [Next]_vars
  OBVIOUS
<1>1. CASE UNCHANGED outputsVars
  BY <1>1 DEF outputsVars, bridgeVars, vars, OutputsInv, SnapshotOK
<1>2. CASE MercedesTick
  <2>1. PICK payload \in Payloads[integration] :
          LET s == VehicleSnapshot(Decoder(payload)) IN Apply(s) /\ ToCharger(s)
    BY <1>2 DEF MercedesTick
  <2> DEFINE s == VehicleSnapshot(Decoder(payload))
  <2>2. Apply(s) /\ ToCharger(s)
    BY <2>1
  <2>3. SnapshotOK(s)
    BY MercedesSnapshot
  <2>4. s.ok => ev' = Updated(s)
    BY <2>2 DEF Apply
  <2> HIDE DEF s
  <2> QED  BY <1>2, <2>2, <2>3, <2>4, ShowsBoth DEF MercedesTick
<1>3. CASE EvccTick
  <2>1. PICK vehicle \in Readings :
          LET s == Normalize(Sample(vehicle).data) IN Apply(s) /\ ToCharger(s)
    BY <1>3 DEF EvccTick
  <2> DEFINE s == Normalize(Sample(vehicle).data)
  <2>2. Apply(s) /\ ToCharger(s)
    BY <2>1
  <2>3. SnapshotOK(s)
    BY EvccSnapshot
  <2>4. s.ok => ev' = Updated(s)
    BY <2>2 DEF Apply
  <2> HIDE DEF s
  <2> QED  BY <1>3, <2>2, <2>3, <2>4, ShowsBoth DEF EvccTick
<1>4. CASE HaTick
  <2>1. PICK states \in HaStates :
          LET s == HaSnapshot(Rendered(states, asked)) IN Apply(s) /\ ToCharger(s)
    BY <1>4 DEF HaTick
  <2> DEFINE s == HaSnapshot(Rendered(states, asked))
  <2>2. Apply(s) /\ ToCharger(s)
    BY <2>1
  <2>3. SnapshotOK(s)
    BY HaSnapshotOK
  <2>4. s.ok => ev' = Updated(s)
    BY <2>2 DEF Apply
  <2> HIDE DEF s
  <2> QED  BY <1>4, <2>2, <2>3, <2>4, ShowsBoth DEF HaTick
<1>5. CASE QuietTick
  <2>1. PICK ok \in {latest.ok, FALSE} :
          LET s == [latest EXCEPT !.ok = ok] IN Apply(s) /\ ToCharger(s)
    BY <1>5 DEF QuietTick
  <2> DEFINE s == [latest EXCEPT !.ok = ok]
  <2>2. Apply(s) /\ ToCharger(s)
    BY <2>1
  <2>3. SnapshotOK(s)
    BY QuietSnapshot DEF OutputsInv
  <2>4. s.ok => ev' = Updated(s)
    BY <2>2 DEF Apply
  <2> HIDE DEF s
  <2> QED  BY <1>5, <2>2, <2>3, <2>4, ShowsBoth DEF QuietTick
<1>6. CASE MeterStep
  <2>1. Next /\ UNCHANGED <<source, integration, latest, ev>> /\ source # "ha" /\ ~integration
    BY <1>6 DEF MeterStep, Next, bridgeVars
  <2>2. /\ requireMeter' = requireMeter
        /\ ~requireMeter => shown' = shown
    BY <1>6 DEF MeterStep, OnConnect, OnDisconnect, OnMessage, Elapse
  <2> QED  BY <2>1, <2>2 DEF OutputsInv, SnapshotOK
<1>7. CASE HaStep
  BY <1>7 DEF HaStep, bridgeVars, vars, OutputsInv, SnapshotOK
<1> QED  BY <1>1, <1>2, <1>3, <1>4, <1>5, <1>6, <1>7 DEF OutputsNext

LEMMA InitOutputs == OutputsInit => OutputsInv /\ Init
  BY UnusableFact DEF OutputsInit, Init, OutputsInv, SnapshotOK, Unread, Statuses

\* The sources, the decoders and Home Assistant do to the charger and the meter
\* nothing but what MeterFeed says: the outputs implement it.
THEOREM OutputsImplementMeterFeed == OutputsSpec => Spec
  BY InitOutputs, OutputsStep, PTL DEF OutputsSpec, Spec

\* So what the charger shows has a ground in the whole composition,
THEOREM OutputsGrounded == OutputsSpec => []ShownIsGrounded
  BY OutputsImplementMeterFeed, Grounded, PTL

\* and the values of a meter that answers do not run out.
THEOREM OutputsStayFresh == OutputsSpec => []MeterStaysFresh
  BY OutputsImplementMeterFeed, StaysFresh, PTL

\* Without a meter the vehicle service and the charger, which App.apply_snapshot
\* and Charger.update fill from one snapshot by different tables, tell the same.
THEOREM OutputsAgree == OutputsSpec => []StatesAgree
<1>1. OutputsInv => StatesAgree
  BY DEF OutputsInv, SnapshotOK, StatesAgree
<1> QED  BY <1>1, InitOutputs, OutputsStep, PTL DEF OutputsSpec

-----------------------------------------------------------------------------
(* Nothing is invented.                                                    *)

\* The readings of the vehicle service and of a good snapshot were said.
SaidOK(reading) ==
  /\ reading.target # "none" => said.target
  /\ AcPower(reading.power) # "none" => said.power

EvOK ==
  /\ ev = [connected |-> ev.connected, target |-> ev.target, state |-> ev.state,
           power |-> ev.power, phases |-> ev.phases]
  /\ ev.connected \in BOOLEAN

SaidInv ==
  /\ EvOK
  /\ NothingInvented
  /\ latest.ok => SaidOK(latest)
  /\ SnapshotOK(latest)

\* What a decoder of its own leaves of an option that the payload lacks.
LEMMA FreshDecoder ==
  ASSUME NEW payload, NEW o \in DbusOptions
  PROVE  LET c == Decoder(payload)
             whole == IF payload.pull THEN WithOverallWindow(payload.attrs) ELSE payload.attrs
         IN c[o] = IF DOMAIN payload.attrs = {} THEN Missing
                     ELSE Decode(whole, o, Missing)
<1>1. NewCar(DbusOptions)[o] = Missing /\ DOMAIN NewCar(DbusOptions) = DbusOptions
  BY DEF NewCar
<1>2. Kept(Missing) = Missing
  BY DEF Kept, Missing
<1> QED  BY <1>1, <1>2 DEF Decoder, BuildCar

LEMMA WholePayload ==
  ASSUME NEW attrs, NEW k, k # "windowStatusOverall"
  PROVE  /\ k \in DOMAIN WithOverallWindow(attrs) <=> k \in DOMAIN attrs
         /\ k \in DOMAIN attrs => WithOverallWindow(attrs)[k] = attrs[k]
  BY DEF WithOverallWindow

\* A limit takes charge programs, a power takes the attribute or an unplugged cable.
LEMMA MercedesSaid ==
  ASSUME NEW payload
  PROVE  LET s == VehicleSnapshot(Decoder(payload))
             attrs == payload.attrs
         IN /\ s.target # "none" => "chargePrograms" \in DOMAIN attrs
            /\ AcPower(s.power) # "none" =>
                 \/ "chargingPower" \in DOMAIN attrs
                 \/ "chargingstatus" \in DOMAIN attrs /\ attrs["chargingstatus"].value = "3"
<1> DEFINE c == Decoder(payload)
           attrs == payload.attrs
           whole == IF payload.pull THEN WithOverallWindow(attrs) ELSE attrs
           s == VehicleSnapshot(c)
           value(o) == IF c[o].status = "VALID" THEN c[o].value ELSE "none"
<1>1. /\ s.target = value("max_soc")
      /\ s.power = IF value("chargingPower") = "none" /\ value("chargingstatus") = "3"
                   THEN "0" ELSE value("chargingPower")
  BY DEF VehicleSnapshot
<1>2. \A o \in DbusOptions :
        c[o] = IF DOMAIN attrs = {} THEN Missing ELSE Decode(whole, o, Missing)
  BY FreshDecoder
<1>3. \A k \in {"chargePrograms", "chargingPower", "chargingstatus"} :
        /\ k \in DOMAIN whole <=> k \in DOMAIN attrs
        /\ k \in DOMAIN attrs => whole[k] = attrs[k]
  BY WholePayload
<1> HIDE DEF whole, c
<1>4. value("max_soc") # "none" => "chargePrograms" \in DOMAIN attrs
  <2>1. Decode(whole, "max_soc", Missing) = MaxSoc(whole, Missing)
    BY DEF Decode, ChargeInlet, Listed, Temperatures
  <2>2. Missing.status = "error"
    BY DEF Missing
  <2> QED  BY <1>2, <1>3, <2>1, <2>2 DEF MaxSoc, DbusOptions
<1>5. ASSUME NEW o \in {"chargingPower", "chargingstatus"}, value(o) # "none"
      PROVE  o \in DOMAIN attrs /\ value(o) = ValueOrZero(attrs[o])
  <2>1. Decode(whole, o, Missing) = Generic(whole, o)
    BY DEF Decode, ChargeInlet, Listed, Temperatures
  <2>2. Missing.status = "error" /\ NotAvailable.status = "4"
    BY DEF Missing, NotAvailable
  <2>3. c[o] = Generic(whole, o)
    <3>1. c[o].status = "VALID"
      BY <1>5
    <3>2. c[o] # Missing
      BY <2>2, <3>1
    <3> QED  BY <1>2, <2>1, <3>2 DEF DbusOptions
  <2>4. o \in DOMAIN whole
    BY <1>5, <2>2, <2>3 DEF Generic
  <2>5. c[o] = CarAttribute(attrs[o].status, ValueOrZero(attrs[o]))
    BY <1>3, <2>3, <2>4 DEF Generic
  <2> QED  BY <1>3, <1>5, <2>4, <2>5 DEF CarAttribute
<1>6. value("chargingstatus") = "3" =>
        "chargingstatus" \in DOMAIN attrs /\ attrs["chargingstatus"].value = "3"
  BY <1>5 DEF ValueOrZero
<1>7. AcPower(s.power) # "none" => value("chargingPower") # "none" \/ value("chargingstatus") = "3"
  BY <1>1 DEF AcPower
<1> QED  BY <1>1, <1>4, <1>5, <1>6, <1>7 DEF c

\* evcc: only a reading that is there is passed on.
LEMMA EvccSaid ==
  ASSUME NEW vehicle \in Readings, Sample(vehicle).ok
  PROVE  LET s == Normalize(Sample(vehicle).data)
         IN /\ s.target # "none" => vehicle.target = "some"
            /\ AcPower(s.power) # "none" => vehicle.power = "some"
<1>1. vehicle.target # "failed" /\ vehicle.power # "failed"
  BY ReadingsAssumption DEF Sample
<1>2. /\ Sample(vehicle).data.target = Told(vehicle.target)
      /\ Sample(vehicle).data.power = Told(vehicle.power)
  BY ReadingsAssumption DEF Sample
<1>3. {vehicle.target, vehicle.power} \subseteq {"some", "absent", "unavailable", "failed", "nan"}
  BY ReadingsAssumption
<1> QED  BY <1>1, <1>2, <1>3 DEF Normalize, AcPower, Told

\* Home Assistant: an entity that is not asked for renders as none.
LEMMA HaSaid ==
  ASSUME NEW states \in HaStates
  PROVE  LET s == HaSnapshot(Rendered(states, asked))
         IN /\ s.target # "none" => "target_soc" \in asked /\ states.target_soc \notin NoState
            /\ AcPower(s.power) # "none" => "power" \in asked /\ states.power \notin NoState
<1> DEFINE rendered == Rendered(states, asked)
<1>1. /\ rendered.target_soc = IF "target_soc" \in asked THEN states.target_soc ELSE "none"
      /\ rendered.power = IF "power" \in asked THEN states.power ELSE "none"
  BY HaStatesAssumption DEF Rendered, AskedFor
<1> HIDE DEF rendered
<1>2. /\ StateFloat(rendered.target_soc) # "none" => rendered.target_soc \notin NoState
      /\ StateFloat(rendered.power) # "none" => rendered.power \notin NoState
  BY DEF StateFloat
<1>3. HaSnapshot(rendered).target = StateFloat(rendered.target_soc)
  BY DEF HaSnapshot
<1>4. AcPower(HaSnapshot(rendered).power) # "none" => StateFloat(rendered.power) # "none"
  BY DEF HaSnapshot, PowerInWatts, AcPower
<1> QED  BY <1>1, <1>2, <1>3, <1>4 DEF NoState, rendered

\* A tick leaves the readings with the snapshot they were read from.
LEMMA TickSaid ==
  ASSUME SaidInv, NEW s, SnapshotOK(s), Apply(s), s.ok \/ said' = said,
         s.ok => /\ s.target # "none" => said'.target
                 /\ AcPower(s.power) # "none" => said'.power
  PROVE  SaidInv'
<1>1. latest' = s
  BY DEF Apply
<1>2. CASE s.ok
  <2>1. ev' = Updated(s)
    BY <1>2 DEF Apply
  <2>2. EvOK' /\ ev'.target = s.target /\ ev'.power = AcPower(s.power)
        /\ ev'.phases = IF AcPower(s.power) = "none" THEN "none" ELSE "0"
    BY <2>1 DEF Updated, EvOK
  <2> QED  BY <1>1, <1>2, <2>2 DEF SaidInv, SaidOK, NothingInvented, SnapshotOK
<1>3. CASE ~s.ok
  <2>1. ev' = ev \/ ev' = [ev EXCEPT !.connected = FALSE]
    BY <1>3 DEF Apply, Stale
  <2>2. ev = [connected |-> ev.connected, target |-> ev.target, state |-> ev.state,
              power |-> ev.power, phases |-> ev.phases]
    BY DEF SaidInv, EvOK
  <2>3. EvOK' /\ (ev'.connected => ev' = ev)
    BY <2>1, <2>2 DEF SaidInv, EvOK
  <2> QED  BY <1>1, <1>3, <2>3 DEF SaidInv, NothingInvented, SnapshotOK
<1> QED  BY <1>2, <1>3

LEMMA InitSaid == OutputsInit => SaidInv
<1> SUFFICES ASSUME OutputsInit  PROVE SaidInv
  OBVIOUS
<1>1. ev = Vehicle /\ ~latest.ok /\ SnapshotOK(latest)
  BY DEF OutputsInit, Unread, SnapshotOK, Statuses
<1> QED  BY <1>1 DEF SaidInv, EvOK, Vehicle, NothingInvented

LEMMA SaidStep == SaidInv /\ [OutputsNext]_outputsVars => SaidInv'
<1> SUFFICES ASSUME SaidInv, [OutputsNext]_outputsVars  PROVE SaidInv'
  OBVIOUS
<1>1. CASE UNCHANGED bridgeVars
  BY <1>1 DEF bridgeVars, SaidInv, EvOK, NothingInvented, SaidOK, SnapshotOK
<1>2. CASE MercedesTick
  <2>1. PICK payload \in Payloads[integration] :
          LET s == VehicleSnapshot(Decoder(payload))
          IN /\ Apply(s)
             /\ said' = [target |-> "chargePrograms" \in DOMAIN payload.attrs,
                         power |-> \/ "chargingPower" \in DOMAIN payload.attrs
                                   \/ /\ "chargingstatus" \in DOMAIN payload.attrs
                                      /\ payload.attrs["chargingstatus"].value = "3"]
    BY <1>2 DEF MercedesTick
  <2> DEFINE s == VehicleSnapshot(Decoder(payload))
  <2>2. Apply(s) /\ SnapshotOK(s) /\ s.ok
    BY <2>1, MercedesSnapshot
  <2>3. /\ s.target # "none" => said'.target
        /\ AcPower(s.power) # "none" => said'.power
    BY <2>1, MercedesSaid
  <2> HIDE DEF s
  <2> QED  BY <2>2, <2>3, TickSaid
<1>3. CASE EvccTick
  <2>1. PICK vehicle \in Readings :
          LET reply == Sample(vehicle)
              s == Normalize(reply.data)
          IN /\ reply.ok /\ s.ok /\ Apply(s)
             /\ said' = [target |-> vehicle.target = "some", power |-> vehicle.power = "some"]
    BY <1>3 DEF EvccTick
  <2> DEFINE s == Normalize(Sample(vehicle).data)
  <2>2. Apply(s) /\ SnapshotOK(s) /\ s.ok
    BY <2>1, EvccSnapshot
  <2>3. /\ s.target # "none" => said'.target
        /\ AcPower(s.power) # "none" => said'.power
    BY <2>1, EvccSaid
  <2> HIDE DEF s
  <2> QED  BY <2>2, <2>3, TickSaid
<1>4. CASE HaTick
  <2>1. PICK states \in HaStates :
          LET rendered == Rendered(states, asked)
              s == HaSnapshot(rendered)
          IN /\ Apply(s)
             /\ said' = IF ~s.ok THEN said
                        ELSE [target |-> "target_soc" \in asked /\ states.target_soc \notin NoState,
                              power |-> "power" \in asked /\ states.power \notin NoState]
    BY <1>4 DEF HaTick
  <2> DEFINE s == HaSnapshot(Rendered(states, asked))
  <2>2. Apply(s) /\ SnapshotOK(s)
    BY <2>1, HaSnapshotOK
  <2>3. s.ok \/ said' = said
    BY <2>1
  <2>4. s.ok => /\ s.target # "none" => said'.target
                /\ AcPower(s.power) # "none" => said'.power
    BY <2>1, HaSaid
  <2> HIDE DEF s
  <2> QED  BY <2>2, <2>3, <2>4, TickSaid
<1>5. CASE QuietTick
  <2>1. PICK ok \in {latest.ok, FALSE} : Apply([latest EXCEPT !.ok = ok])
    BY <1>5 DEF QuietTick
  <2> DEFINE s == [latest EXCEPT !.ok = ok]
  <2>2. Apply(s) /\ SnapshotOK(s)
    BY <2>1, QuietSnapshot DEF SaidInv
  <2>3. said' = said
    BY <1>5 DEF QuietTick
  <2>4. latest = [ok |-> latest.ok, target |-> latest.target, state |-> latest.state,
                  status |-> latest.status, atSite |-> latest.atSite, power |-> latest.power]
    BY DEF SaidInv, SnapshotOK
  <2>5. s.ok => latest.ok /\ s.target = latest.target /\ s.power = latest.power
    BY <2>4
  <2> HIDE DEF s
  <2> QED  BY <2>2, <2>3, <2>5, TickSaid DEF SaidInv, SaidOK
<1>6. CASE MeterStep \/ HaStep
  BY <1>1, <1>6 DEF MeterStep, HaStep
<1>7. CASE UNCHANGED outputsVars
  BY <1>1, <1>7 DEF outputsVars
<1> QED  BY <1>2, <1>3, <1>4, <1>5, <1>6, <1>7 DEF OutputsNext

\* README.md: missing readings remain unavailable.  A limit or a power that the
\* vehicle service shows was said of the last good snapshot, whatever the source
\* left out, its earlier payloads carried or its configuration does not ask for.
THEOREM OutputsInventNothing == OutputsSpec => []NothingInvented
<1>1. SaidInv => NothingInvented
  BY DEF SaidInv
<1> QED  BY <1>1, InitSaid, SaidStep, PTL DEF OutputsSpec

-----------------------------------------------------------------------------
(* Home Assistant's entities.                                              *)

\* No platform is set up before there is a snapshot to set it up from, and the
\* covers need no discovery.
EntityInv ==
  /\ entry \in {"off", "waiting"} => platforms = {} /\ ~discovering
  /\ platforms \subseteq Platforms
  /\ discovering \in BOOLEAN
  /\ "cover" \in platforms => Missed("cover") \subseteq entities
  /\ Discovered

\* Which covers there are does not depend on what the car says.
LEMMA SameCovers == Missed("cover")' = Missed("cover")
<1>1. \A o, status : Eligible("cover", o, status) = TRUE
  BY DEF Eligible
<1>2. Offered["cover"] = Covers
  BY DEF Offered
<1> HIDE DEF Covers
<1>3. Missed("cover") = {<<"cover", o>> : o \in Covers \cap Options}
  BY <1>1, <1>2 DEF Missed
<1>4. Missed("cover")' = {<<"cover", o>> : o \in Covers \cap Options}
  BY <1>1, <1>2 DEF Missed
<1> QED  BY <1>3, <1>4

LEMMA EntityStep ==
  ASSUME EntityInv, NEW messages, HaNext(messages)
  PROVE  EntityInv'
<1>1. CASE HaStart
  BY <1>1 DEF HaStart, EntityInv, Discovered
<1>2. CASE Gone /\ UNCHANGED car
  BY <1>2 DEF Gone, EntityInv, Discovered
<1>3. ASSUME NEW snapshot \in messages, HaMessage(snapshot)
      PROVE  EntityInv'
  <2>1. /\ UNCHANGED <<platforms, entities>>
        /\ entry # "off" /\ entry' = IF entry = "waiting" THEN "loading" ELSE entry
        /\ discovering' = (discovering \/ platforms \ {"cover"} # {})
    BY <1>3 DEF HaMessage
  <2>2. "cover" \in platforms => Missed("cover")' \subseteq entities
    BY SameCovers DEF EntityInv
  <2>3. ~discovering' => platforms \subseteq {"cover"}
    BY <2>1
  <2>4. Discovered'
    BY <2>1, <2>2, <2>3 DEF Discovered
  <2> QED  BY <2>1, <2>2, <2>4 DEF EntityInv
<1>4. ASSUME NEW p \in Platforms, PlatformSetup(p)
      PROVE  EntityInv'
  <2>1. /\ entry = "loading" /\ entities' = entities \cup Missed(p)
        /\ platforms' = platforms \cup {p} /\ UNCHANGED <<car, discovering>>
        /\ entry' \in {"loading", "loaded"}
    BY <1>4 DEF PlatformSetup
  <2>2. \A q : Missed(q)' = Missed(q)
    BY <2>1 DEF Missed
  <2> QED  BY <2>1, <2>2 DEF EntityInv, Discovered
<1>5. CASE Discover
  <2>1. /\ discovering /\ ~discovering' /\ UNCHANGED <<entry, car, platforms>>
        /\ entities' = entities \cup UNION {Missed(p) : p \in platforms \ {"cover"}}
        /\ discovering' \in BOOLEAN
    BY <1>5 DEF Discover
  <2>2. \A q : Missed(q)' = Missed(q)
    BY <2>1 DEF Missed
  <2>3. \A q \in platforms : Missed(q) \subseteq entities'
    BY <2>1 DEF EntityInv
  <2> QED  BY <2>1, <2>2, <2>3 DEF EntityInv, Discovered
<1> QED  BY <1>1, <1>2, <1>3, <1>4, <1>5 DEF HaNext, SetupFails, HaUnload

\* coordinator.py _message and _discover, and the set-up of the platforms, in any
\* order: once no discovery is pending, every option that the car has an entity
\* for on a platform that is set up has that entity.
THEOREM EntitiesDiscovered == OutputsSpec => []Discovered
<1>1. OutputsInit => EntityInv
  BY DEF OutputsInit, HaInit, EntityInv, Discovered
<1>2. ASSUME EntityInv, [OutputsNext]_outputsVars
      PROVE  EntityInv'
  <2>1. CASE UNCHANGED haVars
    BY <1>2, <2>1 DEF haVars, EntityInv, Discovered, Missed
  <2>2. CASE HaStep
    BY <1>2, <2>2, EntityStep DEF HaStep
  <2>3. CASE MercedesTick \/ EvccTick \/ HaTick \/ QuietTick \/ MeterStep
    BY <2>1, <2>3 DEF MercedesTick, EvccTick, HaTick, QuietTick, MeterStep
  <2> QED  BY <1>2, <2>1, <2>2, <2>3 DEF OutputsNext, outputsVars
<1>3. EntityInv => Discovered
  BY DEF EntityInv
<1> QED  BY <1>1, <1>2, <1>3, PTL DEF OutputsSpec

=============================================================================
