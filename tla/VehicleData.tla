---------------------------- MODULE VehicleData ----------------------------
(***************************************************************************)
(* The vehicle as the App sees it, from each of the three sources: the     *)
(* Mercedes client decodes a payload (mercedes/client.py), the provider    *)
(* normalises what evcc says (vehicle.py, providers/evcc.py), and the Home *)
(* Assistant client reads the states of entities (ha_client.py).           *)
(*                                                                         *)
(* A snapshot is [ok, target, state, status, atSite, power]: the limit of  *)
(* the charge, /ChargingState of the vehicle service, the status for the   *)
(* charger, whether the vehicle is at home, and its power; "none" for what *)
(* is not known.  Of a power it matters whether it is zero and whether it  *)
(* fits 32 bits.                                                           *)
(***************************************************************************)
EXTENDS VehicleDecoder

\* ha_client.py: Mercedes' charging status as the Venus /ChargingState.  Unknown is
\* unavailable, and so is every other word.
ChargingStateMap(text) ==
  CASE text \in {"0", "5", "6", "9", "10", "11", "13", "14", "charging"} -> "charging"
    [] text \in {"1", "12", "15", "sustain"} -> "sustain"
    [] text \in {"2", "blocked"} -> "blocked"
    [] text \in {"3", "8", "not charging"} -> "not_charging"
    [] text \in {"7", "discharging"} -> "discharging"
    [] OTHER -> "unavailable"

MapForgettingAc(text) ==
  IF text = "none" THEN "none"
  ELSE IF text = "13" THEN "unavailable" ELSE ChargingStateMap(text)

MapChargingState(text) == IF text = "none" THEN "none" ELSE ChargingStateMap(text)

\* charger.py: the same status as the one of a charger.
ChargerStatus(raw) ==
  IF raw \in {"0", "5", "6", "9", "10", "11", "13", "14"} THEN "charging"
  ELSE IF raw = "1" THEN "charged"
  ELSE IF raw = "3" THEN "unplugged"
  ELSE IF raw \in {"2", "8", "12", "15"} THEN "connected"
  ELSE "none"

\* The D-Bus value of a power: nothing that does not fit.
AcPower(power) == IF power = "huge" THEN "none" ELSE power

-----------------------------------------------------------------------------
(* Mercedes. *)

DbusOptions ==
  {"soc", "max_soc", "chargingstatus", "chargingPower", "odo", "rangeelectric",
   "positionLat", "positionLong"}

\* vehicle.py: home is where both coordinates say so; without them it is unknown.
AtSite(lat, long) ==
  IF "none" \in {lat, long} THEN "none"
  ELSE IF lat = "home" /\ long = "home" THEN "yes" ELSE "no"

\* vehicle_snapshot: only valid values count.  A cable that is unplugged has no
\* power, which Mercedes leaves out.
VehicleSnapshot(car) ==
  LET value(o) == IF car[o].status = "VALID" THEN car[o].value ELSE "none"
      raw == value("chargingstatus")
  IN [ok |-> TRUE,
      target |-> value("max_soc"),
      state |-> MapChargingState(raw),
      status |-> ChargerStatus(raw),
      atSite |-> AtSite(value("positionLat"), value("positionLong")),
      power |-> IF value("chargingPower") = "none" /\ raw = "3" THEN "0"
                ELSE value("chargingPower")]

-----------------------------------------------------------------------------
(* evcc.  The engine (vehicle-engine/main.go) asks the provider for each    *)
(* reading that the vehicle has: "absent" for one it has not,              *)
(* "unavailable" for one that is not there now, "failed", "nan" for a      *)
(* number out of its range, or what it says.                               *)

\* putNumber, and the reading of the position: only numbers are passed on.
Told(reading) == IF reading \in {"absent", "unavailable", "nan"} THEN "none" ELSE reading

\* sample: without a state of charge, or with any failure, there is no answer.
Sample(vehicle) ==
  [ok |-> vehicle.soc = "some" /\ \A r \in DOMAIN vehicle : vehicle[r] # "failed",
   data |-> [r \in DOMAIN vehicle |-> Told(vehicle[r])]]

\* normalize: unplugged, connected or charging; a reading that is not usable is
\* not known.
Normalize(data) ==
  [ok |-> data.soc # "none",
   target |-> data.target,
   state |-> CASE data.status = "C" -> "charging"
               [] data.status \in {"A", "B"} -> "not_charging"
               [] OTHER -> "none",
   status |-> CASE data.status = "A" -> "unplugged"
                [] data.status = "B" -> "connected"
                [] data.status = "C" -> "charging"
                [] OTHER -> "none",
   atSite |-> AtSite(data.position, data.position),
   power |-> data.power]

-----------------------------------------------------------------------------
(* Home Assistant.  states: the text of each entity. *)

\* build_template: the state of charge is always asked for, any other entity only
\* when one is configured, the unit of the power with the power.
AskedFor(field, entities) ==
  field = "soc" \/ (IF field = "power_unit" THEN "power" ELSE field) \in entities

\* TEMPLATE_BODY, rendered: none for what is not asked for.
Rendered(states, entities) ==
  [field \in DOMAIN states |-> IF AskedFor(field, entities) THEN states[field] ELSE "none"]

NoState == {"none", "unknown", "unavailable"}

\* _state_float, _state_text: the words for no state, and what is no number.
StateText(text) == IF text \in NoState THEN "none" ELSE text
StateFloat(text) == IF text \in NoState \cup {"bad"} THEN "none" ELSE text

StateIsOn(text) ==
  IF text \in NoState THEN "none" ELSE IF text = "on" THEN "yes" ELSE "no"

\* _normalize_unit for a power: kilowatts, watts, and what is not known to be
\* either is taken for kilowatts.  A thousand times a large number may not be
\* finite.
PowerInWatts(power, unit) ==
  IF unit \in {"w", "watt"} THEN power
  ELSE IF power = "infinite_in_watts" THEN "none" ELSE power

\* HaClient.poll, answered: good as soon as the state of charge is known.
HaSnapshot(states) ==
  [ok |-> StateFloat(states.soc) # "none",
   target |-> StateFloat(states.target_soc),
   state |-> MapChargingState(StateText(states.charging_state)),
   status |-> "none",
   atSite |-> StateIsOn(states.at_site),
   power |-> PowerInWatts(StateFloat(states.power), states.power_unit)]

=============================================================================
