----------------------------- MODULE MCOutputs -----------------------------
(***************************************************************************)
(* A small instance of Outputs: payloads, readings and entity states that  *)
(* differ in what the outputs depend on.                                   *)
(***************************************************************************)
EXTENDS Outputs

\* Readings of older frames, and an invalid one of a newer frame.
Valid(v) == [status |-> "VALID", value |-> v]
Invalid == NormalizeAttribute("chargingPower", [status |-> "VALUE_INVALID", value |-> "none"])

\* Attribute maps that carry, for each key of choices, one of its attributes or,
\* for "none", nothing.
AttrsOf(choices) ==
  {[k \in {x \in DOMAIN pick : pick[x].status # "absent"} |-> pick[k]] :
     pick \in {f \in [DOMAIN choices -> UNION {choices[k] : k \in DOMAIN choices}] :
                 \A k \in DOMAIN choices : f[k] \in choices[k]}}

Absent == [status |-> "absent", value |-> "none"]

\* For the meter and D-Bus: where and in which state the vehicle is.
MeterAttrs ==
  AttrsOf([chargingstatus |-> {Valid("13"), Valid("3"), Absent},
           chargingPower |-> {Valid("some"), Valid("none"), Invalid},
           chargePrograms |-> {Valid("some"), Absent},
           position |-> {Valid("home"), Absent}])

\* Both coordinates or none.
Located(attrs) ==
  [k \in (DOMAIN attrs \ {"position"})
         \cup (IF "position" \in DOMAIN attrs THEN {"positionLat", "positionLong"} ELSE {}) |->
     IF k \in DOMAIN attrs THEN attrs[k] ELSE attrs["position"]]

\* For Home Assistant: fields that a pulled payload may leave out.
HaAttrs ==
  AttrsOf([soc |-> {Valid("some")},
           chargeInlets |-> {Valid("some"), Absent},
           windowstatusfrontleft |-> {Valid("open"), Absent},
           positionLong |-> {Valid("home"), Absent}])

MCPayloads ==
  [ha \in BOOLEAN |->
     IF ha THEN {[attrs |-> a, pull |-> p] : a \in HaAttrs, p \in BOOLEAN}
     ELSE {[attrs |-> Located(a), pull |-> FALSE] : a \in MeterAttrs}]

MCOptions ==
  {"soc", "chargeinletcoupler", "windowstatusfrontleft", "windowStatusOverall", "positionLong"}

MCReadings ==
  [soc : {"some", "unavailable"}, target : {"some", "failed"},
   status : {"A", "B", "C", "unavailable"}, position : {"home", "away", "unavailable"},
   power : {"some", "absent", "nan"}]

MCHaStates ==
  [soc : {"some", "unavailable"}, target_soc : {"some", "bad"},
   charging_state : {"0", "strange", "unknown"}, at_site : {"on", "unknown"},
   power : {"some", "huge", "unknown"}, power_unit : {"w", "none"}]

MCHaConfigs == {{}, {"target_soc", "charging_state", "at_site", "power"}}

=============================================================================
