--------------------------- MODULE VehicleDecoder ---------------------------
(***************************************************************************)
(* The telemetry decoder that the worker (dbus_ev/mercedes/vendor) and the *)
(* Home Assistant integration (ha/custom_components/mbapi2020) each have a *)
(* copy of: decoder.py and car.py, and vsu_helper.py that brings the       *)
(* newer frames into the shape the decoder reads.                          *)
(*                                                                         *)
(* An attribute of a payload is [status, value]: its retrieval status and  *)
(* what its value says where it matters; "none" for a value that is not    *)
(* there, "bad" for one that cannot be read.  A car keeps [status, value,  *)
(* from] for every option, from telling whether the last payload carried   *)
(* it, an earlier one did ("kept"), the decoder made it up, or "none".     *)
(* One generic option stands for the many of its section.                  *)
(***************************************************************************)

\* The options of the charging equipment, of which the first reading of a list
\* counts, and those that keep a whole list or structure of their own name.
ChargeInlet == {"chargeinletcoupler", "chargeinletlock"}
Listed == {"chargePrograms", "chargingPowerRestriction", "chargingBreakClockTimer"}
Temperatures == {"temperature_points_frontLeft", "temperature_points_rearRight"}

PrecondKeys == {"precondNow", "precondActive", "precondOperatingMode", "precondState"}
WindowKeys == {"windowstatusfrontleft", "windowstatusrearright"}

Electric == {"soc", "max_soc", "rangeelectric", "chargingstatus", "chargingPower",
             "endofchargetime", "selectedChargeProgram", "chargeflap"} \cup ChargeInlet \cup Listed
Odometer == {"odo", "ignitionstate"}
Location == {"positionLat", "positionLong"}
Windows == WindowKeys \cup {"windowStatusOverall"}
Precond == {"precondStatus"} \cup Temperatures

\* What a car can have.
CarOptions == Electric \cup Odometer \cup Location \cup Windows \cup Precond

-----------------------------------------------------------------------------
(* vsu_helper.py: an attribute of a newer frame.  Its status keeps its     *)
(* meaning under the old name, an omitted default of a preconditioning     *)
(* attribute is spelled out.                                               *)

LegacyStatus ==
  [VALUE_NOT_RECEIVED |-> "NOT_RECEIVED", VALUE_INVALID |-> "3", VALUE_NOT_AVAILABLE |-> "4"]

NormalizeAttribute(key, vsu) ==
  [status |-> IF vsu.status = "none" THEN "VALID"
              ELSE IF vsu.status \in DOMAIN LegacyStatus THEN LegacyStatus[vsu.status]
              ELSE vsu.status,
   value |-> IF vsu.value = "none" /\ key \in PrecondKeys \ {"precondState"} THEN "off"
             ELSE vsu.value]

-----------------------------------------------------------------------------
(* decoder.py.  attrs: the attributes of a payload, a function on their    *)
(* keys; old: what the car has for the option.                             *)

CarAttribute(status, value) == [status |-> status, value |-> value, from |-> "carried"]

\* getattr's default for an option that was never set, and the handler's for an
\* attribute that the message leaves out.
Missing == [status |-> "error", value |-> "none", from |-> "none"]
NotAvailable == [status |-> "4", value |-> "0", from |-> "none"]
MadeUp(value) == [status |-> "VALID", value |-> value, from |-> "made"]

NewCar(options) == [o \in options |-> Missing]

\* What was carried by the message before.
Kept(old) == IF old.from = "carried" THEN [old EXCEPT !.from = "kept"] ELSE old

\* An attribute without a value reads as zero, whatever its status.
ValueOrZero(attribute) == IF attribute.value = "none" THEN "0" ELSE attribute.value

Generic(attrs, o) ==
  IF o \in DOMAIN attrs THEN CarAttribute(attrs[o].status, ValueOrZero(attrs[o]))
  ELSE NotAvailable

\* The handlers of nested values leave the option alone when there is nothing
\* to read.
FromNested(attrs, key, old, attribute) ==
  IF key \in DOMAIN attrs /\ attrs[key].value # "none" THEN attribute ELSE old

\* A word for the state that is not known becomes "unknown".
FromList(attrs, key, old) ==
  FromNested(attrs, key, old,
             CarAttribute(attrs[key].status,
                          IF attrs[key].value = "bad" THEN "unknown" ELSE attrs[key].value))

FromFlaps(attrs, old) == FromList(attrs, "chargeFlaps", old)
FromInlets(attrs, old) == FromList(attrs, "chargeInlets", old)
FromOwn(attrs, o, old) ==
  FromNested(attrs, o, old, CarAttribute(attrs[o].status, attrs[o].value))

\* A zone's temperature is valid whatever the status of the attribute.
FromTemperatures(attrs, old) ==
  FromNested(attrs, "temperaturePoints", old,
             CarAttribute("VALID", attrs["temperaturePoints"].value))

\* The limit of the selected charge program, the first when none is selected; the
\* last full message, looked up for the programs, is this very message.
MaxSoc(attrs, old) ==
  IF "chargePrograms" \in DOMAIN attrs /\ attrs["chargePrograms"].value = "some"
  THEN CarAttribute("VALID", "some")
  ELSE old

LegacyEnd(attrs, old) ==
  IF "endofchargetime" \in DOMAIN attrs
     /\ (attrs["endofchargetime"].value = "some" \/ attrs["endofchargetime"].status = "3")
  THEN CarAttribute(attrs["endofchargetime"].status, attrs["endofchargetime"].value)
  ELSE old

\* A prediction of newer cars, else the time of older ones.  When a payload has
\* neither, the end is unknown as of now.
EndOfCharge(attrs, old) ==
  LET predicted == "chargingPredictionMaxSoc" \in DOMAIN attrs
                   /\ attrs["chargingPredictionMaxSoc"].value # "none"
  IN IF predicted /\ attrs["chargingPredictionMaxSoc"].value = "some"
     THEN CarAttribute(attrs["chargingPredictionMaxSoc"].status, "some")
     ELSE IF ~predicted /\ "endofchargetime" \notin DOMAIN attrs THEN MadeUp("unknown")
     ELSE LegacyEnd(attrs, old)

\* On when any of four attributes says so; an omitted one says nothing.
PrecondStatus(attrs) ==
  LET present == PrecondKeys \cap DOMAIN attrs
  IN IF present = {} THEN NotAvailable
     ELSE CarAttribute("VALID", IF \E k \in present : attrs[k].value = "on" THEN "on" ELSE "off")

Decode(attrs, o, old) ==
  CASE o = "chargeflap"      -> FromFlaps(attrs, old)
    [] o \in ChargeInlet     -> FromInlets(attrs, old)
    [] o \in Listed          -> FromOwn(attrs, o, old)
    [] o \in Temperatures    -> FromTemperatures(attrs, old)
    [] o = "max_soc"         -> MaxSoc(attrs, old)
    [] o = "endofchargetime" -> EndOfCharge(attrs, old)
    [] o = "precondStatus"   -> PrecondStatus(attrs)
    [] OTHER                 -> Generic(attrs, o)

\* A pulled payload without an overall window status gets one: open when a window
\* that it has is not closed; without any, closed.
OverallWindow(attrs) ==
  [status |-> "VALID",
   value |-> IF \E w \in WindowKeys \cap DOMAIN attrs : attrs[w].value # "closed"
             THEN "open" ELSE "closed"]

WithOverallWindow(attrs) ==
  [k \in DOMAIN attrs \cup {"windowStatusOverall"} |->
     IF k \in DOMAIN attrs THEN attrs[k] ELSE OverallWindow(attrs)]

\* _build_car on a car, new or known; a payload without attributes changes nothing.
BuildCar(car, attrs, pull) ==
  LET whole == IF pull THEN WithOverallWindow(attrs) ELSE attrs
  IN IF DOMAIN attrs = {} THEN car
     ELSE [o \in DOMAIN car |-> Decode(whole, o, Kept(car[o]))]

=============================================================================
