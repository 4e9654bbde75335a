----------------------------- MODULE HaEntities -----------------------------
(***************************************************************************)
(* The Home Assistant integration (ha/custom_components/mbapi2020) that    *)
(* shows the telemetry of the bridge: a config entry starts a coordinator, *)
(* the first snapshot lets its platforms be set up, each makes an entity   *)
(* of every option that the car has by then, and every later snapshot is   *)
(* searched for options that have no entity yet.                           *)
(*                                                                         *)
(* One decoder and one car serve for as long as the entry is loaded.       *)
(* Whether a snapshot is accepted and how old it is are CerboLink's        *)
(* subject; here any that is retained may arrive at any time.              *)
(***************************************************************************)
EXTENDS VehicleDecoder

CONSTANT
  Options        \* the options of the car that are watched

ASSUME OptionsAssumption == Options \subseteq CarOptions

VARIABLES
  entry,         \* the config entry: "off", "waiting", "loading" or "loaded"
  car,           \* the car of the coordinator's decoder
  platforms,     \* those that have been set up
  entities,      \* the options that have an entity, by platform
  discovering    \* _discovery_pending

haVars == <<entry, car, platforms, entities, discovering>>

-----------------------------------------------------------------------------
(* const.py: the options that each platform offers.                        *)

\* A sensor that shows zero when there is no valid value.
DefaultZero == {"chargingPower"}

DriveSensors == {"rangeelectric", "chargingstatus", "soc", "max_soc"}
OdometerSensors == {"odo", "ignitionstate"}
ChargeSensors == {"chargeflap", "endofchargetime", "selectedChargeProgram"} \cup ChargeInlet
WindowSensors == WindowKeys
Sensors == DefaultZero \cup DriveSensors \cup OdometerSensors \cup ChargeSensors \cup WindowSensors

BinarySensors == {"windowStatusOverall", "precondStatus"}
DeviceTracker == {"positionLong"}
Covers == Windows

Offered ==
  [sensor |-> Sensors, binary_sensor |-> BinarySensors,
   device_tracker |-> DeviceTracker, cover |-> Covers]
Platforms == DOMAIN Offered

\* The retrieval statuses that make an entity; the windows always have theirs.
SensorEligible(o, status) ==
  \/ status \in {"VALID", "NOT_RECEIVED", "3"}
  \/ o \in DefaultZero /\ status \notin {"4", "error"}

BinarySensorEligible(o, status) ==
  \/ status \in {"VALID", "NOT_RECEIVED", "3"}
  \/ o \in DefaultZero /\ status # "4"

DeviceTrackerEligible(status) == status \in {"VALID", "NOT_RECEIVED"}

Eligible(p, o, status) ==
  CASE p = "sensor"         -> SensorEligible(o, status)
    [] p = "binary_sensor"  -> BinarySensorEligible(o, status)
    [] p = "device_tracker" -> DeviceTrackerEligible(status)
    [] p = "cover"          -> TRUE

\* The options that a platform adds an entity of: those without one.
Missed(p) == {<<p, o>> : o \in {x \in Offered[p] \cap Options : Eligible(p, x, car[x].status)}}

\* What a sensor shows of an option.
SensorState(o, attribute) ==
  IF attribute.status \in {"NOT_RECEIVED", "3", "4"}
  THEN IF o \in DefaultZero THEN "0" ELSE "unknown"
  ELSE attribute.value

\* A window's position, from numbers that mean something else for all windows
\* than for one, or from a word or a truth value; 0 is half open for both.
CoverPosition(attribute) ==
  IF attribute.status # "VALID" \/ attribute.value \notin {"open", "closed", "0"} THEN "unknown"
  ELSE IF attribute.value = "0" THEN "half"
  ELSE attribute.value

-----------------------------------------------------------------------------
HaInit ==
  /\ entry = "off" /\ car = NewCar(Options)
  /\ platforms = {} /\ entities = {} /\ discovering = FALSE

\* async_setup_entry: a coordinator that waits for its first snapshot.
HaStart ==
  /\ entry = "off"
  /\ entry' = "waiting"
  /\ car' = NewCar(Options)
  /\ UNCHANGED <<platforms, entities, discovering>>

Gone == entry' = "off" /\ platforms' = {} /\ entities' = {} /\ discovering' = FALSE

\* No snapshot in time, or a platform that fails: the coordinator is stopped and
\* Home Assistant will try again.
SetupFails ==
  /\ entry \in {"waiting", "loading"}
  /\ Gone /\ UNCHANGED car

\* _message: a snapshot.  The first one ends the wait; a later one has the
\* platforms look for options once their discovery is not under way.
HaMessage(snapshot) ==
  /\ entry # "off"
  /\ car' = BuildCar(car, snapshot.attrs, snapshot.pull)
  /\ entry' = IF entry = "waiting" THEN "loading" ELSE entry
  /\ discovering' = (discovering \/ platforms \ {"cover"} # {})
  /\ UNCHANGED <<platforms, entities>>

\* A platform's async_setup_entry; the platforms are set up in any order.
PlatformSetup(p) ==
  /\ entry = "loading" /\ p \notin platforms
  /\ entities' = entities \cup Missed(p)
  /\ platforms' = platforms \cup {p}
  /\ entry' = IF platforms' = Platforms THEN "loaded" ELSE entry
  /\ UNCHANGED <<car, discovering>>

DiscoverFirst ==
  /\ discovering
  /\ \E p \in platforms \ {"cover"} : entities' = entities \cup Missed(p)
  /\ discovering' = FALSE
  /\ UNCHANGED <<entry, car, platforms>>

\* _discover: every platform that is set up adds what it misses of the car as it
\* is by now.
Discover ==
  /\ discovering
  /\ entities' = entities \cup UNION {Missed(p) : p \in platforms \ {"cover"}}
  /\ discovering' = FALSE
  /\ UNCHANGED <<entry, car, platforms>>

HaUnload ==
  /\ entry = "loaded"
  /\ Gone /\ UNCHANGED car

\* The integration, to which the broker may send any of some snapshots.
HaNext(retained) ==
  \/ HaStart \/ SetupFails \/ Discover \/ HaUnload
  \/ \E snapshot \in retained : HaMessage(snapshot)
  \/ \E p \in Platforms : PlatformSetup(p)

-----------------------------------------------------------------------------
\* Once no discovery is pending, an option that ever became eligible has its
\* entity, whichever platforms were set up when the snapshot with it arrived.
Discovered ==
  ~discovering => \A p \in platforms : Missed(p) \subseteq entities

\* docs/mercedes-upstream.md: a field that a reply leaves out becomes unknown
\* immediately.  An entity shows nothing that only an earlier snapshot carried.
OmittedUnknown ==
  \A o \in {x \in Options : <<"sensor", x>> \in entities} :
    car[o].from = "kept" => SensorState(o, car[o]) = "unknown"

\* README.md: the attributes that are forwarded are the vehicle's own; a window
\* that nothing was said of is not shown closed.
WindowsAreObserved ==
  entry # "off" /\ CoverPosition(car["windowStatusOverall"]) = "closed" =>
    \E w \in WindowKeys \cap Options : car[w].from # "none"

=============================================================================
