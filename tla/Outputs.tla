------------------------------ MODULE Outputs ------------------------------
(***************************************************************************)
(* What becomes of a vehicle snapshot (App, dbus_ev/main.py): the vehicle  *)
(* service (service.py) and the charger (charger.py with the meter of      *)
(* MeterFeed) on D-Bus, and the payload that Home Assistant decodes again  *)
(* (HaEntities).                                                           *)
(*                                                                         *)
(* source is the configured DATA_SOURCE.  With "mercedes" a payload is     *)
(* published for Home Assistant when there is no meter to read: the meter  *)
(* and Home Assistant only share the bridge's tick, so a behaviour follows *)
(* one of them.  How long a snapshot stays fresh is PollBridge's subject;  *)
(* here it may expire at any tick.                                         *)
(***************************************************************************)
EXTENDS MeterFeed, VehicleData, HaEntities

CONSTANTS
  Payloads,      \* what the Mercedes client may have acquired, [attrs, pull], for a
                 \* bridge with and without the integration
  Readings,      \* what the provider of a vehicle may tell evcc
  HaStates,      \* the states that Home Assistant has,
  HaConfigs      \* and the sets of optional entities that may be configured

\* What a provider of evcc's says of a reading, see VehicleData.
ASSUME ReadingsAssumption ==
  \A vehicle \in Readings : \A r \in {"target", "power"} :
    r \in DOMAIN vehicle /\ vehicle[r] \in {"some", "absent", "unavailable", "failed", "nan"}

ASSUME HaStatesAssumption ==
  \A states \in HaStates : {"target_soc", "power"} \subseteq DOMAIN states

VARIABLES
  source,        \* DATA_SOURCE
  asked,         \* the entities configured for the Home Assistant client
  integration,   \* HA_MQTT_ENABLED, without a meter
  decoder,       \* the car of the worker's last decoder
  latest,        \* App.latest_snapshot
  ev,            \* the vehicle on D-Bus
  retained,      \* the state that the broker retains, {} for none
  \* history
  said           \* what the source left unsaid or said of ev's readings

bridgeVars == <<source, asked, integration, decoder, latest, ev, retained, said>>
outputsVars == <<vars, haVars, bridgeVars>>

Unread == [ok |-> FALSE, target |-> "none", state |-> "none", status |-> "none",
           atSite |-> "none", power |-> "none"]

\* EVEvices: power starts at zero, but a phase without a total never is.
Vehicle == [connected |-> FALSE, target |-> "none", state |-> "none",
            power |-> "0", phases |-> "none"]

\* HaClient.__init__: the entities are chosen once and for all.
HaClient == asked \in (IF source = "ha" THEN HaConfigs ELSE {{}})

OutputsInit ==
  /\ Init /\ HaInit
  /\ source \in {"mercedes", "evcc", "ha"}
  /\ HaClient
  /\ integration \in BOOLEAN
  /\ source # "mercedes" => ~integration
  /\ source = "ha" \/ integration => ~requireMeter
  /\ decoder = NewCar(DbusOptions)
  /\ latest = Unread /\ ev = Vehicle /\ retained = {}
  /\ said = [target |-> FALSE, power |-> FALSE]

-----------------------------------------------------------------------------
OneDecoder(payload) == BuildCar(decoder, payload.attrs, payload.pull)
\* vehicle_snapshot: every payload gets a decoder of its own.
Decoder(payload) == BuildCar(NewCar(DbusOptions), payload.attrs, payload.pull)

\* The readings of the vehicle service are those of the last good snapshot.
Updated(s) ==
  [connected |-> TRUE, target |-> s.target, state |-> s.state,
   power |-> AcPower(s.power),
   phases |-> IF AcPower(s.power) = "none" THEN "none" ELSE "0"]

\* A source that failed: Home Assistant's last answer may be young enough still.
Stale ==
  {[ev EXCEPT !.connected = FALSE]} \cup (IF source = "ha" THEN {ev} ELSE {})

\* What the charger and the meter see of a snapshot.
ForCharger(s) ==
  [ok |-> s.ok, status |-> s.status, atSite |-> s.atSite, power |-> s.power # "none"]

\* apply_snapshot of a snapshot that is fresh, or the last one that no longer is.
Apply(s) ==
  /\ latest' = s
  /\ IF s.ok THEN ev' = Updated(s) ELSE ev' \in Stale

\* _update_outputs: the charger is refused to the "ha" source.
ToCharger(s) ==
  IF source = "ha" \/ integration THEN UNCHANGED vars ELSE TickWith(ForCharger(s))

\* A new payload.  The decoder adds to a pulled payload what Home Assistant will
\* be sent.
MercedesTick ==
  /\ source = "mercedes"
  /\ \E payload \in Payloads[integration] :
       LET decoded == Decoder(payload)
           s == VehicleSnapshot(decoded)
       IN /\ decoder' = decoded
          /\ Apply(s) /\ ToCharger(s)
          /\ said' = [target |-> "chargePrograms" \in DOMAIN payload.attrs,
                      power |-> \/ "chargingPower" \in DOMAIN payload.attrs
                                \/ /\ "chargingstatus" \in DOMAIN payload.attrs
                                   /\ payload.attrs["chargingstatus"].value = "3"]
          /\ retained' = IF ~integration THEN retained
                         ELSE {[payload EXCEPT !.attrs =
                                  IF payload.pull THEN WithOverallWindow(@) ELSE @]}
  /\ UNCHANGED <<source, asked, integration, haVars>>

\* evcc's answer, normalised; one without a state of charge is a failure, after
\* which the client has what it had.
EvccTick ==
  /\ source = "evcc"
  /\ \E vehicle \in Readings :
       LET reply == Sample(vehicle)
           s == Normalize(reply.data)
       IN /\ reply.ok /\ s.ok
          /\ Apply(s) /\ ToCharger(s)
          /\ said' = [target |-> vehicle.target = "some", power |-> vehicle.power = "some"]
  /\ UNCHANGED <<source, asked, integration, decoder, retained, haVars>>

\* Home Assistant's answer; without a state of charge it is kept as the last known.
HaTick ==
  /\ source = "ha"
  /\ \E states \in HaStates :
       LET rendered == Rendered(states, asked)
           s == HaSnapshot(rendered)
       IN /\ Apply(s) /\ ToCharger(s)
          /\ said' = IF ~s.ok THEN said
                     ELSE [target |-> "target_soc" \in asked /\ states.target_soc \notin NoState,
                           power |-> "power" \in asked /\ states.power \notin NoState]
  /\ UNCHANGED <<source, asked, integration, decoder, retained, haVars>>

\* A tick without news: the last snapshot is shown again, or has expired.
QuietTick ==
  /\ \E ok \in {latest.ok, FALSE} :
       LET s == [latest EXCEPT !.ok = ok]
       IN Apply(s) /\ ToCharger(s)
  /\ UNCHANGED <<source, asked, integration, decoder, retained, said, haVars>>

\* The meter's connection and answers, and time, are MeterFeed's.
MeterStep ==
  /\ source # "ha" /\ ~integration
  /\ OnConnect \/ OnDisconnect \/ OnMessage \/ Elapse
  /\ UNCHANGED <<bridgeVars, haVars>>

\* Home Assistant, which the broker sends what it retains.
HaStep ==
  /\ integration
  /\ HaNext(retained)
  /\ UNCHANGED <<vars, bridgeVars>>

OutputsNext ==
  \/ MercedesTick \/ EvccTick \/ HaTick \/ QuietTick
  \/ MeterStep \/ HaStep

OutputsSpec == OutputsInit /\ [][OutputsNext]_outputsVars

-----------------------------------------------------------------------------
\* Without a meter the two devices on D-Bus tell the same story of a vehicle that
\* is not away: the charger charges exactly when the vehicle does, and when it is
\* unplugged the vehicle is not charging.
StatesAgree ==
  latest.ok /\ shown.usable /\ ~requireMeter /\ latest.atSite # "no" =>
    /\ shown.status = "charging" <=> ev.state = "charging"
    /\ shown.status = "unplugged" => ev.state = "not_charging"

\* README.md: missing readings remain unavailable.  A limit and a power that the
\* vehicle shows come from the last good snapshot, never from an earlier one, and
\* an unknown total cannot be added up from its phases.
NothingInvented ==
  ev.connected =>
    /\ ev.target # "none" => said.target
    /\ ev.power # "none" => said.power
    /\ ev.power = "none" => ev.phases = "none"

=============================================================================
