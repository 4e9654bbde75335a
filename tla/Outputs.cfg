SPECIFICATION OutputsSpec
CONSTANTS
  MeterTtl = 2
  RefreshPeriod = 1
  Latency = 0
  Options <- MCOptions
  Payloads <- MCPayloads
  Readings <- MCReadings
  HaStates <- MCHaStates
  HaConfigs <- MCHaConfigs
INVARIANTS ShownIsGrounded MeterStaysFresh StatesAgree NothingInvented Discovered
