SPECIFICATION FairSpec
CONSTANTS
  RateMin = 2
  RateMax = 4
  LoginInterval = 3
  NoHeader = NoHeader
  ReconnectMin = 1
  ReconnectMax = 2
  HealthyTime = 2
  PullInterval = 2
  InitialPull = 1
  RetryAfters = {1, 5}
  Credentials = TRUE

PROPERTIES RequestsAllowed Reconnects QuietStreamPulls
