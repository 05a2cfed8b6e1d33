SPECIFICATION FairSpec
CONSTANTS
  W = 8
  GenesisRound = 0
  MaxRound = 3
  MaxInFlight = 2
  MaxDelay = 1
  MinDelay = 1
  UseCheckpoints = FALSE
  Faults = {"flush"}
  MaxFaults = 1
  None = None
PROPERTY CaughtUp
CHECK_DEADLOCK FALSE
