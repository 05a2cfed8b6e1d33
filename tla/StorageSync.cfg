SPECIFICATION Spec
CONSTANTS
  W = 8
  GenesisRound = 0
  MaxRound = 3
  MaxInFlight = 2
  MaxDelay = 1
  MinDelay = 2
  UseCheckpoints = TRUE
  Faults = {"diff", "apply", "flush", "crash"}
  MaxFaults = 2
  None = None
INVARIANTS FinalizeNeverFails SyncedIsStored PrunedIsSynced
CHECK_DEADLOCK FALSE
