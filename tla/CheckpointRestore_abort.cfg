CONSTANTS
  NumChunks = 3
  Fetchers = {f1, f2}
  Faults = {"proof"}
  MaxFaults = 1
  Nil = Nil
SPECIFICATION Spec
INVARIANT DoneIsComplete
CHECK_DEADLOCK FALSE
