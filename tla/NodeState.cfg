CONSTANTS
  NumChunks = 3
  Fetchers = {f1, f2}
  Faults = {"fetch", "corrupt", "proof", "local", "stop"}
  MaxFaults = 3
  Nil = Nil
SPECIFICATION NodeSpec
INVARIANTS CleanExit CleanupFindsExpired ConnectsEnough BadPeersStayOut SilentAfterMalice IndexFollows
PROPERTIES BadgerRefines PathRefines
CHECK_DEADLOCK FALSE
