CONSTANTS
  Keys <- TreeKeys
  Values = {1, 2}
  ByteBits = 2
  ValueCapacity = 0
  Prefetch = 1
  MaxPending = 2
  None = None
SPECIFICATION MkvsSpec
INVARIANTS HashIsCanonical RemoteAnswers OverlayIsMap MigrationComplete
PROPERTY CaughtUp
