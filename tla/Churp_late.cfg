CONSTANTS
  Schemes = {1}
  Blocks = 2
  MaxHeight = 6
  MaxLag = 1
  Offsets = {0, 1}
  Delay = 1
  MaxAttempts = 2
  MaxUpdates = 1
SPECIFICATION ChurpSpec
INVARIANT LateTasksCancelled
CHECK_DEADLOCK FALSE
