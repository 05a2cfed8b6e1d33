CONSTANTS
  x = x y = y z = z v1 = v1 v2 = v2 None = None
  Descriptors = {x, y, z}
  Binaries = {v1, v2}
  Epoch <- UpgradeEpoch
  Runs <- UpgradeRuns
  HasStartup = {x}
  EpochAt <- UpgradeEpochAt
  MaxHeight = 5
  MaxFaults = 2
SPECIFICATION ServicesSpec
INVARIANTS AppliedOnce HostedIsActive
PROPERTIES LatestRegistered TrackedAnswered QueuedIsSent CallReturns
CHECK_DEADLOCK FALSE
