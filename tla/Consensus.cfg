CONSTANTS
  n1 = n1 n2 = n2 n3 = n3 n4 = n4
  good = good bad = bad none = none msg = msg
  Nodes <- PoolNodes
  WorkerList <- PoolWorkers
  BackupList <- PoolBackups
  Round = 3
  MaxRank = 9
  AllowedStragglers = 0
  Hashes = {good, bad}
  Messages <- PoolMessages
  NoMessages = none
  Emits <- PoolEmits
  Failure = Failure
  NoVote = NoVote
  NoCommitment = NoCommitment
  Valid = {good}
  Faulty = {n1, n4}
SPECIFICATION ConsensusSpec
INVARIANTS FinalizedValid HistoryStands AdmissionRespected GenesisAccepted PendingRecovered
PROPERTIES PoolDecides ShareValueKept BoundsAnnounced WithdrawalLimited
CHECK_DEADLOCK FALSE
