CONSTANTS
  me = me a = a b = b c = c t1 = t1 t2 = t2 nil = nil
  Me = me
  Nodes <- MC_Nodes
  WorkerList <- Worker_List
  BackupList <- Worker_Backups
  Proposals <- Large_Proposals
  FirstRound = 3
  LastRound = 3
  MaxRank = 9
  Txs = {t1, t2}
  Size <- MC_Size
  MaxBatchSize = 2
  MaxBatchSizeBytes = 1
  maxPendingProposals = 32
  MaxFaults = 0
SPECIFICATION Spec
INVARIANT OversizedNotExecuted
CHECK_DEADLOCK FALSE
