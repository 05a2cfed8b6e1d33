CONSTANTS
  me = me a = a b = b c = c t1 = t1 t2 = t2 nil = nil
  Me = me
  Nodes <- MC_Nodes
  WorkerList <- Worker_List
  BackupList <- Worker_Backups
  Proposals <- Worker_Proposals
  FirstRound = 3
  LastRound = 4
  MaxRank = 9
  Txs = {t1}
  Size <- MC_Size
  MaxBatchSize = 2
  MaxBatchSizeBytes = 1
  maxPendingProposals = 2
  MaxFaults = 1
SPECIFICATION Spec
INVARIANTS OneCommitmentPerRank NoLostWakeup
CHECK_DEADLOCK FALSE
