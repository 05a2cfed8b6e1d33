CONSTANTS
  me = me a = a b = b c = c t1 = t1 t2 = t2 nil = nil
  Me = me
  Nodes <- MC_Nodes
  WorkerList <- Backup_List
  BackupList <- Backup_Backups
  Proposals <- Backup_Proposals
  FirstRound = 4
  LastRound = 4
  MaxRank = 9
  Txs = {t1, t2}
  Size <- MC_Size
  MaxBatchSize = 1
  MaxBatchSizeBytes = 0
  maxPendingProposals = 3
  MaxFaults = 1
SPECIFICATION FairSpec
INVARIANT DiscrepancyFocus
PROPERTY DiscrepancyAnswered
CHECK_DEADLOCK FALSE
