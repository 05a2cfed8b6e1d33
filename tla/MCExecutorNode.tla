---------------------------- MODULE MCExecutorNode ----------------------------
EXTENDS ExecutorNode

CONSTANTS me, a, b, c, t1, t2

MC_Nodes == {me, a, b, c}
MC_Size == [t \in Txs |-> 1]

Batch(round, scheduler, parent, batch) ==
  [round |-> round, scheduler |-> scheduler, parent |-> parent, batch |-> batch]

\* The node is a worker and a backup worker: last in line in round 3 and
\* first in round 4.
Worker_List == <<a, b, me>>
Worker_Backups == <<me>>
Worker_Proposals ==
  {Batch(3, a, TRUE, {t1}), Batch(3, b, TRUE, {}), Batch(4, a, TRUE, {})}

\* The node is only a backup worker; a publishes two proposals, and b one
\* that has too many transactions.
Backup_List == <<a, b>>
Backup_Backups == <<me, c>>
Backup_Proposals ==
  {Batch(4, a, TRUE, {t1}), Batch(4, a, FALSE, {}), Batch(4, b, TRUE, {t1, t2})}

\* Proposals of the runs that look for a disagreement.
Large_Proposals == {Batch(3, a, TRUE, {t1, t2})}
Fork_Proposals == {Batch(3, a, FALSE, {t1})}
Rank_Proposals == {Batch(3, b, TRUE, {})}
=============================================================================
