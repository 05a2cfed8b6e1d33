------------------------------ MODULE Committee ------------------------------
(***************************************************************************)
(* An executor committee and its scheduling order, go/scheduler/api/api.go. *)
(* Committee.Members lists the workers before the backup workers; a node   *)
(* may hold both roles.  The list is given here as its two halves.          *)
(***************************************************************************)
EXTENDS Integers, Sequences

CONSTANTS
  Nodes,        \* public keys that can sign a commitment
  WorkerList,   \* the members with RoleWorker, in committee order
  BackupList    \* the members with RoleBackupWorker, in committee order

\* A node is listed at most once with each role, and a committee that is
\* asked for schedulers has a worker.
ASSUME CommitteeAssumption ==
  /\ WorkerList \in Seq(Nodes)
  /\ BackupList \in Seq(Nodes)
  /\ Len(WorkerList) > 0
  /\ \A i, j \in 1..Len(WorkerList) : WorkerList[i] = WorkerList[j] => i = j
  /\ \A i, j \in 1..Len(BackupList) : BackupList[i] = BackupList[j] => i = j

Workers == {WorkerList[i] : i \in 1..Len(WorkerList)}

BackupWorkers == {BackupList[i] : i \in 1..Len(BackupList)}

IsWorker(id) == id \in Workers

IsBackupWorker(id) == id \in BackupWorkers

IsMember(id) == IsWorker(id) \/ IsBackupWorker(id)

Ranks == 0..(Len(WorkerList) - 1)

\* Zero-based position of a worker in the committee.
WorkerIdx(id) == (CHOOSE i \in 1..Len(WorkerList) : WorkerList[i] = id) - 1

\* The position of the scheduler with the given rank; only workers have ranks.
SchedulerIdx(round, rank) ==
  LET total == Len(WorkerList)
  IN  (rank + total - (round % total)) % total

Scheduler(round, rank) == WorkerList[SchedulerIdx(round, rank) + 1]

\* The rank of a worker; lower ranks schedule first.
SchedulerRank(round, id) == (round + WorkerIdx(id)) % Len(WorkerList)
=============================================================================
