----------------------------- MODULE ExecutorNode -----------------------------
(***************************************************************************)
(* The executor committee node, go/worker/compute/executor/committee: the   *)
(* round worker with its batch and fetch goroutines, the proposal queue and *)
(* the handler of committee messages.                                       *)
(*                                                                         *)
(* The fields of Node that only the round worker and its goroutines write   *)
(* are one record n.  The worker handles one channel and then decides what  *)
(* to do next before it looks at a channel again, so an action is a handler *)
(* followed by the top of the loop.  Both are operators from a record to    *)
(* the set of records they can leave; the environment's answers make the    *)
(* choice.                                                                  *)
(***************************************************************************)
EXTENDS Committee, FiniteSets, FiniteSetsExt

CONSTANTS
  Me,                     \* this node
  FirstRound, LastRound,  \* the rounds it is told of
  MaxRank,                \* math.MaxUint64
  Txs, Size,              \* transactions and their sizes
  Proposals,              \* what the other schedulers may publish
  MaxBatchSize, MaxBatchSizeBytes,
  maxPendingProposals,
  MaxFaults,              \* bound on failing calls (runtime, storage, signer)
  nil

ASSUME NodeAssumption ==
  /\ Me \in Nodes /\ IsMember(Me)
  /\ FirstRound \in Nat \ {0} /\ LastRound \in Nat
  /\ MaxRank \in Nat /\ MaxRank >= Len(WorkerList)
  /\ maxPendingProposals \in Nat
  /\ Size \in [Txs -> Nat]
  /\ Proposals \subseteq
       [round : FirstRound..LastRound, scheduler : Workers \ {Me},
        parent : BOOLEAN, batch : SUBSET Txs]

VARIABLES
  n,            \* the fields of Node, see TypeOK
  proposals,    \* n.proposals: the queued proposals and the prune round
  reselectCh,
  blockInfoCh,  \* the round to work on after the queued block, or nil
  txpool,       \* the transactions that the transaction pool knows
  txCh          \* checked transactions that the worker was not told of yet

vars == <<n, proposals, reselectCh, blockInfoCh, txpool, txCh>>

RankOf(p) == SchedulerRank(p.round, p.scheduler)

\* n.rank: the node's own place in the scheduling order of a round.
OwnRank(round) == IF IsWorker(Me) THEN SchedulerRank(round, Me) ELSE MaxRank

BackupOnly == IsBackupWorker(Me) /\ ~IsWorker(Me)

Bytes(txs) == MapThenSumSet(LAMBDA t : Size[t], txs)

TooLarge(bytes) == MaxBatchSizeBytes > 0 /\ bytes > MaxBatchSizeBytes

----------------------------------------------------------------------------
(* States of the node.                                                      *)

WaitingForBatch == [name |-> "WaitingForBatch"]

WaitingForTxs(p, missing, bytes) ==
  [name |-> "WaitingForTxs", proposal |-> p, rank |-> RankOf(p), txs |-> missing,
   bytes |-> bytes]

WaitingForEvent(p) ==
  [name |-> "WaitingForEvent", proposal |-> p, rank |-> RankOf(p)]

ProcessingBatch(rank, mode) ==
  [name |-> "ProcessingBatch", rank |-> rank, mode |-> mode]

Panicked == [name |-> "panic"]

validStateTransitions ==
  [WaitingForBatch |->
     {"WaitingForBatch", "ProcessingBatch", "WaitingForEvent", "WaitingForTxs"},
   WaitingForTxs |-> {"WaitingForBatch", "WaitingForEvent", "ProcessingBatch"},
   WaitingForEvent |-> {"WaitingForBatch", "ProcessingBatch"},
   ProcessingBatch |-> {"WaitingForBatch"},
   panic |-> {}]

transitionState(m, s) ==
  [m EXCEPT !.state =
     IF s.name \in validStateTransitions[m.state.name] THEN s ELSE Panicked]

\* A call fails, as long as the bound on failures allows it.
Faulted(m) ==
  IF m.faults < MaxFaults THEN {[m EXCEPT !.faults = @ + 1]} ELSE {}

----------------------------------------------------------------------------
(* Starting and stopping the goroutines.                                    *)

\* Hand the batch to a goroutine that calls the runtime.  A batch that was
\* scheduled here has no proposal yet.
Processing(m, rank, mode, p) ==
  [transitionState(m, ProcessingBatch(rank, mode)) EXCEPT
     !.job = [rank |-> rank, mode |-> mode, proposal |-> p]]

transitionStateToProcessing(m, p) == Processing(m, RankOf(p), "Execute", p)

\* The round worker itself sends the result: computed is nil.
transitionStateToProcessingFailure(m, p) ==
  [transitionState(m, ProcessingBatch(RankOf(p), "Execute")) EXCEPT
     !.processedBatchCh =
        Append(@, [rank |-> RankOf(p), computed |-> FALSE])]

\* StateWaitingForTxs.Cancel: waits until the fetch goroutine is gone.  What
\* it has sent already stays in missingTxCh.
CancelFetch(m) == [m EXCEPT !.fetch = nil]

\* Mutant: the result of an aborted batch is not discarded.
MutAbort_NoDrain(m) == [m EXCEPT !.job = nil]

\* Cancel waits for the goroutine, which still sends what it got, and then
\* the result is discarded.
abortBatch(m) == [m EXCEPT !.job = nil, !.processedBatchCh = <<>>]

----------------------------------------------------------------------------
(* The top of the loop.                                                     *)

\* Mutant: a backup worker that got all transactions starts without a
\* discrepancy.
MutUpdateState_Eager(m, minRank, maxRank, discrepancy) ==
  LET s == m.state
      outOfBounds == s.rank < minRank \/ s.rank > maxRank
  IN  CASE s.name = "WaitingForTxs" /\ outOfBounds ->
             transitionState(CancelFetch(m), WaitingForBatch)
        [] s.name = "WaitingForTxs" /\ ~outOfBounds /\ s.txs = {} ->
             transitionStateToProcessing(CancelFetch(m), s.proposal)
        [] s.name = "WaitingForEvent" /\ outOfBounds ->
             transitionState(m, WaitingForBatch)
        [] s.name = "WaitingForEvent" /\ ~outOfBounds /\ discrepancy ->
             transitionStateToProcessing(m, s.proposal)
        [] s.name = "ProcessingBatch" /\ outOfBounds ->
             transitionState(abortBatch(m), WaitingForBatch)
        [] OTHER -> m

\* Mutant: a batch that is being processed is not aborted.
MutUpdateState_KeepBatch(m, minRank, maxRank, discrepancy) ==
  IF m.state.name = "ProcessingBatch" THEN m
  ELSE MutUpdateState_Eager(m, minRank, maxRank, discrepancy)

updateState(m, minRank, maxRank, discrepancy) ==
  LET s == m.state
      outOfBounds == s.rank < minRank \/ s.rank > maxRank
  IN  CASE s.name = "WaitingForTxs" /\ outOfBounds ->
             transitionState(CancelFetch(m), WaitingForBatch)
        [] s.name = "WaitingForTxs" /\ ~outOfBounds /\ TooLarge(s.bytes) ->
             transitionStateToProcessingFailure(CancelFetch(m), s.proposal)
        [] s.name = "WaitingForTxs" /\ ~outOfBounds /\ ~TooLarge(s.bytes) /\ s.txs = {} ->
             IF BackupOnly /\ ~discrepancy
             THEN transitionState(CancelFetch(m), WaitingForEvent(s.proposal))
             ELSE transitionStateToProcessing(CancelFetch(m), s.proposal)
        [] s.name = "WaitingForEvent" /\ outOfBounds ->
             transitionState(m, WaitingForBatch)
        [] s.name = "WaitingForEvent" /\ ~outOfBounds /\ discrepancy ->
             transitionStateToProcessing(m, s.proposal)
        [] s.name = "ProcessingBatch" /\ outOfBounds ->
             transitionState(abortBatch(m), WaitingForBatch)
        [] OTHER -> m

\* Mutant: a batch is scheduled while another one is being processed.
MutScheduleBatch_AnyState(m, force) ==
  IF OwnRank(m.round) \in m.submitted \/ ~IsWorker(Me)
  THEN {m}
  ELSE {Processing(m, OwnRank(m.round), "Schedule", nil)}
       \union (IF force THEN Faulted(m) ELSE {m})

\* The worker schedules unless a query or the runtime fails, the epoch is
\* about to change or, when it is not forced to, there is nothing to schedule.
scheduleBatch(m, force) ==
  IF \/ m.state.name # "WaitingForBatch"
     \/ OwnRank(m.round) \in m.submitted
     \/ ~IsWorker(Me)
  THEN {m}
  ELSE {Processing(m, OwnRank(m.round), "Schedule", nil)}
       \union (IF force THEN Faulted(m) ELSE {m})

processProposal(m, p, discrepancy) ==
  LET missing == p.batch \ txpool
      bytes == Bytes(p.batch \intersect txpool)
  IN  IF \/ m.state.name # "WaitingForBatch"
         \/ RankOf(p) \in m.submitted
         \/ discrepancy /\ ~IsBackupWorker(Me)
      THEN m
      ELSE IF Cardinality(p.batch) > MaxBatchSize \/ TooLarge(bytes)
      THEN transitionStateToProcessingFailure(m, p)
      ELSE IF missing # {}
      THEN [transitionState(m, WaitingForTxs(p, missing, bytes)) EXCEPT
              !.fetch = [txHashes |-> missing, txs |-> {}]]
      ELSE IF ~p.parent
      THEN m
      ELSE IF BackupOnly /\ ~discrepancy
      THEN transitionState(m, WaitingForEvent(p))
      ELSE transitionStateToProcessing(m, p)

Matching(round, minRank, maxRank, exclude) ==
  {p \in proposals.q : /\ p.round = round
                       /\ RankOf(p) \in minRank..maxRank
                       /\ RankOf(p) \notin exclude}

\* proposalQueue.Best: the queue is ordered by round and rank, so the first
\* match is the one with the best rank.
Best(matching) == CHOOSE p \in matching : \A q \in matching : RankOf(p) <= RankOf(q)

Limit(m) == Min({m.schedulerRank, m.poolRank, OwnRank(m.round)})

Detecting(m) ==
  LET limit == Limit(m)
      own == OwnRank(m.round)
      matching == Matching(m.round, 0, limit, m.submitted)
      p == Best(matching)
  IN  IF matching # {} /\ RankOf(p) < own
      THEN {processProposal(updateState(m, 0, RankOf(p), FALSE), p, FALSE)}
      ELSE IF own <= limit
      THEN scheduleBatch(updateState(m, 0, own, FALSE), m.flush)
      ELSE {m}

Resolving(m) ==
  LET rank == m.discrepancy.rank
      u == updateState(m, rank, rank, TRUE)
      matching == Matching(m.round, rank, rank, m.submitted)
  IN  IF matching # {}
      THEN {processProposal(u, Best(matching), TRUE)}
      ELSE IF OwnRank(m.round) = rank
      THEN scheduleBatch(u, TRUE)
      ELSE {u}

Loop(m) == IF m.discrepancy = nil THEN Detecting(m) ELSE Resolving(m)

----------------------------------------------------------------------------
(* Handlers of the channels.                                                *)

\* Mutant: the commitment is not recorded in n.submitted.
MutCommit_Forget(m, rank, ok) ==
  [m EXCEPT
     !.commits = Append(@, [rank |-> rank, ok |-> ok,
                            late |-> m.discrepancy = nil /\ rank > m.poolRank])]

\* A signed commitment is handed to a goroutine that submits it.  commits is
\* the history of the round; late records that the pool's best rank was
\* known to be better.
Commit(m, rank, ok) ==
  [m EXCEPT
     !.submitted = @ \union {rank},
     !.commits = Append(@, [rank |-> rank, ok |-> ok,
                            late |-> m.discrepancy = nil /\ rank > m.poolRank])]

\* The scheduled proposal is signed and published; the results are stored;
\* the commitment is signed.  Each of them can fail.
proposeBatch(m, b) ==
  {transitionState(Commit(m, b.rank, TRUE), WaitingForBatch)}
  \union {transitionState(abortBatch(Commit(f, b.rank, FALSE)), WaitingForBatch) :
             f \in Faulted(m)}                       \* storage failure
  \union {abortBatch(f) : f \in Faulted(m)}          \* signing failure

handleProcessedBatch(m, b) ==
  IF m.state.name # "ProcessingBatch" THEN {m}
  ELSE IF b = nil
  THEN {transitionState(m, WaitingForBatch)}
  ELSE IF ~b.computed
  THEN LET w == transitionState(abortBatch(m), WaitingForBatch)
       IN  {Commit(w, b.rank, FALSE)} \union Faulted(w)
  ELSE proposeBatch(m, b)
       \union (IF m.state.mode = "Schedule" THEN Faulted(m) ELSE {})

\* handleNewCheckedTransactions and handleMissingTransactions take a copy of
\* the state: the map of missing transactions is shared with the original,
\* the count of bytes is not.
ReceiveTxs(m, txs) ==
  IF m.state.name = "WaitingForTxs"
  THEN [m EXCEPT !.state.txs = @ \ txs]
  ELSE m

Authoritative(m) == m.discrepancy # nil /\ m.discrepancy.authoritative

handleDiscrepancy(m, ev) ==
  IF Authoritative(m)
  THEN m
  ELSE [m EXCEPT !.discrepancy = ev]

\* Mutant: only ranks strictly better than the pool's are admitted.
MutEstimatePoolRank_Shift(m, rank) == [m EXCEPT !.poolRank = Min({@, rank}) - 1]

\* A scheduler's own commitment lowers the estimate of the pool's rank.
estimatePoolRank(m, rank) == [m EXCEPT !.poolRank = Min({@, rank})]

----------------------------------------------------------------------------
(* The round worker.                                                        *)

\* The round is over: a fetch or a batch that is still going on is stopped.
\* What is in missingTxCh stays there.
resetNodeState(m) ==
  [m EXCEPT !.state = WaitingForBatch, !.job = nil, !.processedBatchCh = <<>>,
            !.fetch = nil]

\* Leave the previous round and set up the next one.
FreshRound(m, round) ==
  [resetNodeState(m) EXCEPT
     !.round = round, !.working = TRUE,
     !.schedulerRank = 0, !.poolRank = MaxRank, !.flush = FALSE,
     !.discrepancy = nil, !.predicted = FALSE, !.submitted = {}, !.commits = <<>>]

prune(round) ==
  [q |-> {p \in proposals.q : p.round >= round}, round |-> round]

Init ==
  /\ n = [round |-> 0, working |-> FALSE, state |-> WaitingForBatch,
          job |-> nil, processedBatchCh |-> <<>>, fetch |-> nil, missingTxCh |-> <<>>,
          schedulerRank |-> 0, poolRank |-> MaxRank, flush |-> FALSE,
          discrepancy |-> nil, predicted |-> FALSE, submitted |-> {},
          commits |-> <<>>, faults |-> 0]
  /\ proposals = [q |-> {}, round |-> 0]
  /\ reselectCh = FALSE
  /\ blockInfoCh = nil
  /\ txpool = {} /\ txCh = {}

\* One turn of the loop: a handler left m.
Turn(m) == n.working /\ n' \in Loop(m)

\* Every variable has its type: ranks stay in range, and the channels of the
\* node within their capacities.
TypeOK ==
  /\ n.round \in {0} \union FirstRound..LastRound
  /\ n.working \in BOOLEAN /\ n.flush \in BOOLEAN /\ n.predicted \in BOOLEAN
  /\ n.state.name \in DOMAIN validStateTransitions
  /\ "rank" \in DOMAIN n.state => n.state.rank \in Ranks
  /\ Len(n.processedBatchCh) <= 1 /\ Len(n.missingTxCh) <= 1
  /\ n.schedulerRank \in 0..Len(WorkerList)
  /\ n.poolRank \in Ranks \union {MaxRank}
  /\ n.submitted \subseteq Ranks
  /\ n.faults \in 0..MaxFaults
  /\ proposals.q \subseteq Proposals
  /\ reselectCh \in BOOLEAN
  /\ blockInfoCh \in {nil} \union FirstRound..LastRound
  /\ txCh \subseteq txpool /\ txpool \subseteq Txs

----------------------------------------------------------------------------
(* Actions of the round worker.  An event, commitment or result that comes   *)
(* while no round is worked on is drained.                                  *)

StartRound ==
  /\ blockInfoCh # nil
  /\ blockInfoCh' = nil
  /\ proposals' = prune(blockInfoCh)
  /\ \/ n' \in Loop(FreshRound(n, blockInfoCh))
     \/ n' = [FreshRound(n, blockInfoCh) EXCEPT !.working = FALSE]
  /\ UNCHANGED <<reselectCh, txpool, txCh>>

\* ExecutionDiscrepancyDetected: the consensus layer emits one per round.
HandleEvent ==
  /\ ~Authoritative(n)
  /\ \E r \in Ranks : Turn(handleDiscrepancy(n, [rank |-> r, authoritative |-> TRUE]))
  /\ UNCHANGED <<proposals, reselectCh, blockInfoCh, txpool, txCh>>

\* handleExecutorCommitment and handleObservedExecutorCommitment of a worker.
HandleExecutorCommitment ==
  /\ IsWorker(Me)
  /\ \E r \in Ranks : r < n.poolRank /\ Turn(estimatePoolRank(n, r))
  /\ UNCHANGED <<proposals, reselectCh, blockInfoCh, txpool, txCh>>

\* handleObservedExecutorCommitment of a backup worker, when its own pool of
\* observed commitments reports a discrepancy; it does so once.
PredictDiscrepancy ==
  /\ BackupOnly /\ ~n.predicted
  /\ \E r \in Ranks :
       Turn(handleDiscrepancy([n EXCEPT !.predicted = TRUE],
                              [rank |-> r, authoritative |-> FALSE]))
  /\ UNCHANGED <<proposals, reselectCh, blockInfoCh, txpool, txCh>>

HandleNewCheckedTransactions ==
  /\ txCh # {} /\ txCh' = {}
  /\ IF n.working THEN Turn(ReceiveTxs(n, txCh)) ELSE UNCHANGED n
  /\ UNCHANGED <<proposals, reselectCh, blockInfoCh, txpool>>

HandleMissingTransactions ==
  /\ n.missingTxCh # <<>>
  /\ Turn(ReceiveTxs([n EXCEPT !.missingTxCh = <<>>], Head(n.missingTxCh)))
  /\ UNCHANGED <<proposals, reselectCh, blockInfoCh, txpool, txCh>>

HandleProcessedBatch ==
  /\ n.processedBatchCh # <<>>
  /\ \E m \in handleProcessedBatch([n EXCEPT !.processedBatchCh = Tail(@)],
                                  Head(n.processedBatchCh)) : Turn(m)
  /\ UNCHANGED <<proposals, reselectCh, blockInfoCh, txpool, txCh>>

\* Ranks beyond the last scheduler make no difference.
SchedulerRankTick ==
  /\ n.schedulerRank < Len(WorkerList)
  /\ Turn([n EXCEPT !.schedulerRank = @ + 1])
  /\ UNCHANGED <<proposals, reselectCh, blockInfoCh, txpool, txCh>>

FlushTimer ==
  /\ ~n.flush
  /\ Turn([n EXCEPT !.flush = TRUE])
  /\ UNCHANGED <<proposals, reselectCh, blockInfoCh, txpool, txCh>>

Reselect ==
  /\ reselectCh /\ reselectCh' = FALSE
  /\ IF n.working THEN Turn(n) ELSE UNCHANGED n
  /\ UNCHANGED <<proposals, blockInfoCh, txpool, txCh>>

----------------------------------------------------------------------------
(* Goroutines.                                                              *)

\* startProcessingBatch and startSchedulingBatch: the runtime answers, fails
\* or times out, and the result is sent.
JobDone ==
  /\ n.job # nil
  /\ \/ n' = [n EXCEPT !.job = nil, !.processedBatchCh =
                  Append(@, [rank |-> n.job.rank, computed |-> TRUE])]
     \/ \E f \in Faulted(n) :
          n' = [f EXCEPT !.job = nil, !.processedBatchCh = Append(@, nil)]
  /\ UNCHANGED <<proposals, reselectCh, blockInfoCh, txpool, txCh>>

\* requestMissingTransactions: one answer of the peers.  The transactions go
\* to the pool, which checks them; the ones the pool knows by now, from
\* whatever source, are not asked for again.
FetchTxs ==
  /\ n.fetch # nil
  /\ \E got \in SUBSET n.fetch.txHashes : \E checked \in {{}, got} :
       /\ n.fetch.txHashes \intersect (txpool \union got) # {}
       /\ txpool' = txpool \union got
       /\ txCh' = txCh \union checked
       /\ n' = [n EXCEPT !.fetch.txHashes = @ \ txpool', !.fetch.txs = @ \union got]
  /\ UNCHANGED <<proposals, reselectCh, blockInfoCh>>

FetchDone ==
  /\ n.fetch # nil /\ n.fetch.txHashes = {} /\ n.missingTxCh = <<>>
  /\ n' = [n EXCEPT !.fetch = nil, !.missingTxCh = <<n.fetch.txs>>]
  /\ UNCHANGED <<proposals, reselectCh, blockInfoCh, txpool, txCh>>

----------------------------------------------------------------------------
(* Other threads of the node.                                               *)

\* Replace the proposal with the same round and rank.  When the queue is
\* full, drop the one that is the most in the future.
Enqueued(p) ==
  {q \in proposals.q : q.round # p.round \/ RankOf(q) # RankOf(p)} \union {p}

Furthest(q) ==
  CHOOSE p \in q : \A o \in q :
    o.round < p.round \/ (o.round = p.round /\ RankOf(o) <= RankOf(p))

\* Mutant: the worker is only told of a proposal when the queue was empty.
MutHandleMessage_NoReselect(p) ==
  /\ p.round >= proposals.round
  /\ proposals' = [proposals EXCEPT !.q = Enqueued(p)]
  /\ reselectCh' = (reselectCh \/ proposals.q = {})

\* committeeMsgHandler.HandleMessage and proposalQueue.Add.
HandleMessage(p) ==
  /\ p.round >= proposals.round
  /\ IF Cardinality(Enqueued(p)) <= maxPendingProposals
     THEN /\ proposals' = [proposals EXCEPT !.q = Enqueued(p)]
          /\ reselectCh' = TRUE
     ELSE /\ proposals' = [proposals EXCEPT !.q = Enqueued(p) \ {Furthest(Enqueued(p))}]
          /\ reselectCh' = (reselectCh \/ Furthest(Enqueued(p)) # p)

ReceiveProposal ==
  /\ \E p \in Proposals \ proposals.q : HandleMessage(p)
  /\ UNCHANGED <<n, blockInfoCh, txpool, txCh>>

\* HandleNewBlockLocked: a block that the worker did not take yet is dropped.
HandleNewBlock ==
  LET last == IF blockInfoCh # nil THEN blockInfoCh ELSE n.round
  IN  /\ blockInfoCh' = IF last = 0 THEN FirstRound ELSE last + 1
      /\ blockInfoCh' <= LastRound
      /\ UNCHANGED <<n, proposals, reselectCh, txpool, txCh>>

\* A transaction comes from elsewhere and passes its check.
TxChecked ==
  /\ \E t \in Txs \ txpool : txpool' = txpool \union {t} /\ txCh' = txCh \union {t}
  /\ UNCHANGED <<n, proposals, reselectCh, blockInfoCh>>

Next ==
  \/ StartRound \/ HandleEvent \/ HandleExecutorCommitment \/ PredictDiscrepancy
  \/ HandleNewCheckedTransactions \/ HandleMissingTransactions
  \/ HandleProcessedBatch \/ SchedulerRankTick \/ FlushTimer \/ Reselect
  \/ JobDone \/ FetchTxs \/ FetchDone
  \/ ReceiveProposal \/ HandleNewBlock \/ TxChecked

Spec == Init /\ [][Next]_vars

\* Go's select serves every ready channel in the end, the runtime answers or
\* times out, and some peer has the missing transactions.
Fairness ==
  /\ WF_vars(HandleNewCheckedTransactions) /\ WF_vars(HandleMissingTransactions)
  /\ WF_vars(HandleProcessedBatch) /\ WF_vars(Reselect)
  /\ WF_vars(JobDone) /\ WF_vars(FetchTxs) /\ WF_vars(FetchDone)

FairSpec == Spec /\ Fairness

----------------------------------------------------------------------------
(* Properties.                                                              *)

\* transitionState never meets a transition that validStateTransitions does
\* not list, which would be a panic of the node.
NoInvalidTransition == n.state # Panicked

\* A result waits in processedBatchCh, or a goroutine is about to send one,
\* only for the batch that the node is processing now, and never both: the
\* "should not be possible" of handleProcessedBatch, and the reason why the
\* round worker's own send and Cancel do not block.
ResultsBelong ==
  /\ n.processedBatchCh # <<>> =>
       /\ n.state.name = "ProcessingBatch" /\ n.job = nil
       /\ Head(n.processedBatchCh) # nil => Head(n.processedBatchCh).rank = n.state.rank
  /\ n.job # nil =>
       n.state.name = "ProcessingBatch" /\ n.state.rank = n.job.rank

\* In one round the node submits at most one commitment for a scheduler,
\* through retries, aborts, failures and changes of the discrepancy.
OneCommitmentPerRank ==
  \A i, j \in 1..Len(n.commits) : n.commits[i].rank = n.commits[j].rank => i = j

\* Once a discrepancy is known the node works on the discrepant rank only,
\* even when the consensus layer corrects a predicted rank while another
\* batch is in the runtime.
DiscrepancyFocus ==
  n.discrepancy # nil /\ n.state.name # "WaitingForBatch" =>
    n.state.rank = n.discrepancy.rank

\* A backup worker hands no batch to the runtime before a discrepancy.
BackupWaits == BackupOnly /\ n.job # nil => n.discrepancy # nil

\* The node never rests on a worse decision than its queue allows: unless it
\* is about to reselect, it is not working on a worse-ranked batch than the
\* best admissible proposal, and is not idle while that proposal extends the
\* current block.
NoLostWakeup ==
  LET better == {p \in Matching(n.round, 0, Limit(n), n.submitted) :
                   RankOf(p) < OwnRank(n.round)}
      discrepant == Matching(n.round, n.discrepancy.rank, n.discrepancy.rank, n.submitted)
  IN  n.working /\ ~reselectCh =>
        IF n.discrepancy = nil
        THEN \A p \in better :
               IF n.state.name = "WaitingForBatch"
               THEN \E q \in better : ~q.parent
               ELSE n.state.rank <= RankOf(p)
        ELSE \A p \in discrepant :
               p.parent /\ IsBackupWorker(Me) => n.state.name # "WaitingForBatch"

\* A backup worker that knows of a discrepancy and has the discrepant
\* proposal in its queue.
Asked(round, rank) ==
  /\ n.working /\ n.round = round /\ IsBackupWorker(Me)
  /\ n.discrepancy # nil /\ n.discrepancy.rank = rank
  /\ \E p \in Matching(round, rank, rank, n.submitted) : p.parent

\* Signing the commitment or the proposal failed: no result will come.
Stalled ==
  n.state.name = "ProcessingBatch" /\ n.job = nil /\ n.processedBatchCh = <<>>

\* A backup worker answers a discrepancy with a commitment unless the round
\* ends, the discrepancy or the proposal changes, or its signer fails; no
\* order of results, aborts and late transactions leaves it waiting.
DiscrepancyAnswered ==
  \A round \in FirstRound..LastRound, rank \in Ranks :
    []<>(Asked(round, rank) => Stalled)

\* "Some transactions have been received, but the batch is too large; stop
\* fetching and submit failure": an oversized batch never gets executed.
OversizedNotExecuted ==
  n.job # nil /\ n.job.mode = "Execute" => ~TooLarge(Bytes(n.job.proposal.batch))

\* "Maybe process if we have the correct block": only proposals that extend
\* the node's current block are executed.
CorrectBlockExecuted ==
  n.job # nil /\ n.job.mode = "Execute" => n.job.proposal.parent

\* "Estimate the pool's highest rank to prevent committing to worse-ranked
\* proposals that will be rejected by the pool."
NoWorseCommitment == \A i \in 1..Len(n.commits) : ~n.commits[i].late
=============================================================================
