# Orphiq Core: TLA+ models and proofs

This directory holds TLA+ models of the protocols and state machines of Orphiq
Core, TLC configurations that check them on small instances, and theorems that
TLAPS checks for every instance. `PROJECT.json` is the index: components, runs,
mutants, the map from definitions to source lines, hazards, findings, theorems.

    tlc -workers 2 -config Consensus.cfg MCConsensus      # one run
    tlapm ConsensusProofs.tla                             # one set of proofs

Contents: 1 the system, 2 modules, 3 runs and bounds, 4 fairness, 5 proofs,
6 findings, 7 deviations, 8 what is only model-checked, 9 what is not modelled.

## 1. The system

A *node* follows the consensus layer, runs *runtimes* in separate (possibly
enclaved) processes, and keeps their state in a versioned Merkle key-value store
(MKVS). This repository has the workers of the node, the storage stack, the
peer-to-peer layer, the data types and checks that the consensus applications share
with the workers, and the Rust code of the runtime side. The consensus applications
themselves are not in it; what they do is modelled only as far as the code in
`src/` shows it, and marked external.

| part | state | interacts with |
|---|---|---|
| executor committee, commitment pool | ranks, votes, scheduler commitments, discrepancy flag | consensus layer, executor |
| executor worker | round state machine, proposal queue, batch and fetch goroutines | pool, transaction pool, runtime, P2P |
| registry, staking, governance, vault | descriptors, share pools, schedules, proposals, policies | consensus applications |
| storage worker, checkpoint restore | rounds in flight, out-of-order heaps, chunks, channels | history, node database, peers |
| node databases, MKVS tree, overlay, migration | versions, nodes, logs, cache | storage worker, runtime |
| key manager workers, access list, client | secrets, generations, handoffs, tasks, peers | enclave, consensus layer, P2P |
| upgrade manager | pending upgrades in memory and in the store | governance, blocks, operator |
| registration, common committee node, client worker | roles, epoch, hosted version, waiting transactions | all workers |
| P2P: gossip, RPC, peer management, discovery, seed | queues, peers, tickets, back-offs, indices | all workers |

What makes them hard to test: goroutines and select loops whose results arrive late
or out of order, crashes between two durable writes, random iteration order of Go
maps, unsigned arithmetic at genesis round zero, channels of fixed capacity, and
wake-ups that depend on the last of several independent events.

## 2. Modules

| module | models |
|---|---|
| `Committee` | `go/scheduler/api/api.go`: roles, scheduling order |
| `CommitmentPool` | `go/roothash/api/commitment/`: `pool.go`, `verify.go`, `votes.go` |
| `ExecutorNode` | `go/worker/compute/executor/committee/`: round worker, queue, handlers |
| `RuntimeTrust` | the same directory: `trust.go`, runtime host events, availability |
| `RegistryRuntimes`, `RegistryNodes` | `go/registry/api/`: descriptors, updates, deployments, admission |
| `Staking` | `go/staking/api/`: share pools, delegations, sanity checks; commission schedules |
| `Governance`, `Vault` | `go/governance/api/`; `go/vault/api/` |
| `StorageSync` | `go/worker/storage/committee/node.go` over the metadata of the database |
| `CheckpointRestore` | `go/worker/storage/committee/checkpoint_sync.go`, `go/storage/mkvs/checkpoint/restorer.go` |
| `VersionedStore` | what `go/storage/mkvs/db/api` promises: the abstract specification |
| `NodeDB`, `PathDB` | `go/storage/mkvs/db/badger`, `.../pathbadger` |
| `Migrate` | `go/storage/mkvs/db/badger/migrate.go` |
| `Tree`, `Overlay` | `go/storage/mkvs`: the tree with its cache and proofs; `overlay.go` |
| `KeyManagerSecrets`, `Churp`, `KeyManagerAccess` | `go/worker/keymanager/`: `secrets.go`; `churp.go`; `acl.go`, `watcher.go` |
| `KeyManagerClient`, `CommitteeNode` | `go/worker/common/committee/`: `keymanager.go`; `node.go`, `group.go` |
| `UpgradeManager` | `go/upgrade/upgrade.go`, `go/upgrade/api/api.go` |
| `Registration`, `Client` | `go/worker/registration/worker.go`; `go/worker/client/committee/` |
| `TopicHandler`, `RpcCall`, `RpcPeers` | `go/p2p/dispatch.go`; `go/p2p/rpc/client.go`; `go/p2p/rpc/peermgmt.go` |
| `PeerConnector`, `PeerRegistry`, `Discovery`, `SeedStore` | `go/p2p/peermgmt/`, `go/p2p/discovery/` |
| `MC...` | the instances TLC runs |
| `...Proofs` | theorems, section 5 |

Definitions named `Mut...` are faulty versions of the definition that follows
them. Each is one way in which the code could plausibly be wrong, and is there to
show that a property notices it; nothing else uses them.

**Compositions.** `MCExecutorNode`, and `StorageSync`, `CheckpointRestore` and
`Churp` by themselves, are one component per run. The other MC modules hold several
components that do not interact at the level of the models: a variable `part`,
chosen at the start, says which one the behaviour runs, and the others stay as they
are. So the state space is the sum of theirs and not the product, and an invariant
of a component is an invariant of the composition. Where components do interact,
the interface is an action: the outcome of a restore in `StorageSync`
(`CheckpointRestore` is its inside), the answers of an enclave or of a peer.

**CommitmentPool.** One round. `highestRank`, `votes[rank][node]`,
`commitment[rank]` and `discrepancy` are the fields of `Pool`; an absent map entry
is `NoVote` or `NoCommitment`. `Add` is `VerifyExecutorCommitment` followed by
`AddVerifiedExecutorCommitment`; `Process` and `Timeout` are `ProcessCommitments`
with and without the timer. A result is a header hash; `Emits` says which messages
it commits to. Faulty nodes commit to anything, the others to `Valid` results or
to a failure. The leader among the votes is any of those with the most votes,
because the code gets it from a loop over a Go map.

**ExecutorNode.** The worker handles one channel and then runs the top of its loop
before it looks at a channel again, so an action is a handler followed by the loop.
The batch goroutine (`JobDone`), the fetch goroutine (`FetchTxs`, `FetchDone`), the
P2P handler (`ReceiveProposal`), the block handler and the transaction pool
interleave with it. Up to `MaxFaults` calls (runtime, storage, signer) fail.

**RegistryRuntimes, RegistryNodes.** A registration is the whole chain of checks of
`VerifyRegister...Args` and `Verify...Update`, then the new descriptor in the state;
epochs pass in between. `past` records what was active, and is read by properties only.

**Staking.** Two share pools (`active`, `debonding`) with the truncating divisions of
`SharePool.Deposit` and `Withdraw`, the delegations per delegator and per end of
debonding, the general accounts and the common pool. Sums over accounts are
cardinalities of sets of units (`Held`, `TotalOf`), the form in which they can be
reasoned about. The commission schedule of an account shares nothing with its
escrow and has an initial state and steps of its own.

**Vault.** `address` is the account a policy is about, with the bucket and amount of
`policy.go`; `taken[h]` records what was withdrawn in block `h`, for the properties.

**StorageSync.** Rounds are integers modulo `W`, so that the round before genesis
round zero is the largest one, as with `uint64`. The durable part is the history
(`chain`, `kept`, `checkpointed`) and the metadata of the database (`roots`,
`finalized`, `earliest`). Fetch tasks, results, out-of-order heaps, the finalizing
goroutine, the pruner and an executor on the same node that stores rounds by itself
run beside the loop. `Crash` keeps only the durable part.

**CheckpointRestore.** The handler's select has one action per case. A fetcher goes
through fetch, check, import and mark, which are the two critical sections of
`RestoreChunk` with the import between them; sends block on full channels.

**NodeDB, PathDB, VersionedStore.** Every durable write of an operation is a step,
and the process may die between two of them. Nodes are opaque members of roots. The
refinement maps to `VersionedStore`: a set of readable roots per version and the
write logs that lead to them, of which the versions from `first` to `last` are final.

**Migrate.** The transactions of the migrations to formats 4 and 5 with the progress
marker, interrupted anywhere and resumed. A key has a kind (metadata, roots, write
log, updated nodes, restore log), which decides what the first migration makes of it;
a tree of a version is a set of nodes, of which later versions share some.
`MigrationSettings` says which databases are meant: a log names a root that is
stored before it and not stale, and either no node is shared by versions two or more
apart or all kept versions go into one batch (section 7 shows why; the code's
`flushInterval` is 5000).

**Tree, Overlay.** The pointers of the compressed trie may be dirty, clean and
loaded, or known by hash only. A hash is the structure it stands for, so that equal
hashes mean equal contents. `Tree` reads a remote through proofs that are merged.
The overlay has at most one merged iterator, which an update closes: `iter` has the
positions of the two iterators below it, and `next` says how far it has come.

**Key manager.** `KeyManagerSecrets` is one select loop beside an enclave that may
restart; `Churp` schedules tasks by block height, whose goroutines live on until
they finish or are cancelled; `KeyManagerAccess` has one watcher per source of node
lists; `KeyManagerClient` may switch managers under concurrent calls.
`RuntimeTrust` (run beside them) is the sync of the runtime's light client.

**UpgradeManager.** `pending` is the manager's table and `store` what is durable.
The loop of `ConsensusUpgrade` over the pending upgrades is one step per upgrade, so
that a crash can hit between two. A restart picks any binary that `checkStatus` lets
start.

**Registration, CommitteeNode, Client.** One action per case of the select loop;
role providers, suspension watchers and callers run beside it.

**Peer-to-peer.** `PeerConnector`: concurrent `connectMany` calls share attempts
and have a number of tickets each. `RpcPeers`: events, callbacks, reports and
subscribers in any order. `RpcCall`: `CallOne` in turn, `CallMulti` with a pool of
workers, under a context that may end. `TopicHandler`: dispatch and retries of
received messages, the queue of messages to publish. `PeerRegistry`: node lists and
single registrations on two channels. `Discovery`, `SeedStore`: client and store of
a seed, with logical time. libp2p is external.

## 3. Runs

| run | module, instance | what it shows |
|---|---|---|
| `consensus` | `MCConsensus`; 566,205 states | a round of the pool is finalized only with a correct result, and decided; deployments that were active stand; admission policies hold; every state of the ledger passes the genesis checks and only slashing lowers the value of a share; announced commission bounds are kept; pending upgrades can be recovered; withdrawals respect their limit |
| `executor_worker` | `MCExecutorNode`; worker and backup, last in line in round 3 and first in round 4, queue limit 2, one fault | one commitment per rank, no lost wake-up |
| `executor_backup` | backup only, round 4, three proposals, two of the same rank, one fault | works only on the rank in dispute, and answers |
| `storage` | `StorageSync`; genesis 0, rounds to 3, two in flight, checkpoints, two faults of any kind | finalizations never fail, synced is stored, pruning stays behind |
| `mkvs` | `MCMkvs`; 39,052 states | equal contents have equal hashes, a remote is read correctly, an overlay is a map, an interrupted migration is completed, a storage worker catches up |
| `node_state` | `MCNodeState`; 305,498 states | both databases implement the versioned store; a restore leaves nothing behind; seed, connector, RPC peers, discovery and registry index |
| `services` | `MCServices`; 104,059 states | upgrades are applied once, the latest roles get registered, the hosted runtime is the active one, tracked transactions are answered, queued messages are sent, calls return |
| `keymanager` | `MCKeyManager`; 116,236 states | tasks are tracked, the access list and the feedback are current, initialization converges, the runtime becomes available |
| `executor_large`, `checkpoint_abort`, `storage_flush`, `churp_late` | | findings, section 6 |

**Bounds**, and why they are enough for the interesting cases to happen.

- *Pool:* two workers are the least with a better and a worse rank, three backups
  the least with a majority that is not everyone, one node has both roles, a worker
  and a backup are faulty, round 3 rotates the order.
- *Registry:* versions 1 to 3 deployed in epochs 1 to 4, limits of two and three
  deployments; two nodes of one entity that may share keys, with expirations of two
  epochs within four.
- *Staking:* two delegators with two units each, up to four shares per pool, amounts
  up to two: enough for one unit to be worth less and more than a share. Schedules:
  interval and lead of two epochs, three rates and two bounds, five epochs.
- *Governance, vault:* stakes 3 and 1 around a threshold of 67%, three proposals;
  three addresses, amounts 1 and 2, three blocks in intervals of one or more.
- *Executor:* two rounds are the least for a result of the old round to meet the new
  one.
- *Storage:* `W` = 8 leaves the wrapped round far from the real ones; four rounds
  with two in flight make the window slide. Three chunks and two fetchers fill the
  channels, whose capacity is the number of fetchers.
- *Databases:* six roots over three versions, one a fork, shared nodes between
  them, one crash, a restore in two chunks. *Migration:* three versions, a flush
  after every entry, three crashes.
- *Tree:* three keys of which one is a prefix of another, two values, two pending
  writes; overlay: three keys, two values.
- *Key manager:* two enclave starts; one scheme with epochs of two blocks and five
  blocks, a worker one block behind; two nodes and keys; two managers and calls.
- *Upgrades:* `x` needs a new binary and a startup stage, `y` and `z` are in place,
  two in the same epoch; five blocks, two faults. *Services:* one failure and one
  restart of the registration, four epochs, two callers of one transaction, three
  peers called by two workers with a retry.
- *Peers:* one ticket and two callers; two peers and three events; TTL and back-off
  of two within three units of time.

Every bound is a CONSTANT. No symmetry is used: the nodes of a committee have
positions, and the liveness checks would be unsound with it. Deadlock is not checked
where the system may stop or the bounds end it: a decided round, a returned handler,
the last block, round or epoch.

## 4. Fairness

Safety runs (`executor_worker`, `storage`, `node_state`) need none. Elsewhere:

- *Pool:* weak fairness of `Timeout`: the consensus layer re-arms the round timer
  while the round is open.
- *Executor:* weak fairness of the handlers, of the batch goroutine (the runtime
  call has a timeout), and of the fetch goroutine (it retries until the round ends;
  that some peer has the transactions is an assumption). None for proposals, blocks,
  events or timers.
- *Storage worker:* weak fairness for goroutines and for the code outside the
  select; strong fairness for its cases, since Go's select picks at random among
  those that are ready, so a case that is ready again and again is taken. Faults are
  bounded, which is what "once faults stop" means.
- *Runtime trust:* a sync that is retried succeeds, and the lock is granted.
- *Key manager secrets:* the enclave starts again, the loop takes what is ready, and
  background tasks end, unless the worker panicked.
- *Registration, client:* weak fairness of the loop, strong of its select cases; the
  node restarts after a crash.
- *Gossip, calls:* every goroutine that can run does. A message is promised to be
  sent only if the topic has peers again and again.

## 5. Proofs

| module | theorem | states |
|---|---|---|
| `ConsensusProofs` | `RankInjective`, `SchedulerHasRank` | in each round a rank names one worker; `Scheduler` and `SchedulerRank` are inverse |
| | `PoolInvariant` | `Spec => [](TypeOK /\ PoolInv)` |
| | `FinalizedIsValid` | `[]FinalizedValid`: a finalized result is correct |
| | `FinalizedCarriesMessages` | `[]FinalizedMessages` |
| | `RankNeverWorsens`, `VotesNeverChange` | the action properties `RankImproves`, `VotesStand` |
| | `LedgerIsSane` | `[]GenesisAccepted`: the ledger adds up |
| | `SharesKeepValue` | the action property `ShareValueKept` |
| | `WithdrawalsStayLimited` | the action property `WithdrawalLimited` |
| `ExecutorNodeProofs` | `CommitmentsAreUnique` | `[](OneCommitmentPerRank /\ ResultsBelong /\ NoInvalidTransition)` |
| | `DiscrepancyIsFollowed`, `WakeupsAreKept` | `[]DiscrepancyFocus`, `[]NoLostWakeup` |
| `StorageSyncProofs` | `SyncedStaysStored` | `[]SyncedIsStored` |
| | `FinalizationsSucceed` | `[]FinalizeNeverFails` |
| | `PruningStaysBehind` | `[]PrunedIsSynced` |
| `MkvsProofs` | `OverlayActsAsMap` | `[]OverlayIsMap`: lookups and iteration see one map |
| | `MigrationsComplete` | `[]MigrationComplete`: an interrupted migration is completed |
| `UpgradeRegistryProofs` | `UpgradesApplyOnce` | `[]AppliedOnce` |
| | `UpgradesNotSkipped` | `[](NeverSkipped /\ NoPanic /\ StartupFirst)` |
| | `HistoryIsKept` | `[]HistoryStands`: active deployments are not rewritten |
| | `AdmissionIsKept` | admission policies hold for ever once they hold |
| `ChurpProofs` | `JobsStayTracked` | `[]JobsTracked` |
| `PeerProofs` | `CleanupFindsAll` | `[]CleanupFindsExpired` of a seed's peer store |
| | `SeedsStaySilent`, `NoChangeMissed` | `[]SilentAfterMalice`, `[]AdvertisesAll` |
| | `IndexAlwaysFollows` | `[]IndexFollows` |
| | `ConnectsJustEnough` | `[]ConnectsEnough` |
| `NodeStateProofs` | `RestoreLeavesNothing` | `[]CleanExit` |
| | `WindowHolds`, `FinalIsKept` | of `VersionedStore`: `[]Window` and the action property `FinalIsDurable` |
| | `BadPeersNeverReturn` | `[]BadPeersStayOut` |
| | `AccessStaysCurrent`, `FeedbackStaysCurrent` | `[]AccessIsCurrent`, `[]FeedbackIsCurrent` |

A proofs module gets its components the way the MC module of the run does, so the
theorem and the run are about the same definition. What the lemmas use of finite
sets and of the naturals (that a subset of a finite set is finite and no larger, that
a set of naturals has a least element, ...) is their hypothesis `SetFacts`; the module
ends with `SetFactsHold`, which derives it from the library's theorems, and with the
theorems, each from the lemma of its name with the suffix `If`. With the library in
scope only there, the provers are several times faster.

**Assumptions.** The named ASSUMEs of `Committee` (a node is listed at most once
with each role, and there is a worker), `CommitmentPool`, `ExecutorNode`,
`CheckpointRestore` (finitely many fetchers, at least one chunk), `StorageSync` (the
last round stays below the wrap-around) and `UpgradeManager` (epochs never go back)
are evaluated by TLC in the runs. The others are hypotheses of the theorem:

- `LedgerIsSane`, `SharesKeepValue`: finitely many delegators, funds and epochs are
  natural numbers. `WithdrawalsStayLimited`: limits, intervals and amounts are.
- `HistoryIsKept`, `AdmissionIsKept`: the types a decoded descriptor has. The second
  also has `AdmissionRespected` at the start, as the genesis document is not checked
  against the policies.
- `PruningStaysBehind`: the history starts at round 0 or 1 (section 7 shows why).
- `AccessStaysCurrent`: zero is no key, and a registered node does not give up the
  observer role (`~MayDropRole`, section 7).
- `MigrationsComplete`: `MigrationSettings`, and `OverlayActsAsMap`: keys and values
  are positive integers (zero stands for none). The run evaluates both.
- `JobsStayTracked`: an epoch has a block. `ConnectsJustEnough`: finitely many peers.
  `SeedsStaySilent`, `CleanupFindsAll`: the back-off, and the time a registration
  lives, are natural numbers. `WindowHolds`, `FinalIsKept`:
  versions are natural numbers.

**Arguments.** Few of the properties are inductive. What each needs:

*The pool.* `PoolInv` (the entry at the highest rank has its scheduler's commitment
and vote, better entries wait for their scheduler, the others are gone),
`HonestVotes` (votes of honest nodes are valid or failures) and
`CommitmentsVerified`. `PoolInv` needs that ranks are distinct, which is modular
arithmetic about the rotation. For a finalized round, the voters for the scheduler's
header outnumber the faulty nodes of their role: in detection all but the stragglers
agree, in resolution a majority of the backups. So an honest node is among them. The
hypothesis on faulty nodes, `HonestQuorums`, is part of `FinalizedValid`.

*The ledger.* `LedgerInv`: a pool without shares is empty, the pools have exactly the
shares of the delegations, and balances, escrow and common pool make up the supply.
The sums are cardinalities of sets of units, so that changing one account changes
the sum by the difference without an induction. `SharesKeepValue` compares the value
of a share before and after as cross products, and needs that the truncating
divisions round in favour of the pool.

*The vault.* `VaultInv`: the amount of the account is what was withdrawn in the
current interval if its bucket is the current one, and nothing was if not; nothing
is withdrawn in later blocks; the bucket is never ahead. A withdrawal that starts a
new bucket resets the amount, which is right because the bucket is behind.

*The registry.* `RInv`: what was active is ordered by epoch, with versions that do
not fall, and the descriptor still has all of it or its past is gone. The least and
greatest epoch of a deployment come from the well-founded order of the naturals.
`NInv`: nodes are under their identifiers, and the live nodes per entity, runtime and
role are within the limits; a registration replaces a node or adds one after it was
counted.

*The executor.* `EInv`: the state is one that `transitionState` installs, a result is
on its way only for the batch being processed, what the node works on has not been
submitted, every commitment is recorded as submitted, the queue has one proposal per
round and rank. `DiscrepancyFocus` and `NoLostWakeup` are conjuncts, since the top of
the loop decides from the state they constrain. TLC checked `EInv` on both passing
executor instances (494,415 and 58,743 states) before it was proved.

*The storage worker.* `YInv`: whoever is told of a round (the history, the
checkpointer, the finalizing goroutine) is told after the database has finalized it.
`FInv` adds the numbers (what the worker counts with is on the chain or undefined,
including the wrapped round before genesis), the rounds in flight (a root nobody
waits for is stored), tasks and results, and whose turn it is. `PInv` adds that the
history's first round is at most the database's earliest version, itself at most the
last: the database skips a round below its earliest version and refuses to prune its
last one.

*Upgrades.* `UInv`: a crash falls back to the store, so store and table agree on
which upgrades are in progress; a replayed block runs its handlers again, so what
they did counts only once the block is committed; the binary fits.

*The migration.* `MInv` relates the disk to the saved progress: keys before the saved
position are in the new form and the others in the old one, a version before the
saved one has its tree in the new format, and what the open batch holds is what the
steps since the last flush have done. The trees of the versions still to come stay
readable, because what a version deletes is shared with the next version at most
(or is flushed with everything else). Resuming needs that the saved position is
where a batch ended. TLC checked it with eight settings first.

*The overlay.* `OInv`: the updated keys are dirty, and the inner position is the
first clean key of the inner tree, the overlay's the first updated key, from `next`
on. Both sets are disjoint, so that the smaller of the two is the first key of the
map. What is needed of "first" (it exists, it is the same for a later start up to
itself, the first of a subset comes from the first of the set) are lemmas over the
well-founded order of the naturals.

*CHURP.* A task is for the handoff that the worker believes to be next, statuses
arrive in the order of the chain and their handoffs never move back while enabled,
and a goroutine that was not cancelled belongs to a running task. `Cancel` is wrong
about the direction (section 6), but it is called only when no earlier one is left.

*Key manager access and client.* The two indices are converse to each other and to
what the watchers know; what a watcher knows is current unless an event that changes
it is in its channel. An answered call carries feedback on the client it started
with, which is what the comparison in the last critical section relies on.

*The seed.* `SeedInv`: the list is without repetitions, has exactly the registered
pairs, is ordered by expiry, and nothing expires later than one lifetime from now.
The last is what lets a new or extended registration go to the back. Cleanup removes
the prefix that has expired; that the rest of the list still is what is registered
needs that no pair is in both parts.

*Restore.* A completion signal, wherever it is (about to be sent, in the channel,
received), implies that the restorer has no checkpoint any more: `SignalAfterEnd`.

*Connector.* For each connection a call still wants there is a ticket it has not
taken, an attempt, or the dial it is about to make: `ConnInv`, checked by TLC on two
instances (131,596 and 12,808 states) first.

*The versioned store.* Only `Erase` loses something final, and only the earliest
version while a later one is final; with the refinement that TLC checks, this is what
both databases promise.

## 6. Findings

Each has a run whose counterexample shows it.

- **`executor_large`** (`transactions.go:31`). The size of arriving transactions is
  added to a copy of the state and lost. An oversized batch whose transactions come
  late is executed instead of being answered with a failure.
- **`checkpoint_abort`** (`restorer.go:105`). When one fetcher aborts the restore,
  another one between its two critical sections finds no pending chunks and reports
  the restore as complete.
- **`storage_flush`** (storage `node.go:1284`). A failed flush returns round zero,
  which becomes the last finalized round. No later round is finalized until a restart.
- **`churp_late`** (`churp.go:1239`). `Cancel` skips the tasks of earlier handoffs and
  cancels the others, the reverse of its comment.

## 7. Deviations

Settings of a model outside the runs in which a property of it fails. To reproduce
one, give the module a configuration with the setting and the property.

| module, property | setting | what happens |
|---|---|---|
| `ExecutorNode`, `CorrectBlockExecuted` | `Fork_Proposals`, round 3 | a proposal with missing transactions is executed later without the comparison with the current block (executor `node.go:261`) |
| `ExecutorNode`, `NoWorseCommitment` | `Rank_Proposals` | a batch that became worse than the estimated rank is committed when no better proposal is queued (`node.go:1480`) |
| `RuntimeTrust`, `AvailableIsSynced` | `MaxStarts = 2` | the sync of a stopped instance, waiting for the lock, marks the restarted one as synced (`trust.go:59`) |
| `CheckpointRestore`, `HandlerReturns` | `FairSpec`, 4 chunks, 2 fetchers, faults `fetch` and `local`, 4 of them | after the handler left on an error a fetcher blocks on the full return channel, and the handler waits for it (`checkpoint_sync.go:114`) |
| `CheckpointRestore`, `RestoredIsDone` | 2 chunks, 1 fetcher, fault `fetch` | the end of the fetcher is seen before its signal, and a complete restore is abandoned (`checkpoint_sync.go:267`) |
| `StorageSync`, `PrunedIsSynced` | `GenesisRound = 2`, no checkpoints | the pruner drops the genesis block before anything is synced, because the undefined round is the largest integer (storage `node.go:1327`) |
| `NodeDB`, `BadgerRefines` | `CrashAt` with `<<"done", "log">>` | a crash between the commit of a finalized version and the removal of the multipart log: reopening removes the nodes of the log (`badger.go:709`) |
| `NodeDB`, `BadgerRefines` | `MixedSources = TRUE` | a version brought up both from diffs and by a restore is finalized with the bookkeeping of the other attempt, and loses nodes |
| `PathDB`, `PathRefines` | `Retry = TRUE` | a restore that follows batches or another restore of its version gets a later sequence number, and not all its nodes reach their final keys |
| `Migrate`, `MigrationComplete` | four kept versions, `flushInterval = 1`, outside `MigrationSettings` | the nodes a version replaced are deleted, and that is flushed, before an older version that shares them was migrated |
| `Tree`, `ReadsWrites` | `ValueCapacity = 1` | an evicted leaf is lost from a dirty node |
| `Tree`, `ReadsWrites` | `SpecWithCancel` | a removal that is cancelled on the way down cuts off the subtree it had reached |
| `Overlay`, `OverlayIsMap` | `OverlaySpecWithFailure` | after a commit that fails in the middle the keys inserted so far are no longer dirty but still in the overlay |
| `CommitteeNode`, `GroupIsCurrent` | `Failing = {"state"}` | the committee of the last epoch stays in use after a failed query |
| `CommitteeNode`, `StopHalts` | `NeedsKeyManager = TRUE`, `Failing = {"committee"}` | the wait for the key manager at start-up does not end when the node stops |
| `CommitteeNode`, `HostedIsActive` | `MaxEpoch = 5`, `MaxSuspensions = 2` | the watcher of an earlier suspension sets the hosted version after the next one |
| `Client`, `IncludedAnswered` | `MayFail = TRUE` | a transaction included before its subscription is never answered |
| `Staking`, `ScheduleStaysValid` | `ScheduleSpecWithChanges`, `MinRates = {0, 1}` | a raised minimum rate makes accepted schedules fail the sanity check |
| `Governance`, `PendingRecovered` | `Params` with two values of `minDiff` | pending upgrades that were accepted under a smaller minimum distance fail the genesis checks after it was raised |
| `KeyManagerAccess`, `AccessIsCurrent` | `MayDropRole = TRUE` | a registration that gives up the observer role leaves the node's access as it was |
| `KeyManagerClient`, `NoNilTracker` | `MayUnset = TRUE` | a call uses the tracker after it was removed |
| `PeerRegistry`, `Converges` | as in the run | a list and an event handled out of order leave a stale descriptor |
| `RegistryNodes`, `SubKeysUnique` | `GenesisSize = 2` | the genesis check does not compare all keys of two nodes |
| `RegistryRuntimes`, `NeverMalformed` | `SpecWithChanges`, `Limits = {2, 3}` | a lowered limit on deployments makes a stored descriptor malformed (`api.go:1274`) |
| `RpcPeers`, `OnlyConnected` | as in the run | an event handled after the disconnection brings the peer back |
| `SeedStore`, `RejectsWhenFull` | as in the run | cleanup leaves `peerNamespaces`, so that expired peers count against the limits |

The passing runs, and the hypotheses of the theorems, are for the cases outside these.

## 8. Only model-checked

- *Liveness* (`PoolDecides`, `DiscrepancyAnswered`, `CaughtUp`, `InitConverges`,
  `EventuallyAvailable`, `LatestRegistered`, `TrackedAnswered`, `QueuedIsSent`,
  `CallReturns`): fairness and ENABLED are out of the prover's reach.
- *What recursive definitions compute* (`HashIsCanonical`, `RemoteAnswers`,
  over recursive operators on trees; `PendingRecovered`, `BoundsAnnounced`, over
  folds of closed proposals and of schedules): they need induction over the data with an operator as the induction
  hypothesis, which the provers cannot instantiate.
- *The refinements* `BadgerRefines` and `PathRefines`: the abstract store's own
  properties are proved, the mapping's steps are checked by TLC with a crash at the
  writes of the run.
- `HostedIsActive` holds for the settings of its run and fails for others (section
  7), so that a theorem for all constants would be false.

Each module also states a type invariant and further properties that no listed run
has (`NoPanic`, `InFlightTracked`, `AvailableIsClose` of `StorageSync`, `BackupWaits`
of `ExecutorNode`, `NoChunkLost` of `CheckpointRestore`, `IterationSorted` and
`RemovedIsGarbage` of `Tree`, `EventuallyApplied` of `UpgradeManager`, `TrackingEnds`
of `Client`). They were checked with the module's instance by itself.

## 9. Not modelled

- *Rust code of the runtime side* (dispatcher, enclave RPC sessions, consensus
  verifier, the enclaves of the key manager, the Rust tree and pool): it runs inside
  the runtime or repeats a Go algorithm that is modelled; its answers are choices.
- *Secret sharing:* polynomial arithmetic over a field; its correctness is algebraic.
- *Checkpoint creation:* a ticker around file operations. *Storage protocols, sentry,
  IAS, remote signer:* requests and answers without state of their own.
- *Roothash liveness statistics, beacon:* interfaces and counters whose application
  is not in the repository.
- Inside modelled parts: signatures and attestation (what is verified has passed),
  contents of messages and chunks, transfers, allowances and rewards for signing,
  the finalization of the executor's previous round, the lock of the tree, metrics
  and logging. Node binary, commands and test tooling are wiring.

`PROJECT.json` has the status and the reason for every part.
