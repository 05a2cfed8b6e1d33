------------------------------ MODULE StorageSync ------------------------------
(***************************************************************************)
(* The storage worker of a runtime, go/worker/storage/committee/node.go:     *)
(* startup, the checkpoint sync as one outcome, the main loop with its fetch *)
(* pool and its finalizing goroutine, and the prune handler, over the node   *)
(* database and the runtime history, on a node that crashes.                 *)
(*                                                                         *)
(* Rounds are unsigned integers modulo W, the 64 bit ones of the code in     *)
(* small, because the round before genesis round zero is the largest one.    *)
(* The genesis block has empty roots and the node database starts empty.     *)
(***************************************************************************)
EXTENDS Integers, FiniteSets

CONSTANTS
  W,            \* 2^64 in small
  GenesisRound,
  MaxRound,     \* bound on the chain
  MaxInFlight,  \* maxInFlightRounds
  MaxDelay,     \* maximumRoundDelayForAvailability
  MinDelay,     \* minimumRoundDelayForUnavailability
  UseCheckpoints, \* checkpoint sync is enabled
  Faults,       \* what can go wrong: a subset of FaultKinds
  MaxFaults,    \* bound on how often
  None

FaultKinds == {"diff", "apply", "flush", "crash"}

ASSUME SyncAssumption ==
  /\ W \in Nat /\ GenesisRound \in Nat /\ MaxRound \in GenesisRound..(W - 3)
  /\ MaxInFlight \in Nat \ {0} /\ MaxDelay \in Nat \ {0} /\ MinDelay \in MaxDelay..(W - 2)
  /\ UseCheckpoints \in BOOLEAN /\ Faults \subseteq FaultKinds /\ MaxFaults \in Nat
  /\ None \notin 0..(W - 1)

VARIABLES
  \* durable
  chain,        \* the last round of the runtime history
  kept,         \* the first round of the history that has not been pruned
  checkpointed, \* what StorageSyncCheckpoint has recorded, or None
  roots,        \* the roots in the metadata of the node database
  finalized,    \* its last finalized version, or None
  earliest,     \* its earliest version
  \* of the worker
  phase,        \* where the worker is: one of Phases
  synced,       \* syncedState.Round
  cached,       \* cachedLastRound
  applied,      \* lastFullyAppliedRound
  latest,       \* latestBlockRound
  nextBlock,    \* the next block in blockCh
  hashCache,    \* the rounds in hashCache
  syncing,      \* syncingRounds
  fetching,     \* the tasks of the fetch pool, <<round, root type>>
  results,      \* results of tasks on their way through diffCh
  doneDiffs,    \* outOfOrderDoneDiffs
  finalizable,  \* outOfOrderFinalizable
  finalizing,   \* finalizing goroutines: <<round, "run" | "ok" | "failed">>
  available,    \* roleAvailable
  panicked,
  faults

db == <<roots, finalized, earliest>>
history == <<chain, kept, checkpointed>>
rounds == <<synced, cached, applied, latest>>
queues == <<hashCache, syncing, fetching, results, doneDiffs, finalizable, finalizing>>
vars == <<db, history, phase, rounds, nextBlock, queues, available, panicked, faults>>

Rounds == 0..(W - 1)
RootTypes == {"io", "state"}
Roots == Rounds \X RootTypes
DefaultUndefinedRound == W - 1
UndefinedRound == (GenesisRound - 1) % W
Succ(r) == (r + 1) % W

Phases == {"down", "start", "restore", "forced", "flush", "loop", "dead"}
InFlight == [outstanding : SUBSET RootTypes, awaitingRetry : SUBSET RootTypes]

\* Every variable has its type; a root type of a round in flight is waited for
\* or awaits its retry, never both (utils.go 56-70).
TypeOK ==
  /\ chain \in GenesisRound..MaxRound /\ kept \in GenesisRound..MaxRound
  /\ checkpointed \in Rounds \union {None}
  /\ roots \subseteq Roots /\ finalized \in Rounds \union {None} /\ earliest \in Rounds
  /\ phase \in Phases
  /\ {synced, cached, applied, latest} \subseteq Rounds
  /\ nextBlock \in Rounds
  /\ hashCache \subseteq Rounds
  /\ DOMAIN syncing \subseteq Rounds /\ \A r \in DOMAIN syncing : syncing[r] \in InFlight
  /\ \A r \in DOMAIN syncing : syncing[r].outstanding \intersect syncing[r].awaitingRetry = {}
  /\ fetching \subseteq Roots
  /\ results \subseteq [root : Roots, fetched : BOOLEAN, err : BOOLEAN]
  /\ doneDiffs \subseteq [root : Roots, fetched : BOOLEAN]
  /\ finalizable \subseteq Rounds
  /\ finalizing \subseteq Rounds \X {"run", "ok", "failed"}
  /\ available \in BOOLEAN /\ panicked \in BOOLEAN
  /\ faults \in 0..MaxFaults

Init ==
  /\ synced = DefaultUndefinedRound /\ cached = UndefinedRound /\ applied = UndefinedRound
  /\ latest = UndefinedRound /\ nextBlock = GenesisRound
  /\ hashCache = {} /\ syncing = <<>> /\ fetching = {} /\ results = {}
  /\ doneDiffs = {} /\ finalizable = {} /\ finalizing = {} /\ available = FALSE
  /\ chain = GenesisRound /\ kept = GenesisRound /\ checkpointed = None
  /\ roots = {} /\ finalized = None /\ earliest = 0
  /\ phase = "down"
  /\ panicked = FALSE /\ faults = 0

Fault(kind) == kind \in Faults /\ faults < MaxFaults /\ faults' = faults + 1

Known(r) == r \in kept..chain
AllRoots(r) == {r} \X RootTypes
\* An empty root, which those of the genesis block are, is always there.
HasRoot(root) == root[1] = GenesisRound \/ (root[1] >= earliest /\ root \in roots)

----------------------------------------------------------------------------
(* The node database.                                                        *)

\* Finalize records the version; the first one is also the earliest.
RecordFinalized(r) ==
  /\ finalized' = r
  /\ earliest' = IF finalized = None THEN r ELSE earliest

CanFinalizeVersion(r) ==
  /\ finalized # None => finalized = r - 1
  /\ r # GenesisRound => AllRoots(r) \subseteq roots

\* RootCache.Apply and the batch it commits: a root that is there is left
\* alone, a state root needs its predecessor, an I/O root is not chained.
CanApplyDiff(root) ==
  \/ HasRoot(root)
  \/ /\ finalized # None => finalized < root[1]
     /\ root[2] = "state" => HasRoot(<<root[1] - 1, "state">>)

----------------------------------------------------------------------------
(* Startup.                                                                  *)

\* NewNode: the prune handler is registered, blocks are being queued.
Start ==
  /\ phase = "down" /\ ~panicked
  /\ phase' = "start" /\ nextBlock' = chain
  /\ UNCHANGED <<db, history, rounds, queues, available, panicked, faults>>

\* flushSyncedState: the state is replaced before the history is told.
Flush(r) == synced' = r /\ checkpointed' = r /\ UNCHANGED faults
FlushFails(r) == synced' = r /\ UNCHANGED checkpointed /\ Fault("flush")

\* initGenesis: the versions up to the genesis round are filled in, from the
\* first one on when the database is empty.
InitGenesis ==
  IF GenesisRound > 0 /\ finalized = None
  THEN finalized' = GenesisRound /\ earliest' = 1
  ELSE UNCHANGED <<finalized, earliest>>

\* The worker up to the decision on how to sync: the last finalized version is
\* the last synced one if its block is known.
Initialize ==
  LET stored == finalized # None /\ Known(finalized)
      last == IF stored THEN finalized ELSE UndefinedRound
      forced == ~Known(IF stored THEN last ELSE GenesisRound)
  IN /\ phase = "start"
     /\ \/ /\ IF stored THEN Flush(finalized) /\ UNCHANGED <<finalized, earliest>>
              ELSE InitGenesis /\ UNCHANGED <<synced, checkpointed, faults>>
           /\ cached' = last /\ applied' = last
           /\ phase' = IF forced THEN "forced"
                       ELSE IF ~stored /\ UseCheckpoints THEN "restore" ELSE "loop"
        \/ /\ stored /\ FlushFails(finalized)
           /\ phase' = "dead" /\ UNCHANGED <<cached, applied, finalized, earliest>>
     /\ UNCHANGED <<roots, chain, kept, latest, nextBlock, queues, available, panicked>>

\* syncCheckpoints restores both roots of a version and finalizes it.  With
\* nothing synced version zero is not usable (checkCheckpointUsable), and a
\* sync that is disabled but forced takes the genesis round only.
Restore(v) ==
  /\ phase \in {"restore", "forced"} /\ Known(v) /\ v > 0
  /\ UseCheckpoints \/ v = GenesisRound
  /\ finalized # None => finalized < v
  /\ roots' = roots \union AllRoots(v) /\ RecordFinalized(v)
  /\ phase' = "flush"
  /\ UNCHANGED <<history, rounds, nextBlock, queues, available, panicked, faults>>

\* The second attempt has failed as well.  The nodes are removed again, the
\* metadata of the roots stays.
RestoreFails(v, left) ==
  /\ phase = "restore" /\ phase' = "loop"
  /\ Known(v) /\ v > 0 /\ left \subseteq AllRoots(v)
  /\ roots' = roots \union left
  /\ UNCHANGED <<finalized, earliest, history, rounds, nextBlock, queues, available, panicked, faults>>

FlushRestored ==
  /\ phase = "flush"
  /\ \/ Flush(finalized) /\ cached' = finalized /\ applied' = finalized /\ phase' = "loop"
     \/ FlushFails(finalized) /\ phase' = "dead" /\ UNCHANGED <<cached, applied>>
  /\ UNCHANGED <<db, chain, kept, latest, nextBlock, queues, available, panicked>>

----------------------------------------------------------------------------
(* The fetch pool and the finalizing goroutine.                              *)

\* fetchDiff: a root that exists locally, for instance because the executor
\* has committed it, is not fetched.
FetchDiff(root) ==
  /\ root \in fetching /\ phase = "loop"
  /\ fetching' = fetching \ {root}
  /\ \/ /\ results' = results \union {[root |-> root, fetched |-> ~HasRoot(root), err |-> FALSE]}
        /\ UNCHANGED faults
     \/ /\ ~HasRoot(root) /\ Fault("diff")
        /\ results' = results \union {[root |-> root, fetched |-> TRUE, err |-> TRUE]}
  /\ UNCHANGED <<db, history, phase, rounds, nextBlock, hashCache, syncing, doneDiffs, finalizable,
                 finalizing, available, panicked>>

\* finalize: a version that has already been finalized is not an error.
Finalize(r) ==
  LET already == finalized # None /\ r <= finalized
      ok == already \/ CanFinalizeVersion(r)
  IN /\ <<r, "run">> \in finalizing /\ phase = "loop"
     /\ finalizing' = (finalizing \ {<<r, "run">>}) \union {<<r, IF ok THEN "ok" ELSE "failed">>}
     /\ IF ok /\ ~already THEN RecordFinalized(r) ELSE UNCHANGED <<finalized, earliest>>
     /\ UNCHANGED <<roots, history, phase, rounds, nextBlock, hashCache, syncing, fetching, results,
                    doneDiffs, finalizable, available, panicked, faults>>

----------------------------------------------------------------------------
(* The main loop: applies first, then finalizations, then the events.        *)

\* The head of outOfOrderDoneDiffs is for the round after the last applied one.
Applicable ==
  {d \in doneDiffs : /\ d.root[1] = Succ(applied)
                     /\ \A e \in doneDiffs : d.root[1] <= e.root[1]}

Finalizable == {r \in finalizable : r = Succ(cached) /\ \A q \in finalizable : r <= q}

Waiting == phase = "loop" /\ Applicable = {} /\ Finalizable = {}

Without(f, r) == [x \in DOMAIN f \ {r} |-> f[x]]

\* Mutant: a failed root type stays outstanding.
MutRetry_Both(root) ==
  /\ syncing' = [syncing EXCEPT ![root[1]].awaitingRetry = @ \union {root[2]}]
  /\ UNCHANGED panicked

\* The entry of a root goes back to awaiting its retry; without one, a nil
\* pointer is dereferenced.
Retry(root) ==
  IF root[1] \in DOMAIN syncing
  THEN /\ syncing' = [syncing EXCEPT ![root[1]] =
                        [outstanding |-> @.outstanding \ {root[2]},
                         awaitingRetry |-> @.awaitingRetry \union {root[2]}]]
       /\ UNCHANGED panicked
  ELSE panicked' = TRUE /\ UNCHANGED syncing

\* A root type has been applied; with the last one the round is fully applied.
Complete(root) ==
  LET left == syncing[root[1]].outstanding \ {root[2]}
  IN IF left = {} /\ syncing[root[1]].awaitingRetry = {}
     THEN /\ syncing' = Without(syncing, root[1])
          /\ hashCache' = hashCache \ {(root[1] - 1) % W}
          /\ applied' = root[1]
          /\ finalizable' = finalizable \union {root[1]}
     ELSE /\ syncing' = [syncing EXCEPT ![root[1]].outstanding = left]
          /\ UNCHANGED <<hashCache, applied, finalizable>>

\* Mutant: a diff that cannot be applied is dropped.
MutApply_Drop(d) ==
  /\ phase = "loop" /\ d \in Applicable
  /\ doneDiffs' = doneDiffs \ {d}
  /\ \/ /\ d.fetched => CanApplyDiff(d.root)
        /\ roots' = IF d.fetched THEN roots \union {d.root} ELSE roots
        /\ Complete(d.root) /\ UNCHANGED <<panicked, faults>>
     \/ /\ d.fetched /\ Fault("apply")
        /\ UNCHANGED <<roots, panicked, syncing, hashCache, applied, finalizable>>
  /\ UNCHANGED <<finalized, earliest, history, phase, synced, cached, latest, nextBlock, fetching,
                 results, finalizing, available>>

Apply(d) ==
  /\ phase = "loop" /\ d \in Applicable
  /\ doneDiffs' = doneDiffs \ {d}
  /\ \/ /\ d.fetched => CanApplyDiff(d.root)
        /\ roots' = IF d.fetched THEN roots \union {d.root} ELSE roots
        /\ Complete(d.root) /\ UNCHANGED <<panicked, faults>>
     \/ /\ d.fetched
        /\ IF CanApplyDiff(d.root) THEN Fault("apply") ELSE UNCHANGED faults
        /\ Retry(d.root)
        /\ UNCHANGED <<roots, hashCache, applied, finalizable>>
  /\ UNCHANGED <<finalized, earliest, history, phase, synced, cached, latest, nextBlock, fetching,
                 results, finalizing, available>>

\* Mutant: a finalization does not wait for the one before it.
MutStartFinalize_Any(r) ==
  /\ phase = "loop" /\ Applicable = {} /\ r \in finalizable
  /\ finalizable' = finalizable \ {r}
  /\ finalizing' = finalizing \union {<<r, "run">>}
  /\ UNCHANGED <<db, history, phase, rounds, nextBlock, hashCache, syncing, fetching, results,
                 doneDiffs, available, panicked, faults>>

\* Mutant: the round is recorded as synced when its finalization starts.
MutStartFinalize_Early(r) ==
  /\ phase = "loop" /\ Applicable = {} /\ r \in Finalizable
  /\ finalizable' = finalizable \ {r}
  /\ finalizing' = finalizing \union {<<r, "run">>}
  /\ synced' = r /\ checkpointed' = r
  /\ UNCHANGED <<db, chain, kept, phase, cached, applied, latest, nextBlock, hashCache, syncing,
                 fetching, results, doneDiffs, available, panicked, faults>>

StartFinalize(r) ==
  /\ phase = "loop" /\ Applicable = {} /\ r \in Finalizable
  /\ finalizable' = finalizable \ {r}
  /\ finalizing' = finalizing \union {<<r, "run">>}
  /\ UNCHANGED <<db, history, phase, rounds, nextBlock, hashCache, syncing, fetching, results,
                 doneDiffs, available, panicked, faults>>

\* Mutant: a node that has fallen behind stays available.
MutNudge_Sticky(last, block) ==
  LET lag == (block - last) % W
  IN available' = IF last = UndefinedRound \/ block = UndefinedRound THEN available
                  ELSE available \/ lag < MaxDelay

\* nudgeAvailability, in unsigned arithmetic.
Nudge(last, block) ==
  LET lag == (block - last) % W
  IN available' = IF last = UndefinedRound \/ block = UndefinedRound THEN available
                  ELSE (available \/ lag < MaxDelay) /\ lag <= MinDelay

\* Mutant: no limit on the rounds in flight.
MutVisited_NoLimit(block) == {i \in Rounds : Succ(applied) <= i /\ i <= block}

\* The rounds triggerRoundFetches looks at: it stops at the first one that is
\* over the limit.
Visited(block) ==
  LET todo == {i \in Rounds : Succ(applied) <= i /\ i <= block}
      Opened(i) == {j \in todo \ DOMAIN syncing : j <= i}
  IN {i \in todo : Cardinality(Opened(i)) + Cardinality(DOMAIN syncing) <= MaxInFlight}

\* triggerRoundFetches: every root type that is not being fetched is.
TriggerRoundFetches(block, cache) ==
  LET visited == Visited(block)
      Entry(i) == IF i \in DOMAIN syncing THEN syncing[i]
                  ELSE [outstanding |-> {}, awaitingRetry |-> RootTypes]
      Wanted(i) == Entry(i).awaitingRetry \ Entry(i).outstanding
      Scheduled(i) == [outstanding |-> Entry(i).outstanding \union Wanted(i),
                       awaitingRetry |-> Entry(i).awaitingRetry \ Wanted(i)]
  IN /\ syncing' = [i \in DOMAIN syncing \union visited |->
                      IF i \in visited THEN Scheduled(i) ELSE syncing[i]]
     /\ fetching' = fetching \union {x \in visited \X RootTypes : x[2] \in Wanted(x[1])}
     /\ panicked' = \E i \in visited : /\ Entry(i).outstanding # RootTypes
                                       /\ ~({i, (i - 1) % W} \subseteq cache)

\* Mutant: the summaries of the blocks that were missed are not fetched.
MutTakeBlock_NoHistory ==
  LET cache == hashCache \union {nextBlock, applied}
  IN /\ Waiting /\ nextBlock <= chain
     /\ nextBlock' = nextBlock + 1 /\ latest' = nextBlock
     /\ Nudge(cached, nextBlock)
     /\ hashCache' = cache /\ TriggerRoundFetches(nextBlock, cache)
     /\ UNCHANGED <<db, history, phase, synced, cached, applied, results, doneDiffs, finalizable,
                    finalizing, faults>>

\* A new block: summaries of the blocks since the last applied round come from
\* the history, and a block that is not there is fatal.
TakeBlock ==
  LET first == IF applied = UndefinedRound THEN Succ(applied) ELSE applied
      old == {i \in Rounds : first <= i /\ i < nextBlock} \ hashCache
      cache == hashCache \union old \union {nextBlock}
               \union (IF applied = UndefinedRound THEN {UndefinedRound} ELSE {})
  IN /\ Waiting /\ nextBlock <= chain
     /\ nextBlock' = nextBlock + 1 /\ latest' = nextBlock
     /\ Nudge(cached, nextBlock)
     /\ hashCache' = cache
     /\ IF \A i \in old : Known(i)
        THEN TriggerRoundFetches(nextBlock, cache)
        ELSE panicked' = TRUE /\ UNCHANGED <<syncing, fetching>>
     /\ UNCHANGED <<db, history, phase, synced, cached, applied, results, doneDiffs, finalizable,
                    finalizing, faults>>

Heartbeat ==
  /\ Waiting /\ latest # UndefinedRound
  /\ TriggerRoundFetches(latest, hashCache)
  /\ UNCHANGED <<db, history, phase, rounds, nextBlock, hashCache, results, doneDiffs, finalizable,
                 finalizing, available, faults>>

HandleDiff(item) ==
  /\ Waiting /\ item \in results
  /\ results' = results \ {item}
  /\ IF item.err
     THEN Retry(item.root) /\ UNCHANGED <<doneDiffs, fetching>>
     ELSE /\ doneDiffs' = doneDiffs \union {[root |-> item.root, fetched |-> item.fetched]}
          /\ TriggerRoundFetches(latest, hashCache)
  /\ UNCHANGED <<db, history, phase, rounds, nextBlock, hashCache, finalizable, finalizing,
                 available, faults>>

\* The result of a finalization.  When the history cannot be told, the code
\* goes on with round zero as the last one.  A failed one shuts the node down.
HandleFinalized(r, res) ==
  /\ Waiting /\ <<r, res>> \in finalizing
  /\ finalizing' = finalizing \ {<<r, res>>}
  /\ IF res = "ok"
     THEN /\ \/ Flush(r) /\ cached' = r
             \/ FlushFails(r) /\ cached' = 0
          /\ Nudge(cached', latest) /\ UNCHANGED phase
     ELSE phase' = "dead" /\ UNCHANGED <<synced, cached, checkpointed, available, faults>>
  /\ UNCHANGED <<db, chain, kept, applied, latest, nextBlock, hashCache, syncing, fetching, results,
                 doneDiffs, finalizable, panicked>>

----------------------------------------------------------------------------
(* The environment.                                                          *)

\* The consensus layer: another block of the runtime.
Commit ==
  /\ chain < MaxRound /\ chain' = chain + 1
  /\ UNCHANGED <<db, kept, checkpointed, phase, rounds, nextBlock, queues, available, panicked, faults>>

\* The executor of the same node has executed the round that comes next and
\* stored its roots itself.
ExecutorCommit ==
  /\ chain < MaxRound /\ phase = "loop" /\ HasRoot(<<chain, "state">>)
  /\ roots' = roots \union AllRoots(chain + 1)
  /\ UNCHANGED <<finalized, earliest, history, phase, rounds, nextBlock, queues, available, panicked, faults>>

\* Mutant: the handler does not look at what has been synced, nor the database
\* at what it has finalized.
MutPrune_Blind ==
  /\ phase # "down" /\ kept < chain
  /\ kept' = kept + 1
  /\ UNCHANGED <<db, chain, checkpointed, phase, rounds, nextBlock, queues, available, panicked, faults>>

\* The history's pruner asks for its earliest round; it is dropped when the
\* handler agrees.  A version that is not the earliest is skipped, and not an error.
Prune ==
  /\ phase # "down" /\ kept < chain
  /\ kept < synced
  /\ finalized # None /\ kept <= finalized
  /\ kept = earliest => kept # finalized
  /\ kept' = kept + 1
  /\ IF kept = earliest
     THEN earliest' = kept + 1 /\ roots' = roots \ AllRoots(kept)
     ELSE UNCHANGED <<earliest, roots>>
  /\ UNCHANGED <<finalized, chain, checkpointed, phase, rounds, nextBlock, queues, available,
                 panicked, faults>>

\* Only the database and the history outlive the process.
Crash ==
  /\ phase # "down" /\ Fault("crash")
  /\ phase' = "down"
  /\ synced' = DefaultUndefinedRound /\ cached' = UndefinedRound /\ applied' = UndefinedRound
  /\ latest' = UndefinedRound /\ nextBlock' = GenesisRound
  /\ hashCache' = {} /\ syncing' = <<>> /\ fetching' = {} /\ results' = {}
  /\ doneDiffs' = {} /\ finalizable' = {} /\ finalizing' = {} /\ available' = FALSE
  /\ UNCHANGED <<db, history, panicked>>

LoopStep ==
  \/ \E d \in doneDiffs : Apply(d)
  \/ \E r \in finalizable : StartFinalize(r)
  \/ TakeBlock
  \/ Heartbeat
  \/ \E item \in results : HandleDiff(item)
  \/ \E f \in finalizing : f[2] # "run" /\ HandleFinalized(f[1], f[2])

StartStep ==
  \/ Start
  \/ Initialize
  \/ \E v \in Rounds : Restore(v)
  \/ \E v \in Rounds : \E left \in SUBSET AllRoots(v) : RestoreFails(v, left)
  \/ FlushRestored

TaskStep ==
  \/ \E root \in fetching : FetchDiff(root)
  \/ \E r \in Rounds : Finalize(r)

Next ==
  /\ ~panicked
  /\ LoopStep \/ StartStep \/ TaskStep \/ Commit \/ ExecutorCommit \/ Prune \/ Crash

Spec == Init /\ [][Next]_vars

\* The chain grows, the worker and its goroutines run, and select takes every
\* event that stays ready.
FairSpec ==
  /\ Spec
  /\ WF_vars(Commit)
  /\ WF_vars(~panicked /\ StartStep)
  /\ WF_vars(~panicked /\ TaskStep)
  /\ WF_vars(~panicked /\ \E d \in doneDiffs : Apply(d))
  /\ WF_vars(~panicked /\ \E r \in finalizable : StartFinalize(r))
  /\ SF_vars(~panicked /\ TakeBlock)
  /\ SF_vars(~panicked /\ Heartbeat)
  /\ SF_vars(~panicked /\ \E item \in results : HandleDiff(item))
  /\ SF_vars(~panicked /\ \E f \in finalizing : f[2] # "run" /\ HandleFinalized(f[1], f[2]))

----------------------------------------------------------------------------
(* Properties.                                                               *)

\* The worker never dereferences a summary or an entry that is not there and
\* never misses a block of the history (node.go 1071-1075, 1232-1239, 1268).
NoPanic == ~panicked

\* A finalization never fails: "a cant-happen situation" (node.go 1300).
FinalizeNeverFails == \A f \in finalizing : f[2] # "failed"

\* What the worker and the history believe to be synced has been finalized in
\* the database, also after a crash between the two (node.go 576-586, 1282).
SyncedIsStored ==
  /\ checkpointed # None => finalized # None /\ checkpointed <= finalized
  /\ synced # DefaultUndefinedRound => finalized # None /\ synced <= finalized

\* A root that is waited for is with exactly one task, result or done diff;
\* the ones that await their retry are with none (node.go 1084-1094).
InFlightTracked ==
  phase = "loop" =>
    /\ fetching \union {x.root : x \in results} \union {d.root : d \in doneDiffs}
         = UNION {{r} \X syncing[r].outstanding : r \in DOMAIN syncing}
    /\ Cardinality(fetching) + Cardinality(results) + Cardinality(doneDiffs)
         = Cardinality(UNION {{r} \X syncing[r].outstanding : r \in DOMAIN syncing})

\* The rounds in flight stay within maxInFlightRounds and follow the last
\* applied one without a gap (node.go 1040-1056).
InFlightBounded ==
  /\ Cardinality(DOMAIN syncing) <= MaxInFlight
  /\ \A r \in DOMAIN syncing : applied # UndefinedRound => r > applied
  /\ \A r \in DOMAIN syncing : \A q \in Rounds :
       Succ(applied) <= q /\ q < r => q \in DOMAIN syncing

\* The node is registered as available only when it is at most MinDelay rounds
\* behind the block it has seen last (node.go 725-747).
AvailableIsClose == available => latest <= cached + MinDelay

\* The history keeps the block of the last stored version, from which a
\* restart goes on: "Make sure we never prune past what was synced" (node.go 1323).
PrunedIsSynced == kept # GenesisRound => finalized # None /\ kept <= finalized

\* Once faults stop, every round is fetched, applied and finalized in order
\* (node.go 1104-1112).
CaughtUp == <>[](cached = MaxRound /\ finalized = MaxRound)
=============================================================================
