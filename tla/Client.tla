--------------------------------- MODULE Client ---------------------------------
(* The runtime client (go/worker/client/committee/node.go, service.go): a      *)
(* caller submits a transaction to the pool, registers its interest with the   *)
(* node's worker and waits; the worker looks for the transactions it tracks in *)
(* every block, rechecks blocks whose I/O tree could not be read, and sends    *)
(* the results.  CheckTx and Query read and change nothing.                    *)
EXTENDS Integers, Sequences, SequencesExt, FiniteSets

CONSTANTS
    Subs,         \* subscriptions, one for each SubmitTx call
    TxOf,         \* subscription -> its transaction
    MaxRound,     \* last round of the runtime
    MayFail       \* the I/O tree may be unreadable for a while

Txs == {TxOf[s] : s \in Subs}
NoRound == 0

VARIABLES
    synced,           \* Consensus.Synced() is closed
    role,             \* the role provider: "none", "unavailable" or "available"
    pool, rounds,     \* transactions in the pool; the rounds of the included ones
    last,             \* round of the last block
    blkCh,            \* blocks synced to local storage, not taken yet
    sub,              \* subscription -> where its caller is
    result,           \* subscription -> round in the result channel
    txCh,             \* expressions of interest and their removals
    stage,            \* of worker: "new", "waiting", "running" or "quit"
    pending,          \* tx -> subscriptions that the worker tracks
    blocks,           \* taken blocks that still have to be checked
    stopped           \* stopCh is closed

clvars == <<synced, role, pool, rounds, last, blkCh, sub, result, txCh, stage, pending, blocks, stopped>>
worker == <<stage, pending, blocks>>

(* registerRuntime: client nodes have a role provider, which is unavailable.   *)
Init ==
    /\ synced = FALSE /\ role \in {"none", "unavailable"}
    /\ pool = {} /\ rounds = [t \in Txs |-> NoRound] /\ last = 0 /\ blkCh = <<>>
    /\ sub = [s \in Subs |-> "idle"] /\ result = [s \in Subs |-> NoRound]
    /\ txCh = <<>> /\ stage = "new" /\ pending = [t \in Txs |-> {}] /\ blocks = <<>>
    /\ stopped = FALSE

-----------------------------------------------------------------------------
(* SubmitTx: once consensus is synced the pool checks the transaction, then    *)
(* the interest is queued.                                                     *)
SubmitTx(s) ==
    /\ sub[s] = "idle" /\ synced
    /\ pool' = pool \cup {TxOf[s]}
    /\ sub' = [sub EXCEPT ![s] = "checked"]
    /\ UNCHANGED <<synced, role, rounds, last, blkCh, result, txCh, worker, stopped>>
(* The runtime is not hosted, consensus is not synced, the context is done or  *)
(* the check fails.                                                            *)
Refuse(s) ==
    /\ sub[s] = "idle"
    /\ sub' = [sub EXCEPT ![s] = "refused"]
    /\ UNCHANGED <<synced, role, pool, rounds, last, blkCh, result, txCh, worker, stopped>>
Want(s) ==
    /\ sub[s] = "checked"
    /\ txCh' = Append(txCh, [sub |-> s, remove |-> FALSE])
    /\ sub' = [sub EXCEPT ![s] = "waiting"]
    /\ UNCHANGED <<synced, role, pool, rounds, last, blkCh, result, worker, stopped>>
(* SubmitTxMeta has the result or its context is done, SubmitTxNoWait does not *)
(* wait; the subscription is stopped in each case.                             *)
Stop(s) ==
    /\ sub[s] = "waiting"
    /\ txCh' = Append(txCh, [sub |-> s, remove |-> TRUE])
    /\ sub' = [sub EXCEPT ![s] = IF result[s] = NoRound THEN "gone" ELSE "answered"]
    /\ UNCHANGED <<synced, role, pool, rounds, last, blkCh, result, worker, stopped>>

(* Consensus syncs (external).                                                 *)
Synced ==
    /\ ~synced /\ synced' = TRUE
    /\ UNCHANGED <<role, pool, rounds, last, blkCh, sub, result, txCh, worker, stopped>>
(* A block with some transactions of the pool, or none, is synced; no runtime  *)
(* includes a transaction twice (external).                                    *)
NewBlock(txs) ==
    /\ last < MaxRound /\ last' = last + 1
    /\ \A t \in txs : rounds[t] = NoRound
    /\ rounds' = [t \in Txs |-> IF t \in txs THEN last' ELSE rounds[t]]
    /\ blkCh' = IF stage = "running" THEN Append(blkCh, last') ELSE blkCh
    /\ UNCHANGED <<synced, role, pool, sub, result, txCh, worker, stopped>>

(* HandleRuntimeHostEventLocked: the hosted runtime started, or failed to      *)
(* start or stopped.                                                           *)
HandleRuntimeHostEvent(started) ==
    /\ role # "none"
    /\ role' = IF started THEN "available" ELSE "unavailable"
    /\ UNCHANGED <<synced, pool, rounds, last, blkCh, sub, result, txCh, worker, stopped>>

-----------------------------------------------------------------------------
outside == <<synced, role, rounds, last, sub, stopped>>

(* Start and Stop of the service.                                              *)
Start ==
    /\ stage = "new" /\ stage' = "waiting"
    /\ UNCHANGED <<outside, pool, blkCh, result, txCh, pending, blocks>>
StopNode ==
    /\ ~stopped /\ stopped' = TRUE
    /\ UNCHANGED <<synced, role, pool, rounds, last, blkCh, sub, result, txCh, worker>>

(* worker: the common node is initialized, and the blocks are watched from now *)
(* on unless that fails.                                                       *)
Watch ==
    /\ stage = "waiting" /\ stage' \in {"running", "quit"}
    /\ UNCHANGED <<outside, pool, blkCh, result, txCh, pending, blocks>>
(* The worker quits without closing the channels of the ones who wait.         *)
Quit ==
    /\ stage \in {"waiting", "running"} /\ stopped /\ stage' = "quit"
    /\ UNCHANGED <<outside, pool, blkCh, result, txCh, pending, blocks>>

(* Interest in a transaction, or its removal.                                  *)
KeptInterest(s, remove) == IF remove THEN pending ELSE [pending EXCEPT ![TxOf[s]] = @ \cup {s}]
Interest(s, remove) == [pending EXCEPT ![TxOf[s]] = IF remove THEN @ \ {s} ELSE @ \cup {s}]
HandleWant ==
    /\ stage = "running" /\ txCh # <<>>
    /\ pending' = Interest(Head(txCh).sub, Head(txCh).remove)
    /\ txCh' = Tail(txCh)
    /\ UNCHANGED <<outside, pool, blkCh, result, stage, blocks>>

(* checkBlock for the blocks at hand in their order, of which failed cannot be *)
(* read: a block is read if something is pending by then and it has inputs.    *)
Tracked == {t \in Txs : pending[t] # {}}
Found(all, failed) == {t \in Tracked : rounds[t] \in ToSet(all) \ failed}
Read(all, failed, b) ==
    /\ \E t \in Txs : rounds[t] = b
    /\ Tracked # Found(SelectSeq(all, LAMBDA a : a < b), failed)
Forget(all, failed) == <<>>
Recheck(all, failed) == SelectSeq(all, LAMBDA b : b \in failed)
CheckBlocks(all) ==
    \E failed \in SUBSET ToSet(all) :
        /\ \A b \in failed : MayFail /\ Read(all, failed, b)
        /\ LET found == Found(all, failed)
           IN  /\ result' = [s \in Subs |-> IF TxOf[s] \in found /\ s \in pending[TxOf[s]]
                                            THEN rounds[TxOf[s]] ELSE result[s]]
               /\ pending' = [t \in Txs |-> IF t \in found THEN {} ELSE pending[t]]
               /\ pool' = pool \ found
        /\ blocks' = Recheck(all, failed)
HandleBlock ==
    /\ stage = "running" /\ blkCh # <<>>
    /\ CheckBlocks(Append(blocks, Head(blkCh)))
    /\ blkCh' = Tail(blkCh)
    /\ UNCHANGED <<outside, txCh, stage>>
(* The ticker runs while there are failed blocks.                              *)
RecheckTick ==
    /\ stage = "running" /\ blocks # <<>>
    /\ CheckBlocks(blocks)
    /\ UNCHANGED <<outside, blkCh, txCh, stage>>

Next ==
    \/ \E s \in Subs : SubmitTx(s) \/ Refuse(s) \/ Want(s) \/ Stop(s)
    \/ \E txs \in SUBSET pool : NewBlock(txs)
    \/ \E started \in BOOLEAN : HandleRuntimeHostEvent(started)
    \/ Synced \/ Start \/ StopNode \/ Watch \/ Quit \/ HandleWant \/ HandleBlock \/ RecheckTick

(* The worker runs, and an I/O tree that is rechecked often enough is read.    *)
Fairness ==
    /\ WF_clvars(HandleWant) /\ WF_clvars(HandleBlock)
    /\ SF_clvars((HandleBlock \/ RecheckTick) /\ blocks' = <<>>)
    /\ \A s \in Subs : WF_clvars(Want(s))
Spec == Init /\ [][Next]_clvars /\ Fairness

-----------------------------------------------------------------------------
(* INVARIANT.  A result names the round that includes the transaction, and the *)
(* worker tracks no subscription whose removal it has handled.                 *)
Queued(s) == \E i \in DOMAIN txCh : txCh[i].sub = s
TrackingEnds ==
    \A s \in Subs :
        /\ result[s] # NoRound => result[s] = rounds[TxOf[s]]
        /\ sub[s] \in {"gone", "answered"} /\ ~Queued(s) => s \notin pending[TxOf[s]]

(* PROPERTY.  A subscription that is tracked when the block with its           *)
(* transaction arrives gets its result, however often the block has to be      *)
(* rechecked, unless the caller gives up or the node stops.                    *)
Due(s) ==
    /\ s \in pending[TxOf[s]]
    /\ rounds[TxOf[s]] \in ToSet(blocks \o blkCh)
Over(s) == result[s] # NoRound \/ sub[s] # "waiting" \/ stopped
TrackedAnswered == \A s \in Subs : Due(s) ~> Over(s)

(* PROPERTY (documented for Result).  The channel receives the result once the *)
(* transaction has been included in a block.                                   *)
IncludedAnswered == \A s \in Subs : []<>(sub[s] = "waiting" /\ rounds[TxOf[s]] # NoRound => Over(s))
=============================================================================
