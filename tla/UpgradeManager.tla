---------------------------- MODULE UpgradeManager ----------------------------
(***************************************************************************)
(* The upgrade manager, go/upgrade/upgrade.go and api/api.go, on a node     *)
(* that executes blocks, crashes and is restarted with another binary.      *)
(*                                                                         *)
(* u.pending is a function from descriptors here.  The code visits it in    *)
(* the order of submission; ConsensusUpgrade below may visit it in any.     *)
(***************************************************************************)
EXTENDS Integers

CONSTANTS
  Descriptors,
  Epoch,       \* Epoch[d]: Descriptor.Epoch
  Runs,        \* Runs[d]: binaries that are compatible and have the handler
  HasStartup,  \* the descriptors whose handler has a startup stage
  Binaries,
  EpochAt,     \* EpochAt[h]: the epoch of the block at height h
  MaxHeight,   \* bound on the chain
  MaxFaults,   \* bound on crashes and failed writes of the store
  None

ASSUME UpgradeAssumption ==
  /\ MaxHeight \in Nat /\ MaxFaults \in Nat
  /\ Epoch \in [Descriptors -> Nat \ {0}]
  /\ Runs \in [Descriptors -> SUBSET Binaries]
  /\ HasStartup \subseteq Descriptors
  /\ EpochAt \in [0..(MaxHeight + 1) -> Nat]
  /\ \A h \in 0..MaxHeight : EpochAt[h] <= EpochAt[h + 1]

VARIABLES
  node,        \* "down", "starting" (before StartupUpgrade) or "running"
  binary,      \* the binary of the node
  pending,     \* u.pending
  store,       \* what the service store holds under metadataStoreKey
  shouldStop,
  calling,     \* ConsensusUpgrade holds the lock
  todo,        \* the descriptors it has yet to visit
  phase,       \* of the block being executed: "idle", "BeginBlock", "EndBlock"
  ran,         \* consensus handlers run by that block, with the phase
  height,      \* the height of the last committed block
  applied,     \* consensus handlers run by committed blocks
  migrated,    \* startup handlers run
  submitted,   \* acknowledged and not cancelled
  panicked,
  faults

vars == <<node, binary, pending, store, shouldStop, calling, todo, phase, ran, height,
          applied, migrated, submitted, panicked, faults>>

InvalidUpgradeHeight == 0

Stages == 0..2
UpgradeStageStartup == 1
UpgradeStageConsensus == 2

PendingUpgrade == [upgradeHeight : 0..(MaxHeight + 1), stage : Stages]

ASSUME NoneAssumption == None \notin PendingUpgrade

Tables == [Descriptors -> PendingUpgrade \union {None}]

Pending(table) == {d \in Descriptors : table[d] # None}

Phases == {"BeginBlock", "EndBlock"}

\* Every variable has its type; completed upgrades are never in the store
\* (upgrade.go, flushDescriptorLocked).
TypeOK ==
  /\ node \in {"down", "starting", "running"}
  /\ binary \in Binaries
  /\ pending \in Tables /\ store \in Tables
  /\ \A d \in Pending(store) : store[d].stage < UpgradeStageConsensus
  /\ shouldStop \in BOOLEAN
  /\ calling \in BOOLEAN /\ todo \subseteq Descriptors
  /\ phase \in {"idle"} \union Phases
  /\ ran \subseteq Descriptors \X Phases
  /\ height \in 0..MaxHeight
  /\ applied \subseteq Descriptors \X Phases \X (1..MaxHeight)
  /\ migrated \subseteq Descriptors
  /\ submitted \subseteq Descriptors
  /\ panicked \in BOOLEAN
  /\ faults \in 0..MaxFaults

Empty == [d \in Descriptors |-> None]

Init ==
  /\ node = "down" /\ binary \in Binaries
  /\ pending = Empty /\ store = Empty
  /\ shouldStop = FALSE /\ calling = FALSE /\ todo = {} /\ phase = "idle" /\ ran = {}
  /\ height = 0 /\ applied = {} /\ migrated = {} /\ submitted = {}
  /\ panicked = FALSE /\ faults = 0

\* Mutant: completed upgrades are kept.
MutFlushed_Keep(table) == table

\* flushDescriptorLocked: what stays pending, in memory and in the store.
Flushed(table) ==
  [d \in Descriptors |->
     IF d \in Pending(table) /\ table[d].stage >= UpgradeStageConsensus
     THEN None ELSE table[d]]

----------------------------------------------------------------------------
(* The node starts, New and checkStatus, and performs the startup stage.     *)

\* Mutant: the node still believes that it has to stop.
MutStart_KeepStop(b) ==
  /\ node = "down"
  /\ \A d \in Pending(store) : store[d].upgradeHeight # InvalidUpgradeHeight => b \in Runs[d]
  /\ node' = "starting" /\ binary' = b
  /\ pending' = Flushed(store) /\ store' = Flushed(store)
  /\ UNCHANGED <<shouldStop, calling, todo, phase, ran, height, applied, migrated, submitted,
                 panicked, faults>>

\* A binary that cannot run an upgrade in progress refuses to start.
Start(b) ==
  /\ node = "down"
  /\ \A d \in Pending(store) : store[d].upgradeHeight # InvalidUpgradeHeight => b \in Runs[d]
  /\ node' = "starting" /\ binary' = b /\ shouldStop' = FALSE
  /\ pending' = Flushed(store) /\ store' = Flushed(store)
  /\ UNCHANGED <<calling, todo, phase, ran, height, applied, migrated, submitted, panicked, faults>>

NeedsStartup ==
  {d \in Pending(pending) : /\ pending[d].upgradeHeight # InvalidUpgradeHeight
                            /\ pending[d].stage < UpgradeStageStartup}

StartupUpgrade ==
  /\ node = "starting" /\ node' = "running"
  /\ migrated' = migrated \union NeedsStartup
  /\ pending' = [d \in Descriptors |->
                   IF d \in NeedsStartup
                   THEN [pending[d] EXCEPT !.stage = UpgradeStageStartup]
                   ELSE pending[d]]
  /\ store' = Flushed(pending')
  /\ UNCHANGED <<binary, shouldStop, calling, todo, phase, ran, height, applied, submitted,
                 panicked, faults>>

\* What a crash leaves: the store, the committed chain and migrated data.
Down ==
  /\ node' = "down" /\ pending' = Empty /\ calling' = FALSE /\ todo' = {}
  /\ phase' = "idle" /\ ran' = {}
  /\ UNCHANGED <<binary, shouldStop, height, applied, submitted, panicked>>

\* Some of the handlers ran when one of them, or the write, failed.
StartupFailed ==
  /\ node = "starting" /\ faults < MaxFaults /\ faults' = faults + 1
  /\ \E some \in SUBSET NeedsStartup : migrated' = migrated \union some
  /\ Down /\ UNCHANGED store

\* A crash, or an error that makes the node panic.
Crash ==
  /\ node # "down" /\ faults < MaxFaults /\ faults' = faults + 1
  /\ Down /\ UNCHANGED <<store, migrated>>

\* The node stops between two calls, and Close writes what is pending.
Close ==
  /\ node = "running" /\ ~calling
  /\ shouldStop \/ faults < MaxFaults
  /\ faults' = IF shouldStop THEN faults ELSE faults + 1
  /\ store' = Flushed(pending)
  /\ Down /\ UNCHANGED migrated

----------------------------------------------------------------------------
(* Upgrades are submitted and cancelled.                                    *)

Idle == node = "running" /\ ~calling

\* Mutant: the descriptor is only written with the next change.
MutSubmit_NoFlush(d) ==
  /\ Idle /\ height < MaxHeight /\ EpochAt[height + 1] < Epoch[d]
  /\ d \notin Pending(pending)
  /\ pending' = [pending EXCEPT ![d] = [upgradeHeight |-> InvalidUpgradeHeight, stage |-> 0]]
  /\ submitted' = submitted \union {d}
  /\ UNCHANGED <<node, binary, store, shouldStop, calling, todo, phase, ran, height, applied,
                 migrated, panicked, faults>>

\* Governance submits upgrades for a later epoch than that of the block.
SubmitDescriptor(d) ==
  /\ Idle /\ height < MaxHeight /\ EpochAt[height + 1] < Epoch[d]
  /\ d \notin Pending(pending)
  /\ LET table == [pending EXCEPT ![d] = [upgradeHeight |-> InvalidUpgradeHeight, stage |-> 0]]
     IN  \/ /\ pending' = Flushed(table) /\ store' = Flushed(table)
            /\ submitted' = submitted \union {d} /\ UNCHANGED faults
         \/ /\ faults < MaxFaults /\ faults' = faults + 1     \* the write fails
            /\ pending' = Flushed(table) /\ UNCHANGED <<store, submitted>>
  /\ UNCHANGED <<node, binary, shouldStop, calling, todo, phase, ran, height, applied, migrated,
                 panicked>>

\* An upgrade in progress cannot be cancelled; when the write fails the
\* upgrade stays pending.
CancelUpgrade(d) ==
  /\ Idle
  /\ d \in Pending(pending) =>
       pending[d].upgradeHeight = InvalidUpgradeHeight /\ pending[d].stage = 0
  /\ pending' = Flushed([pending EXCEPT ![d] = None])
  /\ store' = pending'
  /\ submitted' = submitted \ {d}
  /\ UNCHANGED <<node, binary, shouldStop, calling, todo, phase, ran, height, applied, migrated,
                 panicked, faults>>

----------------------------------------------------------------------------
(* A block is executed; BeginBlock and EndBlock each call ConsensusUpgrade. *)

Before(p) == IF p = "BeginBlock" THEN "idle" ELSE "BeginBlock"

\* Mutant: a call that follows ErrStopForUpgrade goes on with the upgrade.
MutCall_Reenter(p) ==
  /\ Idle /\ height < MaxHeight
  /\ phase = Before(p)
  /\ phase' = p /\ calling' = TRUE /\ todo' = Pending(pending)
  /\ UNCHANGED <<node, binary, pending, store, shouldStop, ran, height, applied, migrated,
                 submitted, panicked, faults>>

\* Once the node has to stop, a call before it has stopped returns at once.
ConsensusUpgrade(p) ==
  /\ Idle /\ height < MaxHeight
  /\ phase = Before(p)
  /\ ~shouldStop
  /\ phase' = p /\ calling' = TRUE /\ todo' = Pending(pending)
  /\ UNCHANGED <<node, binary, pending, store, shouldStop, ran, height, applied, migrated,
                 submitted, panicked, faults>>

current == height + 1

InPlace(d) == binary \in Runs[d] /\ d \notin HasStartup

\* The upgrade epoch is not reached yet.
TooEarly(d) ==
  /\ pending[d].upgradeHeight = InvalidUpgradeHeight /\ EpochAt[current] < Epoch[d]
  /\ todo' = todo \ {d}
  /\ UNCHANGED <<pending, store, shouldStop, calling, phase, ran, panicked>>

\* It is, and the node has to stop: ErrStopForUpgrade ends the block.
Stop(d) ==
  /\ pending[d].upgradeHeight = InvalidUpgradeHeight /\ EpochAt[current] >= Epoch[d]
  /\ ~InPlace(d)
  /\ pending' = Flushed([pending EXCEPT ![d].upgradeHeight = current])
  /\ store' = pending'
  /\ shouldStop' = TRUE /\ calling' = FALSE /\ todo' = {}
  /\ phase' = "idle" /\ ran' = {}
  /\ UNCHANGED panicked

\* Mutant: the startup stage is not recorded for an upgrade in place.
MutProceed_NoStage(d) ==
  /\ pending[d].upgradeHeight = InvalidUpgradeHeight /\ EpochAt[current] >= Epoch[d]
  /\ InPlace(d)
  /\ pending' = Flushed([pending EXCEPT ![d].upgradeHeight = current])
  /\ store' = pending'
  /\ ran' = ran \union {<<d, phase>>} /\ todo' = todo \ {d}
  /\ UNCHANGED <<shouldStop, calling, phase, panicked>>

\* It is, and the upgrade is performed in place.  Only the height is written
\* before the handler runs.
Proceed(d) ==
  /\ pending[d].upgradeHeight = InvalidUpgradeHeight /\ EpochAt[current] >= Epoch[d]
  /\ InPlace(d)
  /\ LET table == Flushed([pending EXCEPT ![d].upgradeHeight = current])
     IN  /\ store' = table
         /\ pending' = [table EXCEPT ![d].stage = UpgradeStageStartup]
         /\ panicked' = (panicked \/ table[d].stage + 1 # UpgradeStageStartup)
  /\ ran' = ran \union {<<d, phase>>} /\ todo' = todo \ {d}
  /\ UNCHANGED <<shouldStop, calling, phase>>

\* The block of the upgrade, after it was reached before.
Perform(d) ==
  /\ pending[d].upgradeHeight = current
  /\ ran' = IF pending[d].stage < UpgradeStageConsensus
            THEN ran \union {<<d, phase>>} ELSE ran
  /\ todo' = todo \ {d}
  /\ UNCHANGED <<pending, store, shouldStop, calling, phase, panicked>>

\* Mutant: the upgrade is complete as soon as its block is seen.
MutComplete_Early(d) ==
  /\ pending[d].upgradeHeight # InvalidUpgradeHeight
  /\ pending[d].upgradeHeight <= current
  /\ pending' = [pending EXCEPT ![d].stage = UpgradeStageConsensus]
  /\ panicked' = panicked /\ todo' = todo \ {d}
  /\ UNCHANGED <<store, shouldStop, calling, phase, ran>>

\* Another block: the upgrade is complete.  The code panics when the height
\* is in the future, and PushStage when the startup stage is missing.
Complete(d) ==
  /\ pending[d].upgradeHeight \notin {InvalidUpgradeHeight, current}
  /\ pending' = [pending EXCEPT ![d].stage = UpgradeStageConsensus]
  /\ panicked' = \/ panicked
                 \/ pending[d].upgradeHeight > current
                 \/ pending[d].stage + 1 # UpgradeStageConsensus
  /\ todo' = todo \ {d}
  /\ UNCHANGED <<store, shouldStop, calling, phase, ran>>

Visit(d) ==
  /\ node = "running" /\ d \in todo
  /\ TooEarly(d) \/ Stop(d) \/ Proceed(d) \/ Perform(d) \/ Complete(d)
  /\ UNCHANGED <<node, binary, height, applied, migrated, submitted, faults>>

\* The loop is done and the table is written.
Return ==
  /\ node = "running" /\ calling /\ todo = {} /\ calling' = FALSE
  /\ pending' = Flushed(pending) /\ store' = Flushed(pending)
  /\ UNCHANGED <<node, binary, shouldStop, todo, phase, ran, height, applied, migrated,
                 submitted, panicked, faults>>

Commit ==
  /\ Idle /\ phase = "EndBlock" /\ phase' = "idle"
  /\ height' = current
  /\ applied' = applied \union {<<r[1], r[2], current>> : r \in ran} /\ ran' = {}
  /\ UNCHANGED <<node, binary, pending, store, shouldStop, calling, todo, migrated, submitted,
                 panicked, faults>>

Next ==
  \/ \E b \in Binaries : Start(b)
  \/ StartupUpgrade \/ StartupFailed \/ Crash \/ Close
  \/ \E d \in Descriptors : SubmitDescriptor(d) \/ CancelUpgrade(d) \/ Visit(d)
  \/ \E p \in Phases : ConsensusUpgrade(p)
  \/ Return \/ Commit

Spec == Init /\ [][Next]_vars

\* Blocks keep coming, and the operator of a stopped node tries the binaries.
Fairness ==
  /\ \A b \in Binaries : WF_vars(Start(b))
  /\ WF_vars(StartupUpgrade) /\ WF_vars(Close /\ shouldStop)
  /\ \A p \in Phases : WF_vars(ConsensusUpgrade(p))
  /\ \A d \in Descriptors : WF_vars(Visit(d))
  /\ WF_vars(Return) /\ WF_vars(Commit)

FairSpec == Spec /\ Fairness

----------------------------------------------------------------------------
(* Properties.                                                              *)

\* The panics of PushStage ("out of order upgrade stage execution") and of
\* ConsensusUpgrade ("UpgradeHeight is in the future") are not reached.
NoPanic == ~panicked

\* A consensus handler runs only in a binary that is meant for it and after
\* its startup stage, if it has one: a node that must stop for an upgrade
\* does not go on with it before it has stopped and been restarted.
StartupFirst ==
  \A r \in ran : binary \in Runs[r[1]] /\ (r[1] \in HasStartup => r[1] \in migrated)

Reached(d) == EpochAt[height] >= Epoch[d]

\* All nodes of the network have to perform an upgrade in the same block.
\* Whatever crashes, failed writes, restarts and replays of the block happen,
\* its effects are in the first block of the upgrade epoch and in no other,
\* and the handler took part in both BeginBlock and EndBlock.
AppliedOnce ==
  \A a \in applied :
    /\ EpochAt[a[3]] >= Epoch[a[1]] /\ EpochAt[a[3] - 1] < Epoch[a[1]]
    /\ \A p \in Phases : <<a[1], p, a[3]>> \in applied

\* The chain never gets past the upgrade epoch without the upgrade: an
\* acknowledged upgrade is not lost in a crash, and cannot be cancelled once
\* it is in progress.
NeverSkipped ==
  \A d \in submitted : Reached(d) => \E p \in Phases, h \in 1..height : <<d, p, h>> \in applied

\* An acknowledged upgrade is performed or cancelled once its epoch comes.
EventuallyApplied ==
  \A d \in Descriptors :
    d \in submitted ~> (d \notin submitted \/ \E a \in applied : a[1] = d)
=============================================================================
