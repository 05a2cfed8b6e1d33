-------------------------------- MODULE MCMkvs --------------------------------
(* What a node keeps its state in and how it gets it, side by side: the tree,  *)
(* its overlay, the migration of the node database and the storage worker that *)
(* fetches, applies and finalizes rounds.  A behaviour runs the one chosen by  *)
(* part.                                                                       *)
EXTENDS Tree

CONSTANT None      \* no round

VARIABLES
    part,
    inner, overlay, dirty, iter, view,   \* Overlay
    disk, mem, snap, m, crashes,         \* Migrate
    chain, kept, checkpointed, roots, finalized, earliest, phase, synced, cached, applied,
    latest, nextBlock, hashCache, syncing, fetching, results, doneDiffs, finalizable,
    finalizing, available, panicked, syncFaults      \* StorageSync

mergedVars == <<inner, overlay, dirty, iter, view>>
migrateVars == <<disk, mem, snap, m, crashes>>
syncVars == <<chain, kept, checkpointed, roots, finalized, earliest, phase, synced, cached, applied,
              latest, nextBlock, hashCache, syncing, fetching, results, doneDiffs, finalizable,
              finalizing, available, panicked, syncFaults>>
allVars == <<part, vars, mergedVars, migrateVars, syncVars>>

(* Keys of one and two bytes of two bits: one is a prefix of another.          *)
TreeKeys == {<<0, 1>>, <<0, 1, 0, 0>>, <<0, 0, 1, 1>>}

INSTANCE Overlay WITH Keys <- {1, 2, 3}, Values <- {1, 2}

(* Roots metadata of a known, a stale and a known root, two write logs and a   *)
(* list of updated nodes; a node shared by all versions and one of each        *)
(* version's own.                                                              *)
MigratedKinds ==
    <<"metadata", "roots", "roots", "roots", "log", "log", "updated", "multipart">>
MigratedRoots == <<0, 0, 0, 0, 4, 3, 2, 0>>
INSTANCE Migrate WITH
    Base <- 3, NumKeys <- 8, KindOf <- MigratedKinds, RootKey <- MigratedRoots, Stale <- {3},
    LastVersion <- 3, FirstKept <- 2,
    NodesOf <- [v \in 0 .. 3 |-> {"shared", ToString(v)}], flushInterval <- 1, MaxCrashes <- 3

ASSUME OverlaySettings /\ MigrationSettings

Sync == INSTANCE StorageSync WITH
    faults <- syncFaults, W <- 8, GenesisRound <- 0, MaxRound <- 2, MaxInFlight <- 2, MaxDelay <- 1,
    MinDelay <- 1, UseCheckpoints <- FALSE, Faults <- {"diff", "apply", "crash"}, MaxFaults <- 2

-----------------------------------------------------------------------------
MkvsInit ==
    /\ part \in {"tree", "overlay", "migrate", "sync"}
    /\ Init
    /\ InitOverlay /\ (part # "overlay" => inner = [k \in 1..3 |-> Absent])
    /\ InitMigration
    /\ Sync!Init

Syncing(A) == part = "sync" /\ A /\ UNCHANGED <<part, vars, mergedVars, migrateVars>>

MkvsNext ==
    \/ Syncing(Sync!Next)
    \/ /\ part = "tree" /\ Next
       /\ UNCHANGED <<part, mergedVars, migrateVars, syncVars>>
    \/ /\ part = "overlay" /\ OverlayNext
       /\ UNCHANGED <<part, vars, migrateVars, syncVars>>
    \/ /\ part = "migrate" /\ MigrationNext
       /\ UNCHANGED <<part, vars, mergedVars, syncVars>>
    \/ part = "migrate" /\ UNCHANGED allVars      \* it ends

(* The fairness of StorageSync's FairSpec.                                     *)
MkvsSpec ==
    /\ MkvsInit /\ [][MkvsNext]_allVars
    /\ WF_allVars(Syncing(Sync!Commit))
    /\ WF_allVars(Syncing(~panicked /\ Sync!StartStep))
    /\ WF_allVars(Syncing(~panicked /\ Sync!TaskStep))
    /\ WF_allVars(Syncing(~panicked /\ \E d \in doneDiffs : Sync!Apply(d)))
    /\ WF_allVars(Syncing(~panicked /\ \E r \in finalizable : Sync!StartFinalize(r)))
    /\ SF_allVars(Syncing(~panicked /\ Sync!TakeBlock))
    /\ SF_allVars(Syncing(~panicked /\ Sync!Heartbeat))
    /\ SF_allVars(Syncing(~panicked /\ \E item \in results : Sync!HandleDiff(item)))
    /\ SF_allVars(Syncing(~panicked /\ \E f \in finalizing : f[2] # "run" /\ Sync!HandleFinalized(f[1], f[2])))

-----------------------------------------------------------------------------
(* LIVENESS.  CaughtUp of StorageSync: once faults stop, every round is        *)
(* fetched, applied and finalized.                                             *)
CaughtUp == part = "sync" => Sync!CaughtUp
=============================================================================
