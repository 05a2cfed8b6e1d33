----------------------------- MODULE RuntimeTrust -----------------------------
(***************************************************************************)
(* Availability of the executor worker: the events of the runtime host, the *)
(* goroutines that sync the runtime's light client and the registration     *)
(* role, go/worker/compute/executor/committee/{node.go,trust.go,hooks.go}.  *)
(*                                                                         *)
(* Every action but SyncTry holds the CrossNode lock.                       *)
(***************************************************************************)
EXTENDS Integers, FiniteSets

CONSTANT MaxStarts   \* bound on the starts of the runtime

ASSUME MaxStartsAssumption == MaxStarts \in Nat \ {0}

VARIABLES
  running,      \* the instance of the runtime that is running, 0 if none
  starts,       \* instances started so far
  lightClient,  \* the instances whose light client has synced
  runtimeReady,
  runtimeTrustSynced,
  syncs,        \* sync goroutines, each for the instance it was started for
  current,      \* the goroutine that runtimeTrustSyncCncl cancels, 0 if none
  keymanager,   \* the key manager client is initialized
  lastRound,    \* the state of the last round can be queried
  available     \* n.roleProvider.IsAvailable()

vars == <<running, starts, lightClient, runtimeReady, runtimeTrustSynced, syncs,
          current, keymanager, lastRound, available>>

Instances == 1..MaxStarts

Init ==
  /\ running = 0 /\ starts = 0 /\ lightClient = {}
  /\ runtimeReady = FALSE /\ runtimeTrustSynced = FALSE
  /\ syncs = [i \in Instances |-> "none"] /\ current = 0
  /\ keymanager = FALSE /\ lastRound \in BOOLEAN
  /\ available = FALSE

\* Cancelling the context ends a goroutine that is still retrying.
cancelRuntimeTrustSync(s) ==
  [i \in Instances |-> IF i = current /\ s[i] = "syncing" THEN "cancelled" ELSE s[i]]

\* Mutant: the runtime being ready is not looked at.
MutNudge_NotReady(force) ==
  available' = (lastRound' /\ runtimeTrustSynced' /\ keymanager')

\* Whether or not it is forced, the outcome is the same; a forced call only
\* repeats what the registration worker was told.
nudgeAvailability(force) ==
  available' = (runtimeReady' /\ lastRound' /\ runtimeTrustSynced' /\ keymanager')

----------------------------------------------------------------------------
(* HandleRuntimeHostEventLocked.                                            *)

\* Started: the runtime answers the request for its features.
Started ==
  /\ running = 0 /\ starts < MaxStarts
  /\ running' = starts + 1 /\ starts' = starts + 1
  /\ runtimeTrustSynced' = FALSE
  /\ runtimeReady' = TRUE
  /\ syncs' = [cancelRuntimeTrustSync(syncs) EXCEPT ![starts + 1] = "syncing"]
  /\ current' = starts + 1
  /\ UNCHANGED <<lightClient, keymanager, lastRound>>
  /\ nudgeAvailability(TRUE)

\* Started: it does not, or it has no schedule control.
StartedBroken ==
  /\ running = 0 /\ starts < MaxStarts
  /\ running' = starts + 1 /\ starts' = starts + 1
  /\ runtimeTrustSynced' = FALSE
  /\ runtimeReady' = FALSE
  /\ UNCHANGED <<syncs, current, lightClient, keymanager, lastRound>>
  /\ nudgeAvailability(TRUE)

\* Updated: the runtime refreshed its capabilities.
Updated ==
  /\ running # 0
  /\ runtimeReady' = TRUE
  /\ UNCHANGED <<running, starts, lightClient, runtimeTrustSynced, syncs, current,
                 keymanager, lastRound>>
  /\ nudgeAvailability(TRUE)

\* Stopped or FailedToStart.
Stopped ==
  /\ running # 0 /\ running' = 0
  /\ runtimeReady' = FALSE
  /\ syncs' = cancelRuntimeTrustSync(syncs) /\ current' = 0
  /\ UNCHANGED <<starts, lightClient, runtimeTrustSynced, keymanager, lastRound>>
  /\ nudgeAvailability(TRUE)

----------------------------------------------------------------------------
(* The goroutine of startRuntimeTrustSyncLocked.                            *)

\* ConsensusSync succeeds, without the lock; failures are retried.
SyncTry(i) ==
  /\ syncs[i] = "syncing" /\ running = i
  /\ syncs' = [syncs EXCEPT ![i] = "synced"]
  /\ lightClient' = lightClient \union {i}
  /\ UNCHANGED <<running, starts, runtimeReady, runtimeTrustSynced, current,
                 keymanager, lastRound, available>>

\* It gets the lock and sets the flag.
SyncDone(i) ==
  /\ syncs[i] = "synced"
  /\ syncs' = [syncs EXCEPT ![i] = "none"]
  /\ runtimeTrustSynced' = TRUE
  /\ UNCHANGED <<running, starts, lightClient, runtimeReady, current, keymanager, lastRound>>
  /\ nudgeAvailability(TRUE)

\* Mutant: the availability is left to the next block.
MutKeyManager_NoNudge ==
  /\ ~keymanager /\ keymanager' = TRUE
  /\ UNCHANGED <<running, starts, lightClient, runtimeReady, runtimeTrustSynced, syncs,
                 current, lastRound, available>>

\* The goroutine that waits for the key manager client.
KeyManagerInitialized ==
  /\ ~keymanager /\ keymanager' = TRUE
  /\ UNCHANGED <<running, starts, lightClient, runtimeReady, runtimeTrustSynced, syncs,
                 current, lastRound>>
  /\ nudgeAvailability(FALSE)

\* HandleNewBlockEarlyLocked: the state of the last round may be (un)available.
NewBlock ==
  /\ lastRound' \in BOOLEAN
  /\ UNCHANGED <<running, starts, lightClient, runtimeReady, runtimeTrustSynced, syncs,
                 current, keymanager>>
  /\ nudgeAvailability(FALSE)

Next ==
  \/ Started \/ StartedBroken \/ Updated \/ Stopped
  \/ \E i \in Instances : SyncTry(i) \/ SyncDone(i)
  \/ KeyManagerInitialized \/ NewBlock

Spec == Init /\ [][Next]_vars

\* A retried sync succeeds in the end and the lock is fair.
FairSpec ==
  /\ Spec
  /\ \A i \in Instances : WF_vars(SyncTry(i)) /\ WF_vars(SyncDone(i))
  /\ WF_vars(KeyManagerInitialized)

----------------------------------------------------------------------------
(* Properties.                                                              *)

\* The worker registers as available only while a runtime runs that told the
\* host it can serve requests, whatever late goroutine nudges last.
AvailableIsRunning == available => running # 0 /\ keymanager

\* The worker becomes available after every start that succeeds, unless the
\* runtime stops again or the last round's state stays unavailable.
EventuallyAvailable ==
  \A i \in Instances :
    (running = i /\ syncs[i] = "syncing") ~>
      (available \/ running # i \/ ~lastRound)

\* "make sure we are able to successfully sync the runtime up to the latest
\* height as otherwise request processing will fail": an available worker's
\* running instance has synced.
AvailableIsSynced == available => running \in lightClient
=============================================================================
