------------------------------ MODULE MCServices ------------------------------
(* The services of a node around its workers, side by side: the upgrade        *)
(* manager, registration, the runtime committee node, the client, gossip and   *)
(* remote calls.  A behaviour runs the one chosen by part.                     *)
EXTENDS UpgradeManager, Sequences, TLC

CONSTANTS x, y, z, v1, v2

VARIABLES
    part,
    chain, rp, w, lag, registerCh, entityCh, stopRegCh, flag, called, budget,   \* Registration
    state, blkCh, n, group, watchers, rounds, suspensions,                      \* CommitteeNode
    synced, role, pool, included, last, blockCh, sub, result, txCh, stage, tracked, blocks, stopped, \* Client
    msg, tries, numWorkers, handled, relayed, peers, initialized, known, pendingQueue, worker,
    out,                                                                        \* TopicHandler
    kind, given, pc, next, status, retries, resultCh, received, rsps, pfs, ctx, listening, heard   \* RpcCall

registrationVars == <<chain, rp, w, lag, registerCh, entityCh, stopRegCh, flag, called, budget>>
committeeVars == <<state, blkCh, n, group, watchers, rounds, suspensions>>
clientVars ==
    <<synced, role, pool, included, last, blockCh, sub, result, txCh, stage, tracked, blocks, stopped>>
topicVars == <<msg, tries, numWorkers, handled, relayed, peers, initialized, known, pendingQueue, worker, out>>
callVars == <<kind, given, pc, next, status, retries, resultCh, received, rsps, pfs, ctx, listening, heard>>
allVars == <<part, vars, registrationVars, committeeVars, clientVars, topicVars, callVars>>

-----------------------------------------------------------------------------
(* x needs a new binary and has a startup stage; y and z run in either binary  *)
(* and can be performed in place.  x and z are due in the same epoch, y in the *)
(* next one.                                                                   *)
UpgradeRuns == [d \in Descriptors |-> IF d = x THEN {v2} ELSE {v1, v2}]
UpgradeEpoch == [d \in Descriptors |-> IF d = y THEN 2 ELSE 1]
UpgradeEpochAt == [h \in 0..(MaxHeight + 1) |-> h \div 2]

Registering == INSTANCE Registration WITH
    Providers <- {"compute"}, MaxUpdates <- 2, MaxFailures <- 1, MaxLag <- 1, MaxRestarts <- 0
Crashing == INSTANCE Registration WITH
    Providers <- {"compute"}, MaxUpdates <- 2, MaxFailures <- 0, MaxLag <- 1, MaxRestarts <- 1

(* Epoch 3 activates a deployment; a query for the committee may fail.         *)
Hosting == INSTANCE CommitteeNode WITH
    chain <- state, MaxEpoch <- 4, MaxRounds <- 1, MaxSuspensions <- 1, NeedsKeyManager <- FALSE,
    Failing <- {"committee"}

(* Two callers submit the same transaction.                                    *)
Submitting == INSTANCE Client WITH
    rounds <- included, blkCh <- blockCh, pending <- tracked, Subs <- {"a", "b"},
    TxOf <- [s \in {"a", "b"} |-> 1], MaxRound <- 2, MayFail <- TRUE

Gossiping == INSTANCE TopicHandler WITH
    Incoming <- {"m", "n", "o"}, Outgoing <- {"x", "y"}, redispatchMaxWorkers <- 1,
    redispatchMaxRetries <- 1, rawMsgQueueSize <- 1

Calling == INSTANCE RpcCall WITH
    N <- 3, maxParallelRequests <- 2, maxRetries <- 1, Wanted <- 2

-----------------------------------------------------------------------------
ServicesInit ==
    /\ part \in {"upgrade", "registration", "crash", "committee", "client", "receive", "publish", "call"}
    /\ Init /\ (part # "upgrade" => binary = v1)
    /\ IF part = "crash" THEN Crashing!Init ELSE Registering!Init
    /\ Hosting!Init /\ Gossiping!Init
    /\ Submitting!Init /\ (part # "client" => role = "none")
    /\ Calling!Init /\ (part # "call" => kind = "one" /\ given = 0)

(* A step of the component of a part; the others stand still.                  *)
Registers(A) == part \in {"registration", "crash"} /\ A
Submits(A) == part = "client" /\ A
Publishes(A) == part = "publish" /\ A
Calls(A) == part = "call" /\ A

Register(A) == Registers(A) /\ UNCHANGED <<part, vars, committeeVars, clientVars, topicVars, callVars>>
Submit(A) == Submits(A) /\ UNCHANGED <<part, vars, registrationVars, committeeVars, topicVars, callVars>>
Gossip(A) == A /\ UNCHANGED <<part, vars, registrationVars, committeeVars, clientVars, callVars>>
Call(A) == Calls(A) /\ UNCHANGED <<part, vars, registrationVars, committeeVars, clientVars, topicVars>>

ServicesNext ==
    \/ /\ part = "upgrade" /\ Next
       /\ UNCHANGED <<part, registrationVars, committeeVars, clientVars, topicVars, callVars>>
    \/ Register(Registering!Next)
    \/ /\ part = "committee" /\ Hosting!Next
       /\ UNCHANGED <<part, vars, registrationVars, clientVars, topicVars, callVars>>
    \/ Submit(Submitting!Next)
    \/ Gossip(part = "receive" /\ Gossiping!In)
    \/ Gossip(Publishes(Gossiping!Out \/ Gossiping!NodesHandled \/ Gossiping!PeersChange))
    \/ Call(Calling!Next)

(* The fairness of Registration, Client, TopicHandler and RpcCall, each over   *)
(* its own variables.                                                          *)
ServicesSpec ==
    /\ ServicesInit /\ [][ServicesNext]_allVars
    /\ WF_registrationVars(Registers(Registering!Loop))
    /\ WF_registrationVars(Registers(Registering!EpochTransition))
    /\ WF_registrationVars(Registers(Registering!New))
    /\ SF_registrationVars(Registers(Registering!HeightReached))
    /\ SF_registrationVars(Registers(Registering!NewEpoch))
    /\ SF_registrationVars(Registers(Registering!ProviderUpdate))
    /\ WF_clientVars(Submits(Submitting!HandleWant)) /\ WF_clientVars(Submits(Submitting!HandleBlock))
    /\ SF_clientVars(Submits((Submitting!HandleBlock \/ Submitting!RecheckTick) /\ blocks' = <<>>))
    /\ \A s \in {"a", "b"} : WF_clientVars(Submits(Submitting!Want(s)))
    /\ WF_topicVars(Publishes(Gossiping!NodesHandled /\ ~initialized))
    /\ WF_topicVars(Publishes(Gossiping!Take /\ Gossiping!Rest))
    /\ SF_topicVars(Publishes(Gossiping!StopWaiting /\ Gossiping!Rest))
    /\ WF_topicVars(Publishes(Gossiping!PublishPending /\ Gossiping!Rest))
    /\ WF_callVars(Calls(Calling!Step)) /\ WF_callVars(Calls(Calling!Return))

-----------------------------------------------------------------------------
(* LIVENESS.  LatestRegistered of Registration: while the providers stay       *)
(* available the node stays registered, in the end with their latest hooks.    *)
LatestRegistered == part \in {"registration", "crash"} => Registering!LatestRegistered

(* INVARIANT.  HostedIsActive of CommitteeNode: once all is handled, the       *)
(* hosted runtime is the deployment that is active.                            *)
HostedIsActive == Hosting!HostedIsActive

(* LIVENESS.  TrackedAnswered of Client: a transaction whose inclusion the     *)
(* worker will see is answered, though its I/O tree is unreadable for a while. *)
TrackedAnswered == Submitting!TrackedAnswered

(* LIVENESS.  QueuedIsSent of TopicHandler: a queued message is published,     *)
(* unless known peers stay disconnected for ever.                              *)
QueuedIsSent == part = "publish" => Gossiping!QueuedIsSent

(* LIVENESS.  CallReturns of RpcCall: calls return, and none is left running.  *)
CallReturns == part = "call" => Calling!CallReturns
=============================================================================
