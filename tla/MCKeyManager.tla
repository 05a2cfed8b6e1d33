----------------------------- MODULE MCKeyManager -----------------------------
(* The parts of the key manager's workers and of its users, side by side: the  *)
(* secrets worker with the master or the ephemeral secret, the CHURP worker,   *)
(* the access list, the client of another runtime's node, and the trust a      *)
(* worker waits for before it is available.  A behaviour runs the one chosen   *)
(* by part.                                                                    *)
EXTENDS RuntimeTrust

VARIABLES
    part,
    chain, news, enclave, w, reg, ready, policies,            \* KeyManagerSecrets
    height, schemes, events, seen, known, sub, hand, jobs, stopped, updates,      \* Churp
    nodes, committee, nodeCh, nodesCh, list, epoCh, watching, observerNodes, computeNodes,
    activeNodes, accessList, accessListByRuntime, changes,    \* KeyManagerAccess
    id, cli, made, clientNodes, last, cache, call, panicked   \* KeyManagerClient

secretsVars == <<chain, news, enclave, w, reg, ready, policies>>
churpVars == <<height, schemes, events, seen, known, sub, hand, jobs, stopped, updates>>
accessVars == <<nodes, committee, nodeCh, nodesCh, list, epoCh, watching, observerNodes, computeNodes,
                activeNodes, accessList, accessListByRuntime, changes>>
clientVars == <<id, cli, made, clientNodes, last, cache, call, panicked>>

(* The secrets worker: over epochs, with failures, restarts of the enclave,    *)
(* and changes of the policy and the committee.                                *)
Epochs == INSTANCE KeyManagerSecrets WITH
    Kinds <- {"mst"}, MaxEpoch <- 2, MaxRetries <- 1, MaxRestarts <- 0, MaxPolicies <- 0,
    Interval <- 2, StatusFirst <- TRUE
Restarts == INSTANCE KeyManagerSecrets WITH
    Kinds <- {"mst"}, MaxEpoch <- 1, MaxRetries <- 1, MaxRestarts <- 1, MaxPolicies <- 0,
    Interval <- 2, StatusFirst <- TRUE
Ephemeral == INSTANCE KeyManagerSecrets WITH
    Kinds <- {"eph"}, MaxEpoch <- 1, MaxRetries <- 1, MaxRestarts <- 0, MaxPolicies <- 1,
    Interval <- 2, StatusFirst <- TRUE
Policies == INSTANCE KeyManagerSecrets WITH
    Kinds <- {}, MaxEpoch <- 2, MaxRetries <- 0, MaxRestarts <- 1, MaxPolicies <- 1,
    Interval <- 2, StatusFirst <- TRUE

INSTANCE Churp WITH
    chain <- schemes, news <- events, Schemes <- {1}, Blocks <- 2, MaxHeight <- 5, MaxLag <- 1,
    Offsets <- {0, 1}, Delay <- 1, MaxAttempts <- 1, MaxUpdates <- 1

INSTANCE KeyManagerAccess WITH
    Nodes <- {"x", "y"}, Keys <- {1, 2}, MaxChanges <- 3, MayDropRole <- FALSE

INSTANCE KeyManagerClient WITH
    nodes <- clientNodes, Ids <- {1, 2}, ManagerPeers <- <<{10}, {20}>>, Calls <- {"a", "b"},
    Deprecated <- {"a"}, cacheSize <- 1, MaxChanges <- 3, MayUnset <- FALSE

allVars == <<part, vars, secretsVars, churpVars, accessVars, clientVars>>

-----------------------------------------------------------------------------
KeyManagerInit ==
    /\ part \in {"trust", "epochs", "restarts", "ephemeral", "policies", "churp", "access", "client"}
    /\ IF part = "trust" THEN Init ELSE Init /\ lastRound
    /\ CASE part = "ephemeral" -> Ephemeral!Init [] part = "policies" -> Policies!Init [] OTHER -> Epochs!Init
    /\ InitChurp /\ (part # "churp" => schemes[1].kind = "dealing")
    /\ InitAccess
    /\ InitClient

Trust(A) == part = "trust" /\ A /\ UNCHANGED <<part, secretsVars, churpVars, accessVars, clientVars>>
Secrets(p, A) == part = p /\ A /\ UNCHANGED <<part, vars, churpVars, accessVars, clientVars>>

KeyManagerNext ==
    \/ Trust(Next)
    \/ Secrets("epochs", Epochs!Next) \/ Secrets("restarts", Restarts!Next)
    \/ Secrets("ephemeral", Ephemeral!Next) \/ Secrets("policies", Policies!Next)
    \/ part = "churp" /\ NextChurp /\ UNCHANGED <<part, vars, secretsVars, accessVars, clientVars>>
    \/ part = "access" /\ NextAccess /\ UNCHANGED <<part, vars, secretsVars, churpVars, clientVars>>
    \/ part = "client" /\ NextClient /\ UNCHANGED <<part, vars, secretsVars, churpVars, accessVars>>

(* The fairness of RuntimeTrust and of KeyManagerSecrets.                      *)
KeyManagerSpec ==
    /\ KeyManagerInit /\ [][KeyManagerNext]_allVars
    /\ \A i \in Instances : WF_allVars(Trust(SyncTry(i))) /\ WF_allVars(Trust(SyncDone(i)))
    /\ WF_allVars(Trust(KeyManagerInitialized))
    /\ WF_allVars(~w.panic /\ (\/ Secrets("epochs", Epochs!EnclaveStart) \/ Secrets("restarts", Restarts!EnclaveStart)
                               \/ Secrets("ephemeral", Ephemeral!EnclaveStart) \/ Secrets("policies", Policies!EnclaveStart)))
    /\ WF_allVars(~w.panic /\ (\/ Secrets("epochs", Epochs!Loop) \/ Secrets("restarts", Restarts!Loop)
                               \/ Secrets("ephemeral", Ephemeral!Loop) \/ Secrets("policies", Policies!Loop)))
    /\ WF_allVars(~w.panic /\ (\/ Secrets("epochs", Epochs!Background) \/ Secrets("restarts", Restarts!Background)
                               \/ Secrets("ephemeral", Ephemeral!Background) \/ Secrets("policies", Policies!Background)))

-----------------------------------------------------------------------------
(* LIVENESS.  InitConverges of KeyManagerSecrets: once the chain settles, the  *)
(* node is registered with what its enclave last answered for the last status. *)
InitConverges == part \in {"epochs", "restarts", "ephemeral", "policies"} => Epochs!InitConverges
=============================================================================
