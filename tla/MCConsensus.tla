------------------------------ MODULE MCConsensus ------------------------------
(* The state machines whose rules the consensus layer applies, side by side:   *)
(* the commitment pool, the registry's runtimes and nodes, the staking ledger, *)
(* commission schedules, governance and vaults.  They do not interact at this  *)
(* level: a behaviour runs the one chosen by part and leaves the others alone. *)
EXTENDS CommitmentPool

CONSTANTS n1, n2, n3, n4, good, bad, none, msg

VARIABLES
    part,
    now, limit, runtimes, past,                           \* RegistryRuntimes
    nodesEpoch, nodes,                                    \* RegistryNodes
    ledgerEpoch, general, common, active, debonding, delegations, debonds, claims,   \* Staking, escrow
    commissionEpoch, minRate, schedule,                   \* Staking, commission schedule
    governanceEpoch, params, proposals, upgrades, deposits,   \* Governance
    height, vault, actions, address, executed, taken      \* Vault

runtimeVars == <<now, limit, runtimes, past>>
nodeVars == <<nodesEpoch, nodes>>
ledgerVars == <<ledgerEpoch, general, common, active, debonding, delegations, debonds, claims>>
commissionVars == <<commissionEpoch, minRate, schedule>>
governanceVars == <<governanceEpoch, params, proposals, upgrades, deposits>>
vaultVars == <<height, vault, actions, address, executed, taken>>
allVars == <<part, vars, runtimeVars, nodeVars, ledgerVars, commissionVars, governanceVars, vaultVars>>

-----------------------------------------------------------------------------
(* Two workers, of which n2 is also a backup worker, and two more backups.     *)
PoolNodes == {n1, n2, n3, n4}
PoolWorkers == <<n1, n2>>
PoolBackups == <<n2, n3, n4>>
PoolMessages == {none, msg}
PoolEmits == [h \in Hashes |-> IF h = bad THEN msg ELSE none]

(* Registry: every schedule of deployments for an SGX runtime, and every other *)
(* shape of a descriptor with a short one.                                     *)
Deployments == [version : 1 .. 3, from : 1 .. 4, tee : {"enclaves"}]
Descriptor(i, kind, km, gov, tee, ds) ==
    [id |-> i, kind |-> kind, km |-> km, governance |-> gov, tee |-> tee, deployments |-> ds]
RuntimeDescriptors ==
    {Descriptor("rt", "compute", "none", "entity", "sgx", ds) :
        ds \in {x \in SUBSET Deployments : Cardinality(x) \in 1 .. 3}}
    \cup {Descriptor(i, kind, km, gov, tee, {[version |-> 1, from |-> f, tee |-> dt]}) :
            i \in {"rt", "km"}, kind \in {"compute", "keymanager"}, km \in {"none", "km"},
            gov \in {"entity", "runtime"}, tee \in {"sgx", "none"}, f \in {2, 3},
            dt \in {"enclaves", "none"}}

INSTANCE RegistryRuntimes WITH
    Computes <- {"rt"}, KeyManagers <- {"km"}, Descriptors <- RuntimeDescriptors,
    MaxEpoch <- 4, Limits <- {2, 3}

(* Two nodes of an entity that may share keys, with one node of each role      *)
(* allowed in runtime a and one observer in runtime b.                         *)
NodeRuntimes ==
    [a |-> [kind |-> "compute", tee |-> "sgx",
            deployments |-> {[version |-> 1, from |-> 1], [version |-> 2, from |-> 3]}],
     b |-> [kind |-> "compute", tee |-> "none", deployments |-> {[version |-> 1, from |-> 1]}]]
Versions(vs) == {[id |-> "a", version |-> v, tee |-> "sgx"] : v \in vs}
Plain == [id |-> "b", version |-> 1, tee |-> "none"]
ConsensusKey == [n1 |-> "c1", n2 |-> "c2"]
TLSKey == [n1 |-> "t1", n2 |-> "t2"]
NodeDescriptor(i, p2p, vrf, roles, exp, rts) ==
    [id |-> i, entity |-> "e", expiration |-> exp, roles |-> roles, runtimes |-> rts,
     consensus |-> ConsensusKey[i], p2p |-> p2p, tls |-> TLSKey[i], vrf |-> vrf,
     signers |-> {i, ConsensusKey[i], p2p, TLSKey[i], vrf}]
Signed ==
    {NodeDescriptor(i, p2p, vrf, roles, exp, rts) :
        i \in {"n1", "n2"}, p2p \in {"p1", "p2"}, vrf \in {"v1", "v2"},
        roles \in {{"compute"}, {"observer"}, {"compute", "observer"}}, exp \in {2, 3},
        rts \in {Versions({1, 2}), Versions({2}), {Plain}}}
NodeDescriptors ==
    Signed \cup {[n EXCEPT !.signers = @ \ {n.id}] : n \in {m \in Signed : m.vrf = "v1" /\ m.p2p = "p1"}}
           \cup {[n EXCEPT !.runtimes = {}] : n \in {m \in Signed : m.expiration = 2}}

INSTANCE RegistryNodes WITH
    epoch <- nodesEpoch, Ids <- {"n1", "n2"}, Candidates <- NodeDescriptors,
    EntityNodes <- [e |-> {"n1", "n2"}], Runtimes <- NodeRuntimes,
    Whitelist <- [a |-> [e |-> [compute |-> 1, observer |-> 1]]],
    PerRole <- [b |-> [observer |-> [e |-> 1]]],
    MaxExpiration <- 2, MaxEpoch <- 4, GenesisSize <- 1

(* Amendments with starts on and off the change interval, and every order of   *)
(* two steps.                                                                  *)
RateSteps == [start : {2, 3, 4, 6}, rate : 0 .. 1]
BoundSteps == {x \in [start : {2, 3, 4, 6}, min : 0 .. 1, max : 0 .. 1] : x.min <= x.max}
UpTo2(S) == {<<>>} \cup {<<s>> : s \in S} \cup {<<s, t>> : s, t \in {x \in S : x.start % 2 = 0}}
Schedules == {x \in [rates : UpTo2(RateSteps), bounds : UpTo2(BoundSteps)] : Len(x.rates) + Len(x.bounds) <= 3}

INSTANCE Staking WITH
    epoch <- ledgerEpoch, Delegators <- {"d1", "d2"}, Funds <- 2, Nodes <- {"n1"},
    NodeRoles <- {{"compute"}, {"validator"}},
    Thresholds <- [entity |-> 1, validator |-> 1, compute |-> 2], MaxEpoch <- 1, MaxShares <- 4,
    MaxAmount <- 2, now <- commissionEpoch, Amendments <- Schedules, Interval <- 2, Lead <- 2, MaxRates <- 3,
    MaxBounds <- 2, MinRates <- {0, 1}, Unity <- 1, LastEpoch <- 5

(* Three of four votes are 75 percent, two of three would be 66.               *)
Proposals == INSTANCE Governance WITH
    epoch <- governanceEpoch, pending <- upgrades, StakeThreshold <- 67, Stake <- [v1 |-> 3, v2 |-> 1],
    Params <- {[voting |-> 1, minDiff |-> 2, cancelDiff |-> 2], [voting |-> 1, minDiff |-> 2, cancelDiff |-> 3],
               [voting |-> 2, minDiff |-> 2, cancelDiff |-> 3]},
    MaxProposals <- 3, MaxEpoch <- 5

Authority(as, t) == [addresses |-> as, threshold |-> t]
VaultActions ==
    [kind : {"suspend", "resume"}]
    \cup [kind : {"policy"}, policy : [limit : {3}, interval : {2, 3}]]
    \cup [kind : {"authority"}, admin : {{Authority({"b", "c"}, 2)}, {Authority({"c"}, 2)}}, suspend : {{}}]
    \cup [kind : {"authority"}, admin : {{}}, suspend : {{Authority({"a", "c"}, 1)}}]

INSTANCE Vault WITH
    pending <- actions, Addresses <- {"a", "b", "c"}, MaxAddresses <- 2, Actions <- VaultActions,
    Initial <- [admin |-> Authority({"a", "b"}, 2), suspend |-> Authority({"c"}, 1),
                policy |-> [limit |-> 2, interval |-> 2]],
    Amounts <- {1, 2}, MaxNonce <- 1, MaxHeight <- 3

-----------------------------------------------------------------------------
ConsensusInit ==
    /\ part \in {"pool", "runtimes", "nodes", "ledger", "commission", "governance", "vault"}
    /\ Init
    /\ InitRuntimes /\ (part # "runtimes" => limit = 2)
    /\ InitNodes /\ (part # "nodes" => \A i \in DOMAIN nodes : nodes[i] = NoNode)
    /\ InitLedger
    /\ InitSchedule /\ (part # "commission" => minRate = 0)
    /\ IF part = "governance" THEN Proposals!Init
       ELSE governanceEpoch = 0 /\ params = 0 /\ proposals = 0 /\ upgrades = 0 /\ deposits = 0
    /\ InitVault

Pool(A) == part = "pool" /\ A /\ UNCHANGED <<part, runtimeVars, nodeVars, ledgerVars, commissionVars, governanceVars, vaultVars>>

ConsensusNext ==
    \/ Pool(Next)
    \/ /\ part = "runtimes" /\ NextRuntimes
       /\ UNCHANGED <<part, vars, nodeVars, ledgerVars, commissionVars, governanceVars, vaultVars>>
    \/ /\ part = "nodes" /\ NextNodes
       /\ UNCHANGED <<part, vars, runtimeVars, ledgerVars, commissionVars, governanceVars, vaultVars>>
    \/ /\ part = "ledger" /\ NextLedger
       /\ UNCHANGED <<part, vars, runtimeVars, nodeVars, commissionVars, governanceVars, vaultVars>>
    \/ /\ part = "commission" /\ NextSchedule
       /\ UNCHANGED <<part, vars, runtimeVars, nodeVars, ledgerVars, governanceVars, vaultVars>>
    \/ /\ part = "governance" /\ Proposals!Next
       /\ UNCHANGED <<part, vars, runtimeVars, nodeVars, ledgerVars, commissionVars, vaultVars>>
    \/ /\ part = "vault" /\ NextVault
       /\ UNCHANGED <<part, vars, runtimeVars, nodeVars, ledgerVars, commissionVars, governanceVars>>

(* The consensus layer re-arms the round timer while the round is open.        *)
ConsensusSpec == ConsensusInit /\ [][ConsensusNext]_allVars /\ WF_allVars(Pool(Timeout))

-----------------------------------------------------------------------------
(* LIVENESS.  RoundDecided of the commitment pool: while the round timer keeps *)
(* expiring, the round is finalized or failed.                                 *)
PoolDecides == part = "pool" => RoundDecided


(* INVARIANT.  PendingRecovered of Governance: the pending upgrades follow     *)
(* from the proposals, which pass the genesis checks.                          *)
PendingRecovered == part = "governance" => Proposals!PendingRecovered
=============================================================================
