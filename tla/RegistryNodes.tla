----------------------------- MODULE RegistryNodes -----------------------------
(* Node descriptors in the registry (go/registry/api/{api,admission,           *)
(* sanity_check,status}.go): the checks of a registration, of its update, of   *)
(* the admission policies of its runtimes, and of a genesis document.          *)
EXTENDS Naturals, FiniteSets, Sequences

CONSTANTS
    Ids,            \* node identifiers
    Candidates,     \* descriptors that may be submitted
    EntityNodes,    \* entity -> the nodes on its list
    Runtimes,       \* runtime -> [kind, tee, deployments]
    Whitelist,      \* runtime -> entity -> role -> MaxNodes; EntityWhitelist
    PerRole,        \* runtime -> role -> entity -> MaxNodes (0: any); PerRole
    MaxExpiration,  \* params.MaxNodeExpiration
    MaxEpoch,       \* bound on epochs
    GenesisSize     \* nodes in the genesis document, at most

VARIABLES epoch, nodes

nvars == <<epoch, nodes>>

NoNode == [id |-> "none"]
NoVersion == 0
RuntimesRequiredRoles == {"compute", "keymanager", "storage"}
Allowed(kind) == IF kind = "keymanager" THEN {"keymanager"} ELSE {"compute", "observer"}

Registered == {nodes[i] : i \in Ids} \ {NoNode}
HasRoles(n, roles) == n.roles \cap roles # {}   \* any of them
IsExpired(n) == n.expiration < epoch
SubKeys(n) == {n.consensus, n.p2p, n.tls, n.vrf}
HasRuntime(n, r) == \E x \in n.runtimes : x.id = r

ActiveVersion(r) ==
    LET due == {d \in Runtimes[r].deployments : d.from <= epoch}
    IN IF due = {} THEN NoVersion
       ELSE (CHOOSE d \in due : \A x \in due : x.from <= d.from).version

-----------------------------------------------------------------------------
(* VerifyRegisterNodeArgs: signatures of the node and of each of its keys, and *)
(* of nobody else.                                                             *)
VerifySigners(n) == n.signers = {n.id} \cup SubKeys(n)

(* VerifyNodeRuntimeEnclaveIDs; attestation evidence is taken to verify.       *)
VerifyEnclave(x) ==
    /\ x.tee = Runtimes[x.id].tee
    /\ x.tee = "sgx" => \E d \in Runtimes[x.id].deployments : d.version = x.version

(* Its runtimes: known, each version once, of a kind its roles allow.          *)
VerifyRuntimes(n, genesis) ==
    /\ n.runtimes = {} => ~HasRoles(n, RuntimesRequiredRoles)
    /\ \A x \in n.runtimes :
        /\ x.id \in DOMAIN Runtimes
        /\ \A y \in n.runtimes : x.id = y.id /\ x.version = y.version => x = y
        /\ ~genesis => VerifyEnclave(x)
        /\ HasRoles(n, Allowed(Runtimes[x.id].kind))

(* Its keys: different from each other, and no other node is found by them.    *)
VerifySubKeys(n, found) ==
    /\ Cardinality(SubKeys(n)) = 4
    /\ \A m \in found : m.id = n.id

BySubKey(n) == {m \in Registered : SubKeys(n) \cap SubKeys(m) # {}}

VerifyRegisterNodeArgs(n) ==
    /\ VerifySigners(n)
    /\ n.entity \in DOMAIN EntityNodes /\ n.id \in EntityNodes[n.entity]
    /\ n.expiration <= epoch + MaxExpiration
    /\ VerifyRuntimes(n, FALSE)
    /\ VerifySubKeys(n, BySubKey(n))

-----------------------------------------------------------------------------
(* verifyNodeRuntimeChanges: no runtime goes away; a version does only when it *)
(* is older than the active one or no longer deployed; its TEE does not change.*)
VerifyRuntimeChanges(cur, new) ==
    \A x \in cur.runtimes :
        /\ HasRuntime(new, x.id)
        /\ \/ \E y \in new.runtimes : y.id = x.id /\ y.version = x.version /\ y.tee = x.tee
           \/ /\ \A y \in new.runtimes : ~(y.id = x.id /\ y.version = x.version)
              /\ \/ ActiveVersion(x.id) = NoVersion
                 \/ x.version < ActiveVersion(x.id)
                 \/ \A d \in Runtimes[x.id].deployments : d.version # x.version

VerifyNodeUpdate(cur, new) ==
    /\ cur.entity = new.entity /\ cur.consensus = new.consensus
    /\ ~IsExpired(cur) =>
        /\ VerifyRuntimeChanges(cur, new)
        /\ HasRoles(new, cur.roles)

-----------------------------------------------------------------------------
(* verifyNodeCountWithRoleForRuntime.                                          *)
OthersWithRole(n, r, role) ==
    {m \in Registered : /\ m.entity = n.entity /\ m.id # n.id /\ ~IsExpired(m)
                        /\ HasRuntime(m, r) /\ role \in m.roles}

CountedBefore(n, r, role, max) == Cardinality(OthersWithRole(n, r, role)) <= max

VerifyNodeCount(n, r, role, max) ==
    OthersWithRole(n, r, role) # {} => Cardinality(OthersWithRole(n, r, role)) + 1 <= max

(* EntityWhitelistRuntimeAdmissionPolicy.Verify: an empty map means any.       *)
VerifyWhitelist(n, r) ==
    r \in DOMAIN Whitelist =>
        /\ n.entity \in DOMAIN Whitelist[r]
        /\ LET max == Whitelist[r][n.entity]
           IN DOMAIN max # {} =>
                \A role \in n.roles : /\ role \in DOMAIN max /\ max[role] > 0
                                      /\ VerifyNodeCount(n, r, role, max[role])

(* PerRoleAdmissionPolicy.Verify, for the roles that have one.                 *)
VerifyPerRole(n, r) ==
    r \in DOMAIN PerRole =>
        \A role \in n.roles \cap DOMAIN PerRole[r] :
            /\ n.entity \in DOMAIN PerRole[r][role]
            /\ LET max == PerRole[r][role][n.entity]
               IN max > 0 => VerifyNodeCount(n, r, role, max)

VerifyAdmission(n) ==
    \A x \in n.runtimes : VerifyWhitelist(n, x.id) /\ VerifyPerRole(n, x.id)

-----------------------------------------------------------------------------
(* SanityCheckNodes: the nodes of a genesis document are checked one after the *)
(* other; its lookup holds three keys of each node that passed.                *)
GenesisLookup(done, n) == {m \in done : SubKeys(n) \cap {m.consensus, m.p2p, m.tls} # {}}

GenesisNodeOK(n, done) ==
    /\ VerifySigners(n)
    /\ n.entity \in DOMAIN EntityNodes /\ n.id \in EntityNodes[n.entity]
    /\ n.expiration <= 1 + MaxExpiration
    /\ VerifyRuntimes(n, TRUE)
    /\ VerifySubKeys(n, GenesisLookup(done, n))

SanityCheckNodes(doc) ==
    \A i \in DOMAIN doc : GenesisNodeOK(doc[i], {doc[j] : j \in 1 .. (i - 1)})

Documents ==
    {doc \in UNION {[1 .. k -> Candidates] : k \in 0 .. GenesisSize} :
        \A i, j \in DOMAIN doc : i # j => doc[i].id # doc[j].id}

InitNodes ==
    /\ epoch = 1
    /\ \E doc \in Documents :
        /\ SanityCheckNodes(doc)
        /\ nodes = [i \in Ids |-> IF \E j \in DOMAIN doc : doc[j].id = i
                                  THEN doc[CHOOSE j \in DOMAIN doc : doc[j].id = i]
                                  ELSE NoNode]

(* An accepted RegisterNode transaction.                                       *)
RegisterNode(n) ==
    /\ VerifyRegisterNodeArgs(n)
    /\ VerifyAdmission(n)
    /\ nodes[n.id] # NoNode => VerifyNodeUpdate(nodes[n.id], n)
    /\ nodes' = [nodes EXCEPT ![n.id] = n]
    /\ UNCHANGED epoch

NodesEpoch ==
    /\ epoch < MaxEpoch
    /\ epoch' = epoch + 1
    /\ UNCHANGED nodes

(* An expired node whose debonding period has passed is removed.               *)
RemoveNode(i) ==
    /\ nodes[i] # NoNode /\ IsExpired(nodes[i])
    /\ nodes' = [nodes EXCEPT ![i] = NoNode]
    /\ UNCHANGED epoch

NextNodes ==
    \/ NodesEpoch
    \/ \E n \in Candidates : RegisterNode(n)
    \/ \E i \in Ids : RemoveNode(i)

NodesSpec == InitNodes /\ [][NextNodes]_nvars

-----------------------------------------------------------------------------
(* INVARIANT.  "Make sure that the consensus, TLS, P2P, and VRF keys are       *)
(* unique (between themselves and compared to other nodes)": through updates,  *)
(* expirations and removals, no two nodes in the registry share a key.         *)
SubKeysUnique ==
    \A m, n \in Registered : m # n => SubKeys(m) \cap SubKeys(n) = {}

(* INVARIANT.  An entity never has more live nodes in a role of a runtime than *)
(* the admission policy of the runtime allows it.                              *)
AdmissionRespected ==
    LET Live(r, e, role) == {m \in Registered : /\ m.entity = e /\ ~IsExpired(m)
                                                /\ HasRuntime(m, r) /\ role \in m.roles}
    IN /\ \A r \in DOMAIN Whitelist : \A e \in DOMAIN Whitelist[r] :
            \A role \in DOMAIN Whitelist[r][e] :
                Cardinality(Live(r, e, role)) <= Whitelist[r][e][role]
       /\ \A r \in DOMAIN PerRole : \A role \in DOMAIN PerRole[r] :
            \A e \in DOMAIN PerRole[r][role] :
                PerRole[r][role][e] > 0 => Cardinality(Live(r, e, role)) <= PerRole[r][role][e]
=============================================================================
