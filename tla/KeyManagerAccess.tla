--------------------------- MODULE KeyManagerAccess ---------------------------
(* Who may call a key manager enclave (go/worker/keymanager/acl.go,            *)
(* watcher.go, worker.go): watchers follow the registry and the committees and *)
(* rewrite the access list of the key manager runtime and of each client       *)
(* runtime; CallEnclave consults the list.                                     *)
EXTENDS Integers, Sequences, FiniteSets

CONSTANTS
    Nodes, Keys,      \* nodes; P2P keys a node may register with
    MaxChanges,       \* bound on registry and scheduler changes
    MayDropRole       \* a registration may give up the observer role

KM == "km"
RT == "rt"
Runtimes == {KM, RT}
Roles == {"observer", "keymanager", "compute"}
Gone == [role |-> "none", key |-> 0]
Peers == Nodes \X Keys

VARIABLES
    nodes, committee,   \* the registry and the executor committee (external)
    nodeCh,             \* node events
    nodesCh,            \* whether a node list (as of the last epoch) is pending
    list,               \* the node list of the last epoch
    epoCh,              \* whether an epoch is pending
    watching,           \* watchers that have started
    observerNodes, computeNodes,   \* rtNodeWatcher: node -> key, 0 when absent
    activeNodes,        \* kmNodeWatcher: node -> key, 0 when absent
    accessList, accessListByRuntime,
    changes

kmavars == <<nodes, committee, nodeCh, nodesCh, list, epoCh, watching, observerNodes, computeNodes,
             activeNodes, accessList, accessListByRuntime, changes>>
regvars == <<nodes, committee, list, changes>>
aclvars == <<accessList, accessListByRuntime>>

NoNodes == [n \in Nodes |-> 0]
InitAccess ==
    /\ nodes = [n \in Nodes |-> Gone] /\ committee = {} /\ list = nodes
    /\ nodeCh = <<>> /\ nodesCh = FALSE /\ epoCh = FALSE /\ watching = {}
    /\ observerNodes = NoNodes /\ computeNodes = NoNodes /\ activeNodes = NoNodes
    /\ accessList = [p \in Peers |-> {}] /\ accessListByRuntime = [r \in Runtimes |-> {}]
    /\ changes = 0

-----------------------------------------------------------------------------
(* Registrations, expirations and epochs (external).                           *)
Event(n) == nodeCh' = IF RT \in watching THEN Append(nodeCh, [id |-> n, dsc |-> nodes'[n]]) ELSE nodeCh
RegisterNode(n) ==
    /\ changes < MaxChanges /\ changes' = changes + 1
    /\ \E role \in Roles, key \in Keys :
        /\ nodes[n] # Gone /\ nodes[n].role # role => MayDropRole
        /\ nodes' = [nodes EXCEPT ![n] = [role |-> role, key |-> key]]
    /\ Event(n)
    /\ UNCHANGED <<committee, nodesCh, list, epoCh, watching, observerNodes, computeNodes, activeNodes>> /\ UNCHANGED aclvars
Expire(n) ==
    /\ changes < MaxChanges /\ changes' = changes + 1
    /\ nodes[n] # Gone /\ nodes' = [nodes EXCEPT ![n] = Gone]
    /\ Event(n)
    /\ UNCHANGED <<committee, nodesCh, list, epoCh, watching, observerNodes, computeNodes, activeNodes>> /\ UNCHANGED aclvars
NewEpoch ==
    /\ changes < MaxChanges /\ changes' = changes + 1
    /\ committee' \in SUBSET {n \in Nodes : nodes[n].role = "compute"}
    /\ list' = nodes
    /\ nodesCh' = (nodesCh \/ KM \in watching) /\ epoCh' = (epoCh \/ RT \in watching)
    /\ UNCHANGED <<nodes, nodeCh, watching, observerNodes, computeNodes, activeNodes>> /\ UNCHANGED aclvars

-----------------------------------------------------------------------------
(* AccessList.Update                                                           *)
Cleared(r, peers) ==
    [p \in Peers |-> IF p \in peers THEN accessList[p] \cup {r}
                     ELSE IF p \in accessListByRuntime[r] THEN accessList[p] \ {r} ELSE accessList[p]]
Update(r, peers) ==
    /\ accessList' = Cleared(r, peers)
    /\ accessListByRuntime' = [accessListByRuntime EXCEPT ![r] = peers]
PeersOf(f) == {<<n, f[n]>> : n \in {m \in Nodes : f[m] # 0}}
(* getFlatList: an observer's entry hides the same node's committee entry.     *)
FlatList(observers, compute) ==
    PeersOf([n \in Nodes |-> IF observers[n] # 0 THEN observers[n] ELSE compute[n]])
UpdateNodes == Update(RT, FlatList(observerNodes', computeNodes'))

(* kmRuntimeWatcher starts a watcher for the client runtime, which subscribes  *)
(* and then reads the registered observers; the epoch channel holds the        *)
(* current epoch.                                                              *)
Observers == [n \in Nodes |-> IF nodes[n].role = "observer" THEN nodes[n].key ELSE 0]
StartRuntimeWatcher ==
    /\ RT \notin watching
    /\ watching' = watching \cup {RT} /\ epoCh' = TRUE
    /\ UNCHANGED <<nodeCh, nodesCh, observerNodes, computeNodes, activeNodes>> /\ UNCHANGED regvars /\ UNCHANGED aclvars
ReadObservers ==
    /\ RT \in watching /\ "loop" \notin watching
    /\ watching' = watching \cup {"loop"}
    /\ observerNodes' = Observers /\ computeNodes' = computeNodes
    /\ UpdateNodes
    /\ UNCHANGED <<nodeCh, nodesCh, epoCh, activeNodes>> /\ UNCHANGED regvars

(* rtNodeWatcher.watch: an epoch.  The old members go even when the committee  *)
(* cannot be fetched; members without a descriptor are left out.               *)
Members == [n \in Nodes |-> IF n \in committee THEN nodes[n].key ELSE 0]
KeptOnError(ok) == IF ok THEN Members ELSE computeNodes
ClearedOnError(ok) == IF ok THEN Members ELSE NoNodes
HandleEpoch ==
    /\ "loop" \in watching /\ epoCh /\ epoCh' = FALSE
    /\ \E ok \in BOOLEAN : computeNodes' = ClearedOnError(ok)
    /\ observerNodes' = observerNodes
    /\ UpdateNodes
    /\ UNCHANGED <<nodeCh, nodesCh, watching, activeNodes>> /\ UNCHANGED regvars

(* A node event.  An expiration of a node that is no observer changes nothing. *)
HandleNodeEvent ==
    LET e == Head(nodeCh)
        id == e.id
    IN  /\ "loop" \in watching /\ nodeCh # <<>> /\ nodeCh' = Tail(nodeCh)
        /\ observerNodes' = [observerNodes EXCEPT ![id] =
               IF e.dsc = Gone THEN 0 ELSE IF e.dsc.role = "observer" THEN e.dsc.key ELSE @]
        /\ computeNodes' = [computeNodes EXCEPT ![id] = IF e.dsc # Gone /\ @ # 0 THEN e.dsc.key ELSE @]
        /\ UpdateNodes
        /\ UNCHANGED <<nodesCh, epoCh, watching, activeNodes>> /\ UNCHANGED regvars

(* kmNodeWatcher.watch: a node list; the descriptors are looked up then, and   *)
(* followed from then on.                                                      *)
StartNodeWatcher ==
    /\ KM \notin watching
    /\ watching' = watching \cup {KM} /\ nodesCh' = TRUE
    /\ UNCHANGED <<nodeCh, epoCh, observerNodes, computeNodes, activeNodes>> /\ UNCHANGED regvars /\ UNCHANGED aclvars
HandleNodeList ==
    /\ nodesCh /\ nodesCh' = FALSE
    /\ activeNodes' = [n \in Nodes |-> IF list[n].role = "keymanager" THEN nodes[n].key ELSE 0]
    /\ Update(KM, PeersOf(activeNodes'))
    /\ UNCHANGED <<nodeCh, epoCh, watching, observerNodes, computeNodes>> /\ UNCHANGED regvars
HandleNodeUpdate(n) ==
    /\ activeNodes[n] # 0 /\ nodes[n] # Gone /\ nodes[n].key # activeNodes[n]
    /\ activeNodes' = [activeNodes EXCEPT ![n] = nodes[n].key]
    /\ Update(KM, PeersOf(activeNodes'))
    /\ UNCHANGED <<nodeCh, nodesCh, epoCh, watching, observerNodes, computeNodes>> /\ UNCHANGED regvars

NextAccess ==
    \/ \E n \in Nodes : RegisterNode(n) \/ Expire(n) \/ HandleNodeUpdate(n)
    \/ NewEpoch
    \/ StartRuntimeWatcher \/ ReadObservers \/ HandleEpoch \/ HandleNodeEvent
    \/ StartNodeWatcher \/ HandleNodeList
AccessSpec == InitAccess /\ [][NextAccess]_kmavars

-----------------------------------------------------------------------------
(* CallEnclave: the peer takes part in a runtime of the list.                  *)
Authorized(n, k) == accessList[<<n, k>>] # {}
Quiescent ==
    /\ nodeCh = <<>> /\ ~epoCh /\ ~nodesCh
    /\ \A n \in Nodes : activeNodes[n] # 0 /\ nodes[n] # Gone => nodes[n].key = activeNodes[n]

(* INVARIANT.  Once the watchers have handled what happened, a peer is         *)
(* authorized only as a registered observer, as a member of the committee, or  *)
(* as a key manager of the last epoch's node list, and with the key of its     *)
(* current descriptor; a failed committee query authorizes nobody.             *)
AccessIsCurrent ==
    Quiescent => \A n \in Nodes, k \in Keys : Authorized(n, k) =>
        /\ \/ nodes[n].role = "observer" \/ n \in committee \/ list[n].role = "keymanager"
        /\ nodes[n] # Gone => nodes[n].key = k
=============================================================================
