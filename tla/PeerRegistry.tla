------------------------------ MODULE PeerRegistry ------------------------------
(* The peers known from the registry (go/p2p/peermgmt/registry.go, node.go):   *)
(* a node list on every epoch transition and single registrations in between,  *)
(* on separate channels, indexed by the protocols (and topics) that the node   *)
(* handlers derive from a descriptor; plus the connection manager's tags for   *)
(* important peers (go/p2p/peermgmt/tagger.go).                                *)
EXTENDS Integers, Sequences, FiniteSets

CONSTANTS
    PeerIds, Protocols, Addresses,
    MaxChanges     \* bound: registrations and epochs

VARIABLES
    registered,      \* the chain: peer -> descriptor, for registered nodes
    nodeListCh, nodeCh,
    peers,           \* peer -> address
    protocolPeers,   \* protocol -> peers
    applied,         \* peer -> the descriptor last handled
    found,           \* a search: what is left to send
    sent,            \* the address it sent last
    tags,            \* peers the tagger remembers as important
    tagged,          \* peers the connection manager has tagged
    changes

prvars == <<registered, nodeListCh, nodeCh, peers, protocolPeers, applied, found, sent, tags, tagged, changes>>
dirvars == <<peers, protocolPeers, applied>>
searchvars == <<found, sent, tags, tagged>>

Empty == <<>>
(* f, and g where f has no entry.                                              *)
Over(f, g) == [p \in DOMAIN f \cup DOMAIN g |-> IF p \in DOMAIN f THEN f[p] ELSE g[p]]
One(p, d) == [q \in {p} |-> d]
NoSearch == {}
Descriptors == [addr : Addresses, protocols : SUBSET Protocols]

InitRegistry ==
    /\ registered = Empty /\ nodeListCh = <<>> /\ nodeCh = <<>>
    /\ peers = Empty /\ applied = Empty /\ protocolPeers = [r \in Protocols |-> {}]
    /\ found = NoSearch /\ sent = <<>> /\ tags = {} /\ tagged = {} /\ changes = 0

(* The chain.  A node that leaves is only missing from the next list.          *)
Register(p, d) ==
    /\ changes < MaxChanges /\ changes' = changes + 1
    /\ registered' = Over(One(p, d), registered)
    /\ nodeCh' = Append(nodeCh, <<p, d>>)
    /\ UNCHANGED <<nodeListCh, dirvars, searchvars>>
NewEpoch ==
    /\ changes < MaxChanges /\ changes' = changes + 1
    /\ \E S \in SUBSET DOMAIN registered : registered' = [p \in S |-> registered[p]]
    /\ nodeListCh' = Append(nodeListCh, registered')
    /\ UNCHANGED <<nodeCh, dirvars, searchvars>>

-----------------------------------------------------------------------------
(* handleNodes: the old protocols of a node are removed before the new ones    *)
(* are added.                                                                  *)
Added(index, nodes) == [r \in Protocols |-> index[r] \cup {p \in DOMAIN nodes : r \in nodes[p].protocols}]
Replaced(index, nodes) == [r \in Protocols |-> (index[r] \ DOMAIN nodes) \cup {p \in DOMAIN nodes : r \in nodes[p].protocols}]
handleNodes(index, addrs, descs, nodes) ==
    /\ protocolPeers' = Replaced(index, nodes)
    /\ peers' = Over([p \in DOMAIN nodes |-> nodes[p].addr], addrs)
    /\ applied' = Over(nodes, descs)

(* watch: either channel, in any order.                                        *)
WatchList ==
    /\ nodeListCh # <<>> /\ nodeListCh' = Tail(nodeListCh)
    /\ handleNodes([r \in Protocols |-> {}], Empty, Empty, Head(nodeListCh))
    /\ UNCHANGED <<registered, nodeCh, searchvars, changes>>
WatchNode ==
    /\ nodeCh # <<>> /\ nodeCh' = Tail(nodeCh)
    /\ handleNodes(protocolPeers, peers, applied, One(Head(nodeCh)[1], Head(nodeCh)[2]))
    /\ UNCHANGED <<registered, nodeListCh, searchvars, changes>>

(* findPeers: the ids are copied, the addresses looked up when they are sent.  *)
findPeers(r) ==
    /\ found' = protocolPeers[r]
    /\ UNCHANGED <<registered, nodeListCh, nodeCh, dirvars, sent, tags, tagged, changes>>
SendPeer(p) ==
    /\ p \in found /\ found' = found \ {p}
    /\ sent' = IF p \in DOMAIN peers THEN <<p, peers[p]>> ELSE sent
    /\ UNCHANGED <<registered, nodeListCh, nodeCh, dirvars, tags, tagged, changes>>

(* SetPeerImportance: new tags first, then the tags of the others are removed. *)
SetPeerImportance(S) ==
    /\ tagged' = (tagged \cup S) \ (tags \ S)
    /\ tags' = S
    /\ UNCHANGED <<registered, nodeListCh, nodeCh, dirvars, found, sent, changes>>

NextRegistry ==
    \/ \E p \in PeerIds, d \in Descriptors : Register(p, d)
    \/ NewEpoch \/ WatchList \/ WatchNode
    \/ \E r \in Protocols : findPeers(r)
    \/ \E p \in PeerIds : SendPeer(p)
    \/ \E S \in SUBSET PeerIds : SetPeerImportance(S)
RegistrySpec == InitRegistry /\ [][NextRegistry]_prvars

-----------------------------------------------------------------------------
(* INVARIANT.  The indices agree with the descriptors that were handled last:  *)
(* a peer is found under exactly the protocols of its latest descriptor and    *)
(* has its address (handleNodes, clearNodes).                                  *)
IndexFollows ==
    /\ DOMAIN peers = DOMAIN applied
    /\ \A p \in DOMAIN applied : peers[p] = applied[p].addr
    /\ \A r \in Protocols : protocolPeers[r] = {p \in DOMAIN applied : r \in applied[p].protocols}
    /\ tagged = tags

(* INVARIANT.  When both channels are empty the peers are those registered.    *)
Converges == nodeListCh = <<>> /\ nodeCh = <<>> => \A p \in DOMAIN registered : p \in DOMAIN applied /\ applied[p] = registered[p]

=============================================================================
