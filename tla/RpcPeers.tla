-------------------------------- MODULE RpcPeers --------------------------------
(* The peers of one RPC protocol (go/p2p/rpc/peermgmt.go): connections and     *)
(* protocol changes arrive as events, disconnections as callbacks, callers     *)
(* report how peers behaved, and subscribers follow the updates.               *)
EXTENDS Integers, Sequences, FiniteSets

CONSTANTS
    PeerIds,
    MaxEvents       \* bound: connections, protocol changes and bad reports

VARIABLES
    connected,      \* peers with an open connection
    supports,       \* peerstore: connected peers known to support the protocol
    blocked,        \* peers BlockPeer has blocked
    events,         \* sub.Out(): identification and protocol events, in order
    callbacks,      \* DisconnectedF calls that have not run yet
    peers, ignoredPeers,
    updates,        \* peer updates not yet received by the subscriber
    view,           \* peers as the subscriber sees them
    count

rpvars == <<connected, supports, blocked, events, callbacks, peers, ignoredPeers, updates, view, count>>
hostvars == <<connected, supports, blocked, events, count>>
mgrvars == <<peers, ignoredPeers, updates>>

InitPeers ==
    /\ connected = {} /\ supports = {} /\ blocked = {} /\ events = <<>> /\ callbacks = {}
    /\ peers = {} /\ ignoredPeers = {} /\ updates = <<>> /\ view = {} /\ count = 0

(* The host (libp2p).                                                          *)
Identified(p) ==
    /\ p \notin connected \cup blocked /\ count < MaxEvents
    /\ connected' = connected \cup {p}
    /\ supports' \in {supports \cup {p}, supports \ {p}}
    /\ events' = Append(events, <<"identified", p>>)
    /\ count' = count + 1
    /\ UNCHANGED <<blocked, callbacks, mgrvars, view>>
ProtocolsUpdated(p) ==
    /\ p \in connected /\ count < MaxEvents
    /\ supports' = IF p \in supports THEN supports \ {p} ELSE supports \cup {p}
    /\ events' = Append(events, <<IF p \in supports THEN "removed" ELSE "added", p>>)
    /\ count' = count + 1
    /\ UNCHANGED <<connected, blocked, callbacks, mgrvars, view>>
Disconnected(p) ==
    /\ p \in connected
    /\ connected' = connected \ {p} /\ callbacks' = callbacks \cup {p}
    /\ UNCHANGED <<supports, blocked, events, mgrvars, view, count>>

-----------------------------------------------------------------------------
NotKnown(p) == p \notin peers
MayAdd(p) == p \notin peers /\ p \notin ignoredPeers
AddPeer(p) ==
    /\ IF MayAdd(p) THEN peers' = peers \cup {p} /\ updates' = Append(updates, <<"added", p>>)
       ELSE UNCHANGED <<peers, updates>>
    /\ UNCHANGED ignoredPeers
RemovePeer(p) ==
    /\ IF p \in peers THEN peers' = peers \ {p} /\ updates' = Append(updates, <<"removed", p>>)
       ELSE UNCHANGED <<peers, updates>>
    /\ UNCHANGED ignoredPeers

(* peerProtocolWatcher looks up the protocols when it handles the event.       *)
HandleEvent ==
    /\ events # <<>> /\ events' = Tail(events)
    /\ LET kind == Head(events)[1]
           p == Head(events)[2]
       IN  CASE kind = "added" \/ (kind = "identified" /\ p \in supports) -> AddPeer(p)
             [] kind = "removed" -> RemovePeer(p)
             [] OTHER -> UNCHANGED mgrvars
    /\ UNCHANGED <<connected, supports, blocked, callbacks, view, count>>
DisconnectedF(p) ==
    /\ p \in callbacks /\ callbacks' = callbacks \ {p}
    /\ IF p \notin connected THEN RemovePeer(p) ELSE UNCHANGED mgrvars
    /\ UNCHANGED <<hostvars, view>>

(* RecordBadPeer, from the feedback of a call: block, ignore, remove.          *)
RecordBadPeer(p) ==
    /\ count < MaxEvents /\ count' = count + 1
    /\ blocked' = blocked \cup {p}
    /\ connected' = connected \ {p}
    /\ callbacks' = IF p \in connected THEN callbacks \cup {p} ELSE callbacks
    /\ ignoredPeers' = ignoredPeers \cup {p}
    /\ IF p \in peers THEN peers' = peers \ {p} /\ updates' = Append(updates, <<"bad", p>>)
       ELSE UNCHANGED <<peers, updates>>
    /\ UNCHANGED <<supports, events, view>>

Applied(v, u) == IF u[1] = "added" THEN v \cup {u[2]} ELSE v \ {u[2]}
ReceiveUpdate ==
    /\ updates # <<>> /\ updates' = Tail(updates)
    /\ view' = Applied(view, Head(updates))
    /\ UNCHANGED <<hostvars, callbacks, peers, ignoredPeers>>

NextPeers ==
    \/ \E p \in PeerIds : Identified(p) \/ ProtocolsUpdated(p) \/ Disconnected(p) \/ DisconnectedF(p) \/ RecordBadPeer(p)
    \/ HandleEvent \/ ReceiveUpdate
PeersSpec == InitPeers /\ [][NextPeers]_rpvars

-----------------------------------------------------------------------------
(* What a view becomes when the updates are applied in order: the last update  *)
(* about a peer decides.                                                       *)
Replayed(v, us) ==
    {p \in PeerIds :
        \/ \E i \in DOMAIN us : us[i] = <<"added", p>> /\ \A j \in DOMAIN us : j > i => us[j][2] # p
        \/ p \in v /\ \A i \in DOMAIN us : us[i][2] # p}

(* INVARIANT.  A peer reported as bad stays out whatever events about it are   *)
(* still queued, and a subscriber that applies the updates in order ends with  *)
(* the manager's peers (AddPeer, RemovePeer, RecordBadPeer).                   *)
BadPeersStayOut ==
    /\ peers \cap ignoredPeers = {}
    /\ Replayed(view, updates) = peers

(* Once every event and callback has run, only connected peers are left.       *)
OnlyConnected == events = <<>> /\ callbacks = {} => peers \subseteq connected
=============================================================================
