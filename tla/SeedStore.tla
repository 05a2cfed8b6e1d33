------------------------------- MODULE SeedStore -------------------------------
(* What a seed node knows about other peers                                    *)
(* (go/p2p/discovery/peerstore/peerstore.go): registrations per namespace that *)
(* expire, the list cleanup walks, the limits on registering, the periodic     *)
(* backup (go/p2p/backup/cstore.go) and its restore when the seed starts       *)
(* (go/p2p/seed.go); the service in front of it is                             *)
(* go/p2p/discovery/bootstrap/server.go.                                       *)
EXTENDS Integers, Sequences, FiniteSets

CONSTANTS
    Namespaces, PeerIds,
    PeerRegistrationTTL,         \* in ticks of the clock
    maxPeers, maxNsPeers, maxPeerNs,
    MaxTime                      \* bound: the clock stops

VARIABLES
    now,
    registrations,     \* namespace -> peer -> expiry
    expirations,       \* sequence of <<namespace, peer>>, walked by cleanup
    peerNamespaces,    \* peer -> namespaces, counted against the limits
    backup,            \* what the common store holds: namespace -> peers
    toRestore,         \* what Restore has still to add when the seed starts
    rejected           \* the registration just refused: <<namespace, peer>>

ssvars == <<now, registrations, expirations, peerNamespaces, backup, toRestore, rejected>>

NoEntries == <<>>
NoPair == <<>>
Having(f, x, v) == [y \in DOMAIN f \cup {x} |-> IF y = x THEN v ELSE f[y]]
Without(f, x) == [y \in DOMAIN f \ {x} |-> f[y]]
PeersIn(ns) == IF ns \in DOMAIN registrations THEN DOMAIN registrations[ns] ELSE {}
Registered == {r \in Namespaces \X PeerIds : r[2] \in PeersIn(r[1])}
Expiry(r) == registrations[r[1]][r[2]]

InitSeed ==
    /\ now = 0
    /\ registrations = NoEntries /\ expirations = <<>> /\ peerNamespaces = NoEntries
    /\ backup = NoEntries /\ toRestore = {} /\ rejected = NoPair

SeedTick ==
    /\ now < MaxTime
    /\ now' = now + 1 /\ rejected' = NoPair
    /\ UNCHANGED <<registrations, expirations, peerNamespaces, backup, toRestore>>

-----------------------------------------------------------------------------
(* list.Remove with the registration's expirationPos.                          *)
Unlinked(exps, r) ==
    LET pos == CHOOSE i \in DOMAIN exps : exps[i] = r
    IN  [i \in 1..(Len(exps) - 1) |-> IF i < pos THEN exps[i] ELSE exps[i + 1]]

KeepPlace(exps, r) == exps
MoveToBack(exps, r) == Append(Unlinked(exps, r), r)

(* Add: the registration of a known peer is extended, whatever the limits; the *)
(* map of a namespace exists from the first attempt on.                        *)
NamesOf(p) == IF p \in DOMAIN peerNamespaces THEN peerNamespaces[p] ELSE {}
TooManyPeers(ns) ==
    \/ Cardinality(DOMAIN peerNamespaces) >= maxPeers
    \/ Cardinality(PeersIn(ns)) >= maxNsPeers
TooManyNamespaces(p) == Cardinality(NamesOf(p)) >= maxPeerNs
Accepted(ns, p) == p \in PeersIn(ns) \/ ~(TooManyPeers(ns) \/ TooManyNamespaces(p))
NamespaceMap(ns) == IF ns \in DOMAIN registrations THEN registrations[ns] ELSE NoEntries
RegisterPeer(ns, p) ==
    /\ registrations' =
         Having(registrations, ns,
              IF Accepted(ns, p) THEN Having(NamespaceMap(ns), p, now + PeerRegistrationTTL) ELSE NamespaceMap(ns))
    /\ expirations' = IF p \in PeersIn(ns) THEN MoveToBack(expirations, <<ns, p>>)
                      ELSE IF Accepted(ns, p) THEN Append(expirations, <<ns, p>>)
                      ELSE expirations
    /\ peerNamespaces' = IF p \in PeersIn(ns) \/ TooManyPeers(ns) THEN peerNamespaces
                         ELSE Having(peerNamespaces, p,
                                     IF TooManyNamespaces(p) THEN NamesOf(p) ELSE NamesOf(p) \cup {ns})

(* The service and the schedulers start after Restore.                         *)
handleAdvertise(ns, p) ==
    /\ toRestore = {}
    /\ RegisterPeer(ns, p)
    /\ rejected' = IF Accepted(ns, p) THEN NoPair ELSE <<ns, p>>
    /\ UNCHANGED <<now, backup, toRestore>>

(* The registrations R go; a namespace that loses its last one goes with it.   *)
Dropped(R) ==
    LET left(ns) == {p \in PeersIn(ns) : <<ns, p>> \notin R}
    IN  [ns \in {x \in DOMAIN registrations : left(x) # {} \/ PeersIn(x) = {}} |->
            [p \in left(ns) |-> registrations[ns][p]]]

UnregisterPeer(ns, p) ==
    /\ toRestore = {} /\ p \in PeersIn(ns)
    /\ registrations' = Dropped({<<ns, p>>})
    /\ expirations' = Unlinked(expirations, <<ns, p>>)
    /\ LET left == peerNamespaces[p] \ {ns}
       IN peerNamespaces' = IF left = {} THEN Without(peerNamespaces, p) ELSE Having(peerNamespaces, p, left)
    /\ rejected' = NoPair
    /\ UNCHANGED <<now, backup, toRestore>>

(* cleanup stops at the first registration that has not expired; it does not   *)
(* touch peerNamespaces.                                                       *)
Expired(i) == Expiry(expirations[i]) <= now
cleanup ==
    /\ toRestore = {} /\ expirations # <<>>
    /\ \E k \in 0..Len(expirations) :
        /\ \A i \in 1..k : Expired(i)
        /\ k < Len(expirations) => ~Expired(k + 1)
        /\ registrations' = Dropped({expirations[i] : i \in 1..k})
        /\ expirations' = SubSeq(expirations, k + 1, Len(expirations))
    /\ rejected' = NoPair
    /\ UNCHANGED <<now, peerNamespaces, backup, toRestore>>

(* Answers never hold an expired registration, cleaned up or not.              *)
NamespacePeers(ns) == {p \in PeersIn(ns) : registrations[ns][p] >= now}

-----------------------------------------------------------------------------
(* Backup writes every registration unless there is none.                      *)
BackupPeers ==
    LET data == {ns \in DOMAIN registrations : PeersIn(ns) # {}}
    IN  /\ toRestore = {} /\ data # {}
        /\ backup' = [ns \in data |-> PeersIn(ns)]
        /\ rejected' = NoPair
        /\ UNCHANGED <<now, registrations, expirations, peerNamespaces, toRestore>>

(* The seed starts again with nothing, and Restore adds what was saved, one    *)
(* namespace after the other; it stops at the first peer that is refused.      *)
SavedIn(ns) == {<<ns, p>> : p \in backup[ns]}
RestartSeed ==
    /\ registrations' = NoEntries /\ expirations' = <<>> /\ peerNamespaces' = NoEntries
    /\ toRestore' = UNION {SavedIn(ns) : ns \in DOMAIN backup} /\ rejected' = NoPair
    /\ UNCHANGED <<now, backup>>
RestorePeer ==
    \E r \in toRestore :
        /\ \A q \in toRestore : q[1] # r[1] => SavedIn(q[1]) \subseteq toRestore
        /\ RegisterPeer(r[1], r[2])
        /\ toRestore' = IF Accepted(r[1], r[2]) THEN toRestore \ {r} ELSE {}
        /\ rejected' = NoPair
        /\ UNCHANGED <<now, backup>>

NextSeed ==
    \/ SeedTick \/ cleanup \/ BackupPeers \/ RestartSeed \/ RestorePeer
    \/ \E ns \in Namespaces, p \in PeerIds : handleAdvertise(ns, p) \/ UnregisterPeer(ns, p)

SeedSpec == InitSeed /\ [][NextSeed]_ssvars

-----------------------------------------------------------------------------
(* INVARIANT.  cleanup may stop at the first live registration: its list holds *)
(* each registration once, the earliest to expire first, through extensions,   *)
(* removals and restores (Store.Add, Remove, cleanup).                         *)
CleanupFindsExpired ==
    /\ {expirations[i] : i \in DOMAIN expirations} = Registered
    /\ \A i, j \in DOMAIN expirations :
           i < j => expirations[i] # expirations[j] /\ Expiry(expirations[i]) <= Expiry(expirations[j])

(* INVARIANT.  A registration is refused only when the store holds the maximum *)
(* of peers, the namespace of its peers, or the peer of its namespaces.        *)
RejectsWhenFull ==
    rejected # NoPair =>
        LET holds == UNION {PeersIn(ns) : ns \in Namespaces}
        IN  \/ Cardinality(holds) >= maxPeers
            \/ Cardinality(PeersIn(rejected[1])) >= maxNsPeers
            \/ Cardinality({ns \in Namespaces : rejected[2] \in PeersIn(ns)}) >= maxPeerNs
=============================================================================
