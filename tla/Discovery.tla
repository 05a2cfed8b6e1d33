------------------------------- MODULE Discovery -------------------------------
(* Peer discovery through seed nodes: the loop that starts and stops           *)
(* advertising namespaces (go/p2p/peermgmt/discovery.go) and the client that   *)
(* fetches peers from a seed and caches them                                   *)
(* (go/p2p/discovery/bootstrap/client.go).                                     *)
EXTENDS Integers, Sequences, FiniteSets

CONSTANTS
    Namespaces,
    Limits,                  \* limits asked for; 0 is none
    retentionPeriod, discoveryBackOff, maliciousSeedBackOff, \* in ticks
    MaxTime, MaxRestarts     \* bounds

VARIABLES
    advertising,     \* namespaces that should be advertised
    advCh,           \* the channel of one slot
    loop,            \* "stopped", "select" or "update"
    ongoing,         \* namespaces the loop has started to advertise
    cancelled,       \* namespaces whose advertisers have yet to notice the end
    restarts,
    now, nextDiscovery,
    cache,           \* namespace -> [peers, limit, expires]; peers is 0 for none, 1 for some
    malice           \* namespace -> until when the seed counts as malicious

advvars == <<advertising, advCh, loop, ongoing, cancelled, restarts>>
fetchvars == <<now, nextDiscovery, cache, malice>>
dvars == <<advvars, fetchvars>>

NoCache == [peers |-> 0, limit |-> 0, expires |-> -1]

InitDiscovery ==
    /\ advertising = {} /\ advCh = FALSE /\ loop = "stopped" /\ ongoing = {} /\ cancelled = {} /\ restarts = 0
    /\ now = 0 /\ nextDiscovery = 0 /\ cache = [n \in Namespaces |-> NoCache] /\ malice = [n \in Namespaces |-> -1]

-----------------------------------------------------------------------------
(* startAdvertising, stopAdvertising: change the set, then wake the loop.      *)
Silent(ch) == ch
Woken(ch) == TRUE
startAdvertising(n) ==
    /\ advertising' = advertising \cup {n} /\ advCh' = TRUE
    /\ UNCHANGED <<loop, ongoing, cancelled, restarts>>
stopAdvertising(n) ==
    /\ advertising' = advertising \ {n} /\ advCh' = Woken(advCh)
    /\ UNCHANGED <<loop, ongoing, cancelled, restarts>>

(* run: the check at startup, then one per wake-up.                            *)
Start ==
    /\ loop = "stopped" /\ cancelled = {} /\ restarts < MaxRestarts
    /\ loop' = "select" /\ advCh' = TRUE /\ ongoing' = {} /\ restarts' = restarts + 1
    /\ UNCHANGED <<advertising, cancelled>>
Select ==
    /\ loop = "select" /\ advCh
    /\ advCh' = FALSE /\ loop' = "update"
    /\ UNCHANGED <<advertising, ongoing, cancelled, restarts>>
Update ==
    /\ loop = "update" /\ loop' = "select"
    /\ ongoing' = advertising
    /\ cancelled' = cancelled \cup (ongoing \ advertising)
    /\ UNCHANGED <<advertising, advCh, restarts>>
(* The deferred wait ends when the advertisers have: they watch the context    *)
(* of their namespace.                                                         *)
StopAdvertiser ==
    /\ loop = "select" /\ loop' = "stopped"
    /\ cancelled' = cancelled \cup ongoing /\ ongoing' = {}
    /\ UNCHANGED <<advertising, advCh, restarts>>
AdvertiserEnds(n) ==
    /\ n \in cancelled /\ cancelled' = cancelled \ {n}
    /\ UNCHANGED <<advertising, advCh, loop, ongoing, restarts>>

-----------------------------------------------------------------------------
Tick == now < MaxTime /\ now' = now + 1 /\ UNCHANGED <<nextDiscovery, cache, malice>>

(* fetchPeers: within the back-off and while the cache is fresh and large      *)
(* enough, the cache answers.                                                  *)
Serves(c, limit) == c.expires > now /\ (c.limit = 0 \/ (c.limit >= limit /\ limit # 0))
KeptLimit(limit) == [peers |-> 0, limit |-> limit, expires |-> now + maliciousSeedBackOff]
NoPeers(limit) == [peers |-> 0, limit |-> 0, expires |-> now + maliciousSeedBackOff]
fetchPeers(n, limit) ==
    /\ nextDiscovery <= now /\ ~Serves(cache[n], limit)
    /\ \/ /\ cache' = [cache EXCEPT ![n] = [peers |-> 1, limit |-> limit, expires |-> now + retentionPeriod]]
          /\ UNCHANGED <<nextDiscovery, malice>>
       \/ /\ cache' = [cache EXCEPT ![n] = NoPeers(limit)]
          /\ malice' = [malice EXCEPT ![n] = now + maliciousSeedBackOff]
          /\ UNCHANGED nextDiscovery
       \/ /\ nextDiscovery' = now + discoveryBackOff
          /\ UNCHANGED <<cache, malice>>
    /\ UNCHANGED now

Advertise ==
    /\ \/ Start \/ Select \/ Update \/ StopAdvertiser
       \/ \E n \in Namespaces : startAdvertising(n) \/ stopAdvertising(n) \/ AdvertiserEnds(n)
    /\ UNCHANGED fetchvars
FetchPeers ==
    /\ Tick \/ \E n \in Namespaces, l \in Limits : fetchPeers(n, l)
    /\ UNCHANGED advvars
NextDiscovery == Advertise \/ FetchPeers
DiscoverySpec == InitDiscovery /\ [][NextDiscovery]_dvars

-----------------------------------------------------------------------------
(* INVARIANT.  No change is missed: when the loop waits with nothing in its    *)
(* channel, it advertises exactly what it should (startAdvertising,            *)
(* stopAdvertising and run share one slot).                                    *)
AdvertisesAll == loop = "select" /\ ~advCh => ongoing = advertising

(* INVARIANT.  A namespace for which the seed misbehaved has no peers until    *)
(* the back-off is over, whatever was cached or is asked for.                  *)
SilentAfterMalice == \A n \in Namespaces : malice[n] > now => cache[n].peers = 0

(* INVARIANT.  As the constant's comment has it: no peers at all.              *)
SilentEverywhere == (\E n \in Namespaces : malice[n] > now) => \A n \in Namespaces : cache[n].peers = 0
=============================================================================
