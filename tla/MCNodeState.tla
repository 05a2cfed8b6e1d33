----------------------------- MODULE MCNodeState ------------------------------
(* What a node keeps up to date, side by side: its two kinds of node database, *)
(* the restore of a checkpoint, and what the peer-to-peer layer knows of other *)
(* nodes.  A behaviour runs the one chosen by part.                            *)
EXTENDS CheckpointRestore, TLC

VARIABLES
    part,
    nodes, rootKeys, rootsMeta, updated, logs, mplog, disk, mem, multipart, batches, op,
    chunksDone, aborted, crashes,                           \* NodeDB
    fin, candidates, rootNodes, pathUpdated, pathLogs, meta, pathMultipart, multi, pathBatches,
    pathOp, pathChunks, pathAborted, pathCrashes,           \* PathDB
    now, registrations, expirations, peerNamespaces, backup, toRestore, rejected,   \* SeedStore
    connected, backoffs, ongoing, call, job, drops,         \* PeerConnector
    open, supports, blocked, events, callbacks, peers, ignoredPeers, updates, view, count,   \* RpcPeers
    advertising, advCh, loop, advertised, ending, restarts, clock, nextDiscovery, cache,
    malice,                                                 \* Discovery
    registered, nodeListCh, nodeCh, addresses, protocolPeers, described, found, sent, tags,
    tagged, changes                                         \* PeerRegistry

badgerVars == <<nodes, rootKeys, rootsMeta, updated, logs, mplog, disk, mem, multipart, batches, op,
                chunksDone, aborted, crashes>>
pathVars == <<fin, candidates, rootNodes, pathUpdated, pathLogs, meta, pathMultipart, multi, pathBatches,
              pathOp, pathChunks, pathAborted, pathCrashes>>
storeVars == <<vars, badgerVars, pathVars>>
seedVars == <<now, registrations, expirations, peerNamespaces, backup, toRestore, rejected>>
connectorVars == <<connected, backoffs, ongoing, call, job, drops>>
rpcVars == <<open, supports, blocked, events, callbacks, peers, ignoredPeers, updates, view, count>>
discoveryVars == <<advertising, advCh, loop, advertised, ending, restarts, clock, nextDiscovery, cache, malice>>
registryVars == <<registered, nodeListCh, nodeCh, addresses, protocolPeers, described, found, sent, tags,
                  tagged, changes>>
p2pVars == <<seedVars, connectorVars, rpcVars, discoveryVars, registryVars>>
allVars == <<part, storeVars, p2pVars>>

(* s2 and its fork f2 share a node put in version 2; s3 brings back b, which   *)
(* s2 removed; Badger also holds an I/O tree in version 1, built in two        *)
(* commits.  A checkpoint restores s2 in two chunks.                           *)
Step(old, ov, root, v) == [old |-> old, ov |-> ov, root |-> root, v |-> v]
StateRoots == {"s1", "s2", "f2", "s3"}
StateTree == [s1 |-> {"a", "b"}, s2 |-> {"a", "c"}, f2 |-> {"b", "c", "d"}, s3 |-> {"b", "c"}]
StateSteps == {Step("empty", 1, "s1", 1), Step("s1", 1, "s2", 2), Step("s1", 1, "f2", 2), Step("s2", 2, "s3", 3)}
CheckpointChunks == [s2 |-> {{"a"}, {"c"}}]
Writes ==
    {<<"idle", "none">>, <<"commit", "log">>, <<"commit", "nodes">>, <<"commit", "meta">>,
     <<"finalize", "meta">>, <<"prune", "meta">>, <<"abort", "log">>, <<"abort", "meta">>,
     <<"done", "meta">>}

BadgerRoots == StateRoots \cup {"in1", "io1"}
BadgerTree == [r \in BadgerRoots |-> CASE r = "in1" -> {"i"} [] r = "io1" -> {"i", "o"} [] OTHER -> StateTree[r]]
BadgerSteps == StateSteps \cup {Step("empty", 1, "in1", 1), Step("in1", 1, "io1", 1)}
Badger == INSTANCE NodeDB WITH
    Nodes <- {"a", "b", "c", "d", "i", "o"}, Roots <- BadgerRoots, Tree <- BadgerTree, MaxVersion <- 3,
    Commits <- BadgerSteps, Chain <- <<{"s1", "io1"}, {"s2"}, {"s3"}>>, RestoreVersion <- 2, Chunks <- CheckpointChunks,
    CrashAt <- Writes, MixedSources <- FALSE, MaxCrashes <- 1, MaxBatches <- 2

PathBadger == INSTANCE PathDB WITH
    pending <- candidates, updated <- pathUpdated, logs <- pathLogs, multipart <- pathMultipart,
    batches <- pathBatches, op <- pathOp, chunksDone <- pathChunks, aborted <- pathAborted,
    crashes <- pathCrashes, Roots <- StateRoots,
    Type <- [r \in StateRoots |-> "state"], Tree <- StateTree,
    Rank <- [a |-> 1, b |-> 2, c |-> 4, d |-> 3], MaxVersion <- 3,
    Commits <- StateSteps, Chain <- <<{"s1"}, {"s2"}, {"s3"}>>, RestoreVersion <- 2, Chunks <- CheckpointChunks,
    Retry <- FALSE, MaxCrashes <- 1, MaxBatches <- 2, MaxSeq <- 2

INSTANCE SeedStore WITH
    Namespaces <- {"a", "b"}, PeerIds <- {"p", "q"}, PeerRegistrationTTL <- 2, maxPeers <- 2,
    maxNsPeers <- 1, maxPeerNs <- 1, MaxTime <- 3

INSTANCE PeerConnector WITH
    Calls <- {"protocol", "topic"}, PeerIds <- {"p", "q"}, Blocked <- {}, maxPeers <- 1, MaxDrops <- 0

INSTANCE RpcPeers WITH
    connected <- open, PeerIds <- {"p", "q"}, MaxEvents <- 3

INSTANCE Discovery WITH
    now <- clock, ongoing <- advertised, cancelled <- ending, Namespaces <- {"a", "b"},
    Limits <- {0, 1, 2}, retentionPeriod <- 1, discoveryBackOff <- 1, maliciousSeedBackOff <- 2,
    MaxTime <- 3, MaxRestarts <- 2

INSTANCE PeerRegistry WITH
    peers <- addresses, applied <- described, PeerIds <- {"p", "q"}, Protocols <- {"sync", "light"},
    Addresses <- {1}, MaxChanges <- 3

-----------------------------------------------------------------------------
NodeInit ==
    /\ part \in {"badger", "path", "restore", "seed", "connector", "rpc", "advertise", "fetch", "registry"}
    /\ Badger!Init /\ PathBadger!Init /\ Init /\ InitSeed /\ InitPeers /\ InitDiscovery /\ InitRegistry
    /\ InitConnector
    /\ part # "connector" => connected = {} /\ call = [c \in DOMAIN call |-> NewCall({})]

Discover(p, A) ==
    part = p /\ A /\ UNCHANGED <<part, storeVars, seedVars, connectorVars, rpcVars, registryVars>>

NodeNext ==
    \/ part = "badger" /\ Badger!Next /\ UNCHANGED <<part, vars, pathVars, p2pVars>>
    \/ part = "path" /\ PathBadger!Next /\ UNCHANGED <<part, vars, badgerVars, p2pVars>>
    \/ part = "restore" /\ Next /\ UNCHANGED <<part, badgerVars, pathVars, p2pVars>>
    \/ /\ part = "seed" /\ NextSeed
       /\ UNCHANGED <<part, storeVars, connectorVars, rpcVars, discoveryVars, registryVars>>
    \/ /\ part = "connector" /\ NextConnector
       /\ UNCHANGED <<part, storeVars, seedVars, rpcVars, discoveryVars, registryVars>>
    \/ /\ part = "rpc" /\ NextPeers
       /\ UNCHANGED <<part, storeVars, seedVars, connectorVars, discoveryVars, registryVars>>
    \/ Discover("advertise", Advertise) \/ Discover("fetch", FetchPeers)
    \/ /\ part = "registry" /\ NextRegistry
       /\ UNCHANGED <<part, storeVars, seedVars, connectorVars, rpcVars, discoveryVars>>

NodeSpec == NodeInit /\ [][NodeNext]_allVars

-----------------------------------------------------------------------------
(* PROPERTY.  BadgerRefines of NodeDB: the Badger database implements the      *)
(* versioned store.                                                            *)
BadgerRefines ==
    Badger!Store!Init /\ [][part = "badger" => [Badger!Store!Next]_(Badger!Store!vars)]_allVars

(* PROPERTY.  PathRefines of PathDB: the path-based database implements the    *)
(* versioned store.                                                            *)
PathRefines ==
    PathBadger!Store!Init /\ [][part = "path" => [PathBadger!Store!Next]_(PathBadger!Store!vars)]_allVars
=============================================================================
