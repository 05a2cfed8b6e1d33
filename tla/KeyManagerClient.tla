--------------------------- MODULE KeyManagerClient ---------------------------
(* The key manager client of a node (go/worker/common/committee/keymanager.go):*)
(* the key manager may change under concurrent calls, a tracker follows its    *)
(* nodes, and feedback from the runtime on an earlier call guides routing.     *)
EXTENDS Integers, FiniteSets

CONSTANTS
    Ids,               \* key manager runtimes
    ManagerPeers,           \* key manager -> peers of its committee
    Calls,             \* concurrent calls; each is the request of the same name
    Deprecated,        \* the ones that use CallEnclaveDeprecated
    cacheSize,         \* peerFeedbackCacheSize
    MaxChanges,        \* bound
    MayUnset           \* the key manager may be unset (Stop)

None == 0
NoFeedback == [cli |-> None, peer |-> None]

VARIABLES
    id, cli,           \* the key manager; the number of the current client, or None
    made,              \* clients made so far: number -> key manager
    nodes,             \* number of client -> peers its tracker knows
    last,              \* lastPeerFeedback
    cache,             \* peerFeedbacks: request -> feedback
    call,              \* call -> where it is
    panicked

kcvars == <<id, cli, made, nodes, last, cache, call, panicked>>

Idle == [pc |-> "idle", cli |-> None, peers |-> {}, feedback |-> NoFeedback]
InitClient ==
    /\ id = None /\ cli = None /\ made = <<>> /\ nodes = <<>>
    /\ last = NoFeedback /\ cache = [c \in {} |-> NoFeedback]
    /\ call = [c \in Calls |-> Idle] /\ panicked = FALSE

-----------------------------------------------------------------------------
(* SetKeyManagerID, under the lock.  A new client has a tracker of its own.    *)
SetKeyManagerID(k) ==
    /\ k # id /\ Cardinality(DOMAIN made) < MaxChanges
    /\ id' = k
    /\ IF k = None THEN cli' = None /\ UNCHANGED <<made, nodes>>
       ELSE LET n == Cardinality(DOMAIN made) + 1
            IN  /\ cli' = n
                /\ made' = [i \in 1..n |-> IF i = n THEN k ELSE made[i]]
                /\ nodes' = [i \in 1..n |-> IF i = n THEN {} ELSE nodes[i]]
    /\ last' = NoFeedback /\ cache' = [c \in {} |-> NoFeedback]
    /\ UNCHANGED <<call, panicked>>

(* trackKeymanagerNodes: a status of an initialized key manager with nodes.    *)
StatusUpdate ==
    /\ cli # None
    /\ \E ps \in SUBSET ManagerPeers[made[cli]] \ {{}} :
        nodes[cli] # ps /\ nodes' = [nodes EXCEPT ![cli] = ps]
    /\ UNCHANGED <<id, cli, made, last, cache, call, panicked>>

-----------------------------------------------------------------------------
(* The first critical section.  A deprecated call also records the runtime's   *)
(* feedback with the peer of lastPeerFeedback, which it leaves in place.       *)
GetClient(c) ==
    /\ call[c].pc = "idle"
    /\ call' = [call EXCEPT ![c] = IF cli = None THEN [@ EXCEPT !.pc = "done"]
                                   ELSE [@ EXCEPT !.pc = "nodes", !.cli = cli]]
    /\ UNCHANGED <<id, cli, made, nodes, last, cache, panicked>>

(* km.nt is read without the lock.                                             *)
GetNodes(c) ==
    /\ call[c].pc = "nodes"
    /\ IF cli = None THEN panicked' = TRUE /\ call' = [call EXCEPT ![c].pc = "done"]
       ELSE /\ UNCHANGED panicked
            /\ call' = [call EXCEPT ![c].pc = IF nodes[cli] = {} THEN "done" ELSE "rpc", ![c].peers = nodes[cli]]
    /\ UNCHANGED <<id, cli, made, nodes, last, cache>>

(* The call fails, or one of the peers answers.                                *)
Answer(c) ==
    /\ call[c].pc = "rpc"
    /\ \/ call' = [call EXCEPT ![c].pc = "done"]
       \/ \E p \in call[c].peers :
            call' = [call EXCEPT ![c].pc = "answered", ![c].feedback = [cli |-> call[c].cli, peer |-> p]]
    /\ UNCHANGED <<id, cli, made, nodes, last, cache, panicked>>

(* The last critical section: the key manager could have been updated while    *)
(* the call was in progress.                                                   *)
AlwaysStored(c) == call[c].feedback
Stored(c) == IF cli = call[c].cli THEN call[c].feedback ELSE last
Store(c) ==
    /\ call[c].pc = "answered" /\ call' = [call EXCEPT ![c].pc = "done"]
    /\ IF c \in Deprecated THEN last' = Stored(c) /\ UNCHANGED cache
       ELSE /\ UNCHANGED last
            /\ \E keep \in {DOMAIN cache} \cup {DOMAIN cache \ {r} : r \in DOMAIN cache} :
                /\ (keep # DOMAIN cache) <=> (Cardinality(DOMAIN cache) = cacheSize)
                /\ cache' = [r \in keep \cup {c} |-> IF r = c THEN call[c].feedback ELSE cache[r]]
    /\ UNCHANGED <<id, cli, made, nodes, panicked>>

(* SubmitPeerFeedback takes the entry out; feedback that is not too old is     *)
(* recorded with its peer.                                                     *)
SubmitPeerFeedback(c) ==
    /\ c \in DOMAIN cache
    /\ cache' = [r \in DOMAIN cache \ {c} |-> cache[r]]
    /\ UNCHANGED <<id, cli, made, nodes, last, call, panicked>>

NextClient ==
    \/ \E k \in Ids : SetKeyManagerID(k)
    \/ MayUnset /\ SetKeyManagerID(None)
    \/ StatusUpdate
    \/ \E c \in Calls : GetClient(c) \/ GetNodes(c) \/ Answer(c) \/ Store(c) \/ SubmitPeerFeedback(c)
ClientSpec == InitClient /\ [][NextClient]_kcvars

-----------------------------------------------------------------------------
(* INVARIANT.  The feedback kept for the next deprecated call is about a peer  *)
(* of the current client, although the key manager changes during calls.       *)
FeedbackIsCurrent == last # NoFeedback => last.cli = cli

(* INVARIANT.  A call never uses the tracker after it is gone.                 *)
NoNilTracker == ~panicked
=============================================================================
