------------------------------ MODULE TopicHandler ------------------------------
(* The handler of a gossip topic (go/p2p/dispatch.go): messages received are   *)
(* dispatched from the topic validator and retried by a bounded number of      *)
(* workers; messages to publish wait in a queue while the topic has no peers.  *)
EXTENDS Integers, Sequences, FiniteSets

CONSTANTS
    Incoming, Outgoing,      \* messages received and published
    redispatchMaxWorkers, redispatchMaxRetries,
    rawMsgQueueSize

VARIABLES
    msg,           \* incoming message -> where its dispatch is
    tries,         \* incoming message -> retries made
    numWorkers,
    handled,       \* messages the handler accepted, one entry per time
    relayed,       \* messages the validator told the network to relay
    peers,         \* the topic has connected peers
    initialized,   \* mgrInitCh: the registry has seen its first node list
    known,         \* the registry lists peers
    pendingQueue,
    worker,        \* the messages the worker holds (one at most) and whether it still waits
    out            \* outgoing message -> "new", "sending", "queued", "published", "lost" or "refused"

tvars == <<msg, tries, numWorkers, handled, relayed, peers, initialized, known, pendingQueue, worker, out>>
netvars == <<peers, initialized, known>>
outvars == <<pendingQueue, worker, out>>
invars == <<msg, tries, numWorkers, handled, relayed>>

NoMessage == [held |-> <<>>, waits |-> FALSE]

Init ==
    /\ msg = [m \in Incoming |-> "new"] /\ tries = [m \in Incoming |-> 0]
    /\ numWorkers = 0 /\ handled = [m \in Incoming |-> 0] /\ relayed = {}
    /\ peers = FALSE /\ initialized = FALSE /\ known = FALSE
    /\ pendingQueue = <<>> /\ worker = NoMessage
    /\ out = [m \in Outgoing |-> "new"]

-----------------------------------------------------------------------------
(* AuthorizeMessage and HandleMessage answer success or an error that is       *)
(* permanent, permanent but relayable, or temporary; a cancelled context is    *)
(* never permanent (p2p/error: IsPermanent, ShouldRelay, EnsurePermanent).     *)
Results == {"ok", "permanent", "relayable", "temporary"}
ShouldRelay(r) == r # "permanent"
IsPermanent(r) == r \in {"permanent", "relayable"}

(* topicMessageValidator: dispatch, and on a temporary error start a retry     *)
(* worker unless too many run.  A message that cannot be decoded is not        *)
(* dispatched; the number of workers is read before it is swapped.             *)
Validate(m, r) ==
    /\ msg[m] = "new"
    /\ relayed' = IF ShouldRelay(r) THEN relayed \cup {m} ELSE relayed
    /\ handled' = IF r = "ok" THEN [handled EXCEPT ![m] = @ + 1] ELSE handled
    /\ msg' = [msg EXCEPT ![m] = IF r = "temporary" THEN "spawn" ELSE "done"]
    /\ UNCHANGED <<tries, numWorkers>>
DecodeFails(m) ==
    /\ msg[m] = "new"
    /\ msg' = [msg EXCEPT ![m] = "done"]
    /\ UNCHANGED <<tries, numWorkers, handled, relayed>>

(* LoadUint64, then CompareAndSwap: the swap repeats until it sees the value   *)
(* that was loaded, so a load and its successful swap are one step.            *)
NeverFull == FALSE
QueueFull == numWorkers > redispatchMaxWorkers
Spawn(m) ==
    /\ msg[m] = "spawn"
    /\ IF QueueFull
       THEN msg' = [msg EXCEPT ![m] = "dropped"] /\ UNCHANGED numWorkers
       ELSE msg' = [msg EXCEPT ![m] = "retry"] /\ numWorkers' = numWorkers + 1
    /\ UNCHANGED <<tries, handled, relayed>>

(* retryWorker                                                                 *)
Retry(m, r) ==
    /\ msg[m] = "retry"
    /\ handled' = IF r = "ok" THEN [handled EXCEPT ![m] = @ + 1] ELSE handled
    /\ LET over == r # "temporary" \/ tries[m] = redispatchMaxRetries
       IN  /\ msg' = [msg EXCEPT ![m] = IF over THEN "done" ELSE @]
           /\ tries' = [tries EXCEPT ![m] = IF over THEN @ ELSE @ + 1]
           /\ numWorkers' = IF over THEN numWorkers - 1 ELSE numWorkers
    /\ UNCHANGED relayed

In ==
    /\ \E m \in Incoming : \/ \E r \in Results : Validate(m, r) \/ Retry(m, r)
                           \/ DecodeFails(m) \/ Spawn(m)
    /\ UNCHANGED <<netvars, outvars>>

-----------------------------------------------------------------------------
(* The network swallows what is published while the topic has no peers.        *)
Sent(m) == [out EXCEPT ![m] = IF peers THEN "published" ELSE "lost"]

(* Publish: with no peers, queue the message if there is room.  The peers may  *)
(* be gone when the message is sent.                                           *)
tryPublishing(m) ==
    /\ out[m] = "new"
    /\ IF peers THEN out' = [out EXCEPT ![m] = "sending"] /\ UNCHANGED pendingQueue
       ELSE IF Len(pendingQueue) < rawMsgQueueSize
       THEN out' = [out EXCEPT ![m] = "queued"] /\ pendingQueue' = Append(pendingQueue, m)
       ELSE out' = [out EXCEPT ![m] = "refused"] /\ UNCHANGED pendingQueue
    /\ UNCHANGED worker
Publish(m) ==
    /\ out[m] = "sending" /\ out' = Sent(m)
    /\ UNCHANGED <<pendingQueue, worker>>

(* pendingMessagesWorker: wait for the registry, then for peers while it knows *)
(* some.                                                                       *)
Take ==
    /\ worker = NoMessage /\ pendingQueue # <<>>
    /\ worker' = [held |-> <<Head(pendingQueue)>>, waits |-> TRUE] /\ pendingQueue' = Tail(pendingQueue)
    /\ UNCHANGED out
WaitForPeers == ~initialized \/ ~peers
WaitLoop == ~initialized \/ (~peers /\ known)
StopWaiting ==
    /\ worker.waits /\ ~WaitLoop
    /\ worker' = [worker EXCEPT !.waits = FALSE]
    /\ UNCHANGED <<pendingQueue, out>>
PublishPending ==
    /\ worker # NoMessage /\ ~worker.waits
    /\ out' = Sent(worker.held[1])
    /\ worker' = NoMessage
    /\ UNCHANGED pendingQueue

Out ==
    /\ (\E m \in Outgoing : tryPublishing(m) \/ Publish(m)) \/ Take \/ StopWaiting \/ PublishPending
    /\ UNCHANGED <<netvars, invars>>

-----------------------------------------------------------------------------
(* The registry and the connections.                                           *)
NodesHandled ==
    /\ initialized' = TRUE /\ known' \in BOOLEAN
    /\ UNCHANGED <<peers, outvars, invars>>
PeersChange ==
    /\ peers' = ~peers
    /\ UNCHANGED <<initialized, known, outvars, invars>>

Next == In \/ Out \/ NodesHandled \/ PeersChange
(* The worker sees a state that keeps returning since it looks every second.   *)
Rest == UNCHANGED <<netvars, invars>>
Fairness ==
    /\ WF_tvars(NodesHandled /\ ~initialized)
    /\ WF_tvars(Take /\ Rest) /\ SF_tvars(StopWaiting /\ Rest) /\ WF_tvars(PublishPending /\ Rest)
Spec == Init /\ [][Next]_tvars /\ Fairness

-----------------------------------------------------------------------------
(* INVARIANT.  The counter is the number of retry workers that run, so the     *)
(* limit holds (with one worker to spare), and whatever the retries do a       *)
(* message reaches the handler at most once.                                   *)
WorkersCounted ==
    /\ numWorkers = Cardinality({m \in Incoming : msg[m] = "retry"})
    /\ numWorkers <= redispatchMaxWorkers + 1
    /\ \A m \in Incoming : handled[m] <= 1

(* PROPERTY.  A message that was queued for lack of peers is sent in the end,  *)
(* also by a node that is alone in the network: it is held back only while the *)
(* registry knows of other nodes and none gets connected.                      *)
QueuedIsSent ==
    \A m \in Outgoing :
        (out[m] = "queued") ~> (out[m] \in {"published", "lost"} \/ [](known /\ ~peers))
=============================================================================
