----------------------------- MODULE PeerConnector -----------------------------
(* Connecting to peers (go/p2p/peermgmt/connector.go, backoff.go): concurrent  *)
(* connectMany calls, one per protocol or topic that is short of peers         *)
(* (connectPeers in peermgr.go), each dialling in parallel behind a number of  *)
(* tickets; attempts at one peer are shared and failures back off.             *)
EXTENDS Integers, Sequences, FiniteSets

CONSTANTS
    Calls,             \* connectMany calls running at the same time
    PeerIds, Blocked,  \* peers, and those the connection gater refuses
    maxPeers,          \* connections each call wants
    MaxDrops           \* bound: connections lost

VARIABLES
    connected,    \* peers the host is connected to
    backoffs,     \* peers that may not be dialled yet
    ongoing,      \* peer -> the call whose attempt is under way, or None
    call,         \* call -> its loop
    job,          \* call -> peer -> state of the attempt
    drops

cvars == <<connected, backoffs, ongoing, call, job, drops>>

None == "none"
Idle == "idle"
Jobs(c, S) == {p \in PeerIds : job[c][p] \in S}

(* The peer channel holds distinct peers; the tickets are results of finished  *)
(* attempts, FALSE to begin with.                                              *)
NewCall(peers) ==
    [pc |-> "receive", peers |-> peers, info |-> None, left |-> maxPeers,
     tickets |-> [i \in 1..maxPeers |-> FALSE], won |-> {}, ctx |-> TRUE]

InitConnector ==
    /\ connected \in SUBSET PeerIds
    /\ backoffs = {} /\ ongoing = [p \in PeerIds |-> None] /\ drops = 0
    /\ job = [c \in Calls |-> [p \in PeerIds |-> Idle]]
    /\ call \in [Calls -> {NewCall(ps) : ps \in SUBSET PeerIds}]

(* connectMany: take a peer, wait for a ticket of a failed attempt, dial.      *)
ReceivePeer(c) ==
    LET k == call[c] IN
    /\ k.pc = "receive"
    /\ \/ \E p \in k.peers : call' = [call EXCEPT ![c] = [k EXCEPT !.pc = "ticket", !.info = p, !.peers = @ \ {p}]]
       \/ k.peers = {} /\ call' = [call EXCEPT ![c] = [k EXCEPT !.pc = "wait"]]
    /\ UNCHANGED <<connected, backoffs, ongoing, job, drops>>

AnyTicket(k) == [k EXCEPT !.tickets = Tail(@), !.pc = "dial"]
Ticket(k) ==
    IF ~Head(k.tickets) THEN [k EXCEPT !.tickets = Tail(@), !.pc = "dial"]
    ELSE [k EXCEPT !.tickets = Tail(@), !.left = @ - 1, !.pc = IF k.left = 1 THEN "wait" ELSE "ticket"]
TakeTicket(c) ==
    /\ call[c].pc = "ticket" /\ call[c].tickets # <<>>
    /\ call' = [call EXCEPT ![c] = Ticket(@)]
    /\ UNCHANGED <<connected, backoffs, ongoing, job, drops>>

(* connectOne: join the attempt that is under way or start one.                *)
ConnectOne(c) ==
    LET p == call[c].info IN
    /\ call[c].pc = "dial"
    /\ call' = [call EXCEPT ![c].pc = "receive"]
    /\ job' = [job EXCEPT ![c][p] = IF ongoing[p] = None THEN "check" ELSE "join"]
    /\ ongoing' = [ongoing EXCEPT ![p] = IF @ = None THEN c ELSE @]
    /\ UNCHANGED <<connected, backoffs, drops>>

Owner(c, p) == {c}
Waiting(c, p) == {d \in Calls : job[d][p] = "join"} \cup {c}
Finish(c, p, ok) ==
    LET waiting == Waiting(c, p)
    IN  /\ ongoing' = [ongoing EXCEPT ![p] = None]
        /\ job' = [d \in Calls |-> [job[d] EXCEPT ![p] = IF d \in waiting THEN Idle ELSE @]]
        /\ call' = [d \in Calls |->
               IF d \in waiting
               THEN [call[d] EXCEPT !.tickets = Append(@, ok), !.won = IF ok THEN @ \cup {p} ELSE @]
               ELSE call[d]]

(* connect: blocked and backed off peers are not dialled, connected ones count. *)
Connect(c, p) ==
    /\ job[c][p] = "check"
    /\ \/ /\ p \in Blocked \/ (p \notin connected /\ p \in backoffs)
          /\ Finish(c, p, FALSE)
       \/ /\ p \notin Blocked /\ p \in connected
          /\ Finish(c, p, TRUE)
       \/ /\ p \notin Blocked \cup connected \cup backoffs
          /\ job' = [job EXCEPT ![c][p] = "dial"]
          /\ UNCHANGED <<ongoing, call>>
    /\ UNCHANGED <<connected, backoffs, drops>>

(* A dial that fails backs off, unless the context was cancelled.              *)
Dialled(c, p) ==
    /\ job[c][p] = "dial"
    /\ \/ connected' = connected \cup {p} /\ backoffs' = backoffs \ {p} /\ Finish(c, p, TRUE)
       \/ UNCHANGED connected /\ backoffs' = (IF call[c].ctx THEN backoffs \cup {p} ELSE backoffs) /\ Finish(c, p, FALSE)
    /\ UNCHANGED drops

(* The deferred wait for the attempts still under way.                         *)
ReturnCall(c) ==
    /\ call[c].pc = "wait" /\ Jobs(c, {"check", "join", "dial"}) = {}
    /\ call' = [call EXCEPT ![c].pc = "returned"]
    /\ UNCHANGED <<connected, backoffs, ongoing, job, drops>>

Cancel(c) ==
    /\ call[c].ctx /\ call[c].pc # "returned"
    /\ call' = [call EXCEPT ![c].ctx = FALSE]
    /\ UNCHANGED <<connected, backoffs, ongoing, job, drops>>
SeeCancel(c) ==
    /\ ~call[c].ctx /\ call[c].pc \in {"receive", "ticket"}
    /\ call' = [call EXCEPT ![c].pc = "wait"]
    /\ UNCHANGED <<connected, backoffs, ongoing, job, drops>>

(* The network and time.                                                       *)
Disconnect(p) ==
    /\ p \in connected /\ drops < MaxDrops
    /\ connected' = connected \ {p} /\ drops' = drops + 1
    /\ UNCHANGED <<backoffs, ongoing, call, job>>
BackoffPasses(p) ==
    /\ p \in backoffs
    /\ backoffs' = backoffs \ {p}
    /\ UNCHANGED <<connected, ongoing, call, job, drops>>

Steps(c) ==
    \/ ReceivePeer(c) \/ TakeTicket(c) \/ ConnectOne(c) \/ ReturnCall(c) \/ SeeCancel(c)
    \/ \E p \in PeerIds : Connect(c, p) \/ Dialled(c, p)
NextConnector ==
    \/ \E c \in Calls : Steps(c) \/ Cancel(c)
    \/ \E p \in PeerIds : Disconnect(p) \/ BackoffPasses(p)

(* libp2p bounds the time of a dial, so every goroutine keeps running.         *)
Fairness == \A c \in Calls : WF_cvars(Steps(c))
ConnectorSpec == InitConnector /\ [][NextConnector]_cvars /\ Fairness

-----------------------------------------------------------------------------
(* INVARIANT.  A call never tries for more connections than it wants: the ones *)
(* it has and the attempts under way stay within the maximum, and one that     *)
(* returns short of it was cancelled or has tried every peer it was offered    *)
(* (peerConnector.connectMany, connectOne).                                    *)
ConnectsEnough ==
    \A c \in Calls :
        LET k == call[c] IN
        /\ Cardinality(k.won) + Cardinality(Jobs(c, {"check", "join", "dial"})) <= maxPeers
        /\ k.pc = "returned" /\ k.ctx /\ Cardinality(k.won) < maxPeers => k.peers = {}

(* PROPERTY.  Every call returns, also when another call owns the attempt it   *)
(* waits for and that call is cancelled.                                       *)
ConnectReturns == \A c \in Calls : <>(call[c].pc = "returned")
=============================================================================
