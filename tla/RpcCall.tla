-------------------------------- MODULE RpcCall --------------------------------
(* A call to one or to several peers (CallOne and CallMulti of                 *)
(* go/p2p/rpc/client.go) with the server's side reduced to what its stream     *)
(* brings (go/p2p/rpc/server.go).  CallOne tries the peers in turn and retries *)
(* the whole list; in CallMulti a pool of workers calls the peers while a loop *)
(* gathers the results.  The caller's context may end at any time.             *)
EXTENDS Integers, Sequences, FiniteSets

CONSTANTS
    N,                     \* bound on the number of peers in the list
    maxParallelRequests,
    maxRetries,
    Wanted                 \* the aggregation function stops at this many responses

VARIABLES
    kind,        \* "multi" or "one"
    given,       \* the peers are 1..given, in the order of the list
    pc,          \* kind while the call runs, "waiting" for a retry, then "returned"; "over" after the feedback
    next,        \* CallMulti: the job the pool starts next; CallOne: the peer to try
    status,      \* peer -> state of its call: "queued", "open", "read", "answered", "failed", "skipped"
    retries,
    resultCh,    \* what timeCall returned and nobody has looked at: sequence of [peer, ok]
    received,    \* loop counter of CallMulti
    rsps,        \* peers whose responses are returned
    pfs,         \* peers whose feedback instances are returned
    ctx,         \* the caller's context: "live", "canceled" or "deadline"
    listening,   \* a listener is registered
    heard        \* what it was told: set of <<event, peer>>

rcvars == <<kind, given, pc, next, status, retries, resultCh, received, rsps, pfs, ctx, listening, heard>>
jobvars == <<status, resultCh, heard>>
callvars == <<pc, next, retries, received, rsps, pfs>>
envvars == <<kind, given, ctx, listening>>

Peers == 1 .. given
Returned == pc \in {"returned", "over"}

Init ==
    /\ kind \in {"multi", "one"} /\ given \in 0 .. N /\ pc = kind
    /\ next = 1 /\ status = [p \in 1 .. N |-> "queued"] /\ retries = 0
    /\ resultCh = <<>> /\ received = 0 /\ rsps = <<>> /\ pfs = {}
    /\ ctx = "live" /\ listening = TRUE /\ heard = {}

Running == {p \in Peers : status[p] \in {"open", "read"}}

(* The context of the calls to the peers.  CallMulti's own is cancelled when   *)
(* it returns; the first cause stays.                                          *)
PeerCtx == IF ctx = "live" /\ kind = "multi" /\ Returned THEN "canceled" ELSE ctx

(* recordSuccess, recordFailure, recordBadPeer: every listener is told.        *)
Record(event, p) == heard' = IF listening THEN heard \cup {<<event, p>>} ELSE heard

-----------------------------------------------------------------------------
(* timeCall: a peer is degraded unless the context was cancelled.              *)
BlamesAnyway(cause) == cause # "none"
Blames(cause) == cause \notin {"none", "canceled"}
Done(p, cause) ==
    /\ status' = [status EXCEPT ![p] = IF cause = "none" THEN "answered" ELSE "failed"]
    /\ resultCh' = Append(resultCh, [peer |-> p, ok |-> cause = "none"])
    /\ IF Blames(cause) THEN Record("failure", p) ELSE UNCHANGED heard
    /\ UNCHANGED <<callvars, envvars>>

(* call: only opening the stream obeys the context, writing and reading have   *)
(* deadlines of their own.                                                     *)
Open(p) ==
    /\ status[p] = "open"
    /\ \/ /\ status' = [status EXCEPT ![p] = "read"]
          /\ UNCHANGED <<resultCh, heard, callvars, envvars>>
       \/ Done(p, "peer")
       \/ PeerCtx # "live" /\ Done(p, PeerCtx)

(* The server answers with a response or an error, or just closes the stream   *)
(* when it cannot read the request or write its response.                      *)
HandleStream == {"response", "error", "closed"}
Read(p) ==
    /\ status[p] = "read"
    /\ \E answer \in HandleStream \cup {"late"}, decoded \in BOOLEAN :
         Done(p, IF answer = "response" /\ decoded THEN "none" ELSE "peer")

(* Close drops the connections to a peer and fails the calls that use them;    *)
(* CloseIdle leaves connections with streams alone.                            *)
Close(p) == p \in Running /\ Done(p, "closed")

RegisterListener == ~listening /\ listening' = TRUE /\ UNCHANGED <<kind, given, ctx, jobvars, callvars>>
UnregisterListener == listening /\ listening' = FALSE /\ UNCHANGED <<kind, given, ctx, jobvars, callvars>>

-----------------------------------------------------------------------------
(* CallMulti.  The pool starts jobs in order; one that starts after the end of *)
(* the context leaves without a result, as those the stopped pool drops do.    *)
StartJob ==
    /\ kind = "multi" /\ next \in Peers /\ Cardinality(Running) < maxParallelRequests
    /\ status' = [status EXCEPT ![next] = IF PeerCtx = "live" THEN "open" ELSE "skipped"]
    /\ next' = next + 1
    /\ UNCHANGED <<resultCh, heard, pc, retries, received, rsps, pfs, envvars>>

(* The gathering loop: one result, or the end of the context.                  *)
Gather ==
    /\ pc = "multi" /\ received < given /\ resultCh # <<>>
    /\ LET r == Head(resultCh)
       IN  /\ rsps' = IF r.ok THEN Append(rsps, r.peer) ELSE rsps
           /\ pfs' = IF r.ok THEN pfs \cup {r.peer} ELSE pfs
           /\ pc' = IF r.ok /\ Len(rsps) + 1 = Wanted THEN "returned" ELSE pc
    /\ resultCh' = Tail(resultCh) /\ received' = received + 1
    /\ UNCHANGED <<status, heard, next, retries, envvars>>
WithoutContext == FALSE
ContextDone == PeerCtx # "live"
Return ==
    /\ pc = "multi" /\ (received = given \/ ContextDone)
    /\ pc' = "returned"
    /\ UNCHANGED <<jobvars, next, retries, received, rsps, pfs, envvars>>

-----------------------------------------------------------------------------
(* CallOne.  Without peers there is nothing to try.                            *)
NoPeers ==
    /\ pc = "one" /\ given = 0
    /\ pc' = "returned"
    /\ UNCHANGED <<jobvars, next, retries, received, rsps, pfs, envvars>>
TryPeer ==
    /\ pc = "one" /\ next \in Peers /\ Running = {} /\ resultCh = <<>>
    /\ status' = [status EXCEPT ![next] = "open"]
    /\ UNCHANGED <<resultCh, heard, callvars, envvars>>
(* A response is returned if the validation function accepts it; the feedback  *)
(* is about the last peer that was tried in any case.                          *)
TryNext ==
    /\ pc = "one" /\ resultCh # <<>>
    /\ resultCh' = <<>> /\ pfs' = {next}
    /\ \/ /\ Head(resultCh).ok
          /\ rsps' = <<next>> /\ pc' = "returned" /\ next' = next
       \/ /\ next' = next + 1
          /\ UNCHANGED <<pc, rsps>>
    /\ UNCHANGED <<status, heard, retries, received, envvars>>
(* retryFn: no retry after the last one or once the context is done.           *)
AllTried ==
    /\ pc = "one" /\ given > 0 /\ next > given
    /\ pc' = IF retries < maxRetries /\ ctx = "live" THEN "waiting" ELSE "returned"
    /\ UNCHANGED <<jobvars, next, retries, received, rsps, pfs, envvars>>
Retry ==
    /\ pc = "waiting"
    /\ \/ pc' = "one" /\ next' = 1 /\ retries' = retries + 1
       \/ ctx # "live" /\ pc' = "returned" /\ UNCHANGED <<next, retries>>
    /\ UNCHANGED <<jobvars, received, rsps, pfs, envvars>>

-----------------------------------------------------------------------------
(* The caller: its context ends, or it gives feedback on the peers it was      *)
(* answered by.                                                                *)
Cancel ==
    /\ ~Returned /\ ctx = "live" /\ ctx' \in {"canceled", "deadline"}
    /\ UNCHANGED <<kind, given, listening, jobvars, callvars>>
PeerFeedback ==
    /\ pc = "returned" /\ pc' = "over"
    /\ \E event \in {"success", "failure", "bad"}, p \in pfs : Record(event, p)
    /\ UNCHANGED <<status, resultCh, next, retries, received, rsps, pfs, envvars>>

Step ==
    \/ StartJob \/ Gather \/ Return \/ NoPeers \/ TryPeer \/ TryNext \/ AllTried \/ Retry
    \/ \E p \in Peers : Open(p) \/ Read(p)
Next ==
    \/ Step \/ Cancel \/ PeerFeedback \/ RegisterListener \/ UnregisterListener
    \/ \E p \in Peers : Close(p)
(* The deadlines end every read, so no step is put off for ever.               *)
Spec == Init /\ [][Next]_rcvars /\ WF_rcvars(Step) /\ WF_rcvars(Return)

-----------------------------------------------------------------------------
(* While the context lives nothing is given up: CallOne has used its retries,  *)
(* CallMulti has as many responses as wanted or those of all peers.            *)
NothingLeft ==
    IF kind = "one" THEN rsps # <<>> \/ given = 0 \/ (next > given /\ retries = maxRetries)
    ELSE \/ Len(rsps) = Wanted
         \/ \A p \in Peers : status[p] = "failed" \/ p \in pfs

(* LIVENESS.  A call returns and leaves no call to a peer running, although    *)
(* jobs that are skipped send no result; and unless the caller's context ended *)
(* it has returned all it could get.                                           *)
CallReturns == <>[](Returned /\ Running = {} /\ (ctx = "live" => NothingLeft))
=============================================================================
