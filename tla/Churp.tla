-------------------------------- MODULE Churp --------------------------------
(* The CHURP worker of a key manager node (go/worker/keymanager/churp.go): for *)
(* every scheme it applies for the next committee one epoch ahead, takes part  *)
(* in the handoff, confirms it and tells the enclave when it is over.  The     *)
(* loop schedules tasks by block height in two task queues; the tasks run in   *)
(* goroutines of their own until they finish or are cancelled.                 *)
EXTENDS Naturals, Sequences, FiniteSets

CONSTANTS
    Schemes,      \* configured scheme identifiers
    Blocks,       \* blocks per epoch
    MaxHeight,    \* bound on block heights
    MaxLag,       \* bound on blocks the loop is behind
    Offsets,      \* where in the submission epoch a submission may be placed
    Delay,        \* dimensionSwitchDelay
    MaxAttempts,  \* maxAttempts of retry
    MaxUpdates    \* bound on configuration updates (handoffs off and on)

VARIABLES
    height,   \* consensus height; height \div Blocks is the epoch
    chain,    \* scheme -> its status in consensus
    news,     \* [epoch, status]: events not yet delivered; blocks: seen < height
    seen,     \* last block handled
    known,    \* w.churps and handoffFinisher.statuses: the latest status
    sub,      \* submissionScheduler: scheme -> task
    hand,     \* handoffExecutor: scheme -> task
    jobs,     \* goroutines
    stopped,  \* ctx.Done()
    updates   \* configuration updates so far

chvars == <<height, chain, news, seen, known, sub, hand, jobs, stopped, updates>>

Epoch == height \div Blocks
Off == MaxHeight + 9    \* HandoffsDisabled: EpochInvalid
NoTask == [state |-> "none"]
NoStatus == [handoff |-> 0, next |-> 0, mine |-> "none", kind |-> "none", on |-> FALSE]
Disabled(st) == ~st.on

(* HandoffKind by committee change; "dealing" is the first handoff.            *)
Kinds == {"dealing", "unchanged", "changed"}

InitChurp ==
    /\ height = Blocks
    /\ \E kind \in {"dealing", "changed"} :
          chain = [s \in Schemes |-> [handoff |-> IF kind = "dealing" THEN 0 ELSE 1, next |-> 2,
                                      mine |-> "none", kind |-> kind, on |-> TRUE]]
    /\ news = [epoch |-> <<1>>, status |-> [s \in Schemes |-> <<chain[s]>>]]
    /\ seen = height
    /\ known = [s \in Schemes |-> NoStatus]
    /\ sub = [s \in Schemes |-> NoTask]
    /\ hand = [s \in Schemes |-> NoTask]
    /\ jobs = {}
    /\ stopped = FALSE
    /\ updates = 0

-----------------------------------------------------------------------------
(* Consensus.  At a new epoch a handoff with too few applications is delayed   *)
(* by an epoch and one that was not confirmed in its epoch has failed.         *)
AtEpoch(st, e, enough) ==
    IF ~st.on \/ e < st.next \/ (e = st.next /\ enough) THEN st
    ELSE [st EXCEPT !.next = e + 1, !.mine = "none"]

ChurpBlock(enough) ==
    /\ height < MaxHeight /\ height < seen + MaxLag
    /\ height' = height + 1
    /\ IF height' % Blocks # 0 THEN UNCHANGED <<chain, news>>
       ELSE LET e == height' \div Blocks
                new == [s \in Schemes |-> AtEpoch(chain[s], e, enough)]
            IN /\ chain' = new
               /\ news' = [epoch |-> Append(news.epoch, e),
                           status |-> [s \in Schemes |->
                               IF new[s] = chain[s] THEN news.status[s]
                               ELSE Append(news.status[s], new[s])]]
    /\ UNCHANGED <<seen, known, sub, hand, jobs, stopped, updates>>

ChainUpdate(s, st) ==
    /\ chain' = [chain EXCEPT ![s] = st]
    /\ news' = [news EXCEPT !.status[s] = Append(@, st)]

(* Every applicant has confirmed: the handoff is complete.                     *)
HandoffCompletes(s, kind) ==
    /\ chain[s].mine = "done"
    /\ ChainUpdate(s, [chain[s] EXCEPT !.handoff = chain[s].next, !.next = Epoch + 2,
                                       !.mine = "none", !.kind = kind])
    /\ UNCHANGED <<height, seen, known, sub, hand, jobs, stopped, updates>>

(* UpdateRequest with a handoff interval of zero, or another one.              *)
ConfigUpdate(s) ==
    /\ updates < MaxUpdates
    /\ updates' = updates + 1
    /\ ChainUpdate(s, [chain[s] EXCEPT !.on = ~@, !.mine = "none",
                                       !.next = IF chain[s].on THEN Off ELSE Epoch + 2])
    /\ UNCHANGED <<height, seen, known, sub, hand, jobs, stopped>>

-----------------------------------------------------------------------------
(* TaskQueue: a task is queued, running, or forgotten by the queue but still   *)
(* in tasks (Clear).                                                           *)
Task(st, h) == [state |-> "queued", st |-> st, height |-> h]

Cancelled(js, kind, ss) ==
    {IF j.kind = kind /\ j.s \in ss THEN [j EXCEPT !.cancelled = TRUE] ELSE j : j \in js}

(* Remove; a running task is cancelled.                                        *)
ToCancel(q, ss) == {s \in ss : q[s].state = "running"}
Removed(q, ss) == [s \in Schemes |-> IF s \in ss THEN NoTask ELSE q[s]]

(* Run: tasks start in order of handoff and height, up to the first that has   *)
(* to wait.                                                                    *)
Before(t, u) == t.st.next < u.st.next \/ (t.st.next = u.st.next /\ t.height <= u.height)
Eligible(q, h) ==
    LET queued == {s \in Schemes : q[s].state = "queued"}
    IN {s \in queued : \A u \in queued : Before(q[u], q[s]) => q[u].height <= h}
StartedTasks(q, h) == [s \in Schemes |-> IF s \in Eligible(q, h)
                                    THEN [q[s] EXCEPT !.state = "running"] ELSE q[s]]

(* Clear drops tasks of earlier handoffs from the queue, not from tasks.       *)
Clear(q, e) ==
    [s \in Schemes |-> IF q[s].state = "queued" /\ q[s].st.next < e
                       THEN [q[s] EXCEPT !.state = "cleared"] ELSE q[s]]

(* Cancel, as it is written: it spares the tasks of earlier handoffs.          *)
CancelSet(q, e) == {s \in Schemes : q[s].state = "running" /\ ~(q[s].st.next < e)}

(* handleNewEpoch: submissions close at the handoff epoch, handoffs after it.  *)
HandleNewEpoch ==
    /\ ~stopped
    /\ news.epoch # << >>
    /\ news' = [news EXCEPT !.epoch = Tail(@)]
    /\ LET e == Head(news.epoch)
           cs == CancelSet(sub, e + 1)
           ch == CancelSet(hand, e)
       IN /\ sub' = Clear(Removed(sub, cs), e + 1)
          /\ hand' = Clear(Removed(hand, ch), e)
          /\ jobs' = Cancelled(Cancelled(jobs, "submit", cs), "handoff", ch)
    /\ UNCHANGED <<height, chain, seen, known, stopped, updates>>

(* The stages of a goroutine, by HandoffKind.                                  *)
Stages(kind, st) ==
    CASE kind = "submit" -> <<"apply", "end">>
      [] kind = "finish" -> <<"finalize", "end">>
      [] kind = "handoff" /\ st.kind = "changed" ->
            <<"reduce", "proactivize", "wait", "distribute", "confirm", "end">>
      [] OTHER -> <<"proactivize", "confirm", "end">>

Job(kind, s, st, h) ==
    [kind |-> kind, s |-> s, st |-> st, stage |-> Stages(kind, st)[1], attempts |-> 0,
     until |-> h + Delay, cancelled |-> FALSE]

(* handleNewBlock: start what is due.                                          *)
HandleNewBlock ==
    /\ ~stopped
    /\ seen < height
    /\ seen' = seen + 1
    /\ sub' = StartedTasks(sub, seen')
    /\ hand' = StartedTasks(hand, seen')
    /\ jobs' = jobs \cup {Job("submit", s, sub[s].st, seen') : s \in Eligible(sub, seen')}
                    \cup {Job("handoff", s, hand[s].st, seen') : s \in Eligible(hand, seen')}
    /\ UNCHANGED <<height, chain, news, known, stopped, updates>>

-----------------------------------------------------------------------------
(* submissionScheduler.Queue.                                                  *)
SubQueue(s, st, o) ==
    LET stale == sub[s] # NoTask /\ sub[s].st.next < st.next
        task == IF sub[s] # NoTask /\ ~stale THEN sub[s]
                ELSE Task(st, (st.next - 1) * Blocks + o)
        drop == st.mine # "none" \/ Disabled(st)
    IN sub' = [sub EXCEPT ![s] = IF drop THEN NoTask ELSE task]

SubCancels(s, st) ==
    IF \/ sub[s] # NoTask /\ sub[s].st.next < st.next
       \/ st.mine # "none" \/ Disabled(st)
    THEN ToCancel(sub, {s}) ELSE {}

(* handoffExecutor.Queue.                                                      *)
HandSame(s, st) == hand[s] # NoTask /\ hand[s].st.next = st.next
HandQueue(s, st) ==
    hand' = [hand EXCEPT ![s] =
        IF Disabled(st) THEN NoTask
        ELSE IF HandSame(s, st) THEN [@ EXCEPT !.st = st]
        ELSE IF st.mine = "applied" THEN Task(st, st.next * Blocks)
        ELSE NoTask]

HandLeaks(s, st) == IF Disabled(st) THEN ToCancel(hand, {s}) ELSE {}
HandCancels(s, st) == IF Disabled(st) \/ ~HandSame(s, st) THEN ToCancel(hand, {s}) ELSE {}

(* handoffFinisher.Finalize: the enclave is told once the handoff epochs move; *)
(* an earlier notification still in flight is cancelled.                       *)
FinishJobs(s, st) ==
    IF known[s] = NoStatus THEN {}
    ELSE IF known[s].handoff = st.handoff /\ known[s].next = st.next THEN {}
    ELSE {Job("finish", s, st, 0)}

(* handleStatusUpdate, with watcher, submissions, handoffs and finisher.       *)
HandleStatusUpdate(s, o) ==
    /\ ~stopped
    /\ news.status[s] # << >>
    /\ news' = [news EXCEPT !.status[s] = Tail(@)]
    /\ LET st == Head(news.status[s])
           fin == FinishJobs(s, st)
           kept == Cancelled(Cancelled(jobs, "submit", SubCancels(s, st)),
                             "handoff", HandCancels(s, st))
       IN /\ known' = [known EXCEPT ![s] = st]
          /\ SubQueue(s, st, o)
          /\ HandQueue(s, st)
          /\ jobs' = (IF fin = {} THEN kept ELSE Cancelled(kept, "finish", {s})) \cup fin
    /\ UNCHANGED <<height, chain, seen, stopped, updates>>

(* ctx.Done(): Stop cancels what the queues have running and waits for it.     *)
Stop ==
    /\ ~stopped
    /\ stopped' = TRUE
    /\ LET rs == ToCancel(sub, Schemes)
           rh == ToCancel(hand, Schemes)
       IN /\ jobs' = Cancelled(Cancelled(Cancelled(jobs, "submit", rs), "handoff", rh),
                               "finish", Schemes)
          /\ sub' = Removed(sub, rs)
          /\ hand' = Removed(hand, rh)
    /\ UNCHANGED <<height, chain, news, seen, known, updates>>

-----------------------------------------------------------------------------
(* The goroutines.  A stage is a retry loop around calls of the enclave and    *)
(* transactions: it succeeds, or it fails and is tried again, until it is out  *)
(* of attempts or sees that it was cancelled (the ticker may win that select). *)
NextStage(j) ==
    LET i == CHOOSE n \in DOMAIN Stages(j.kind, j.st) : Stages(j.kind, j.st)[n] = j.stage
    IN Stages(j.kind, j.st)[i + 1]

Replace(j, new) == jobs' = (jobs \ {j}) \cup new

(* Consensus accepts an application in the epoch before the handoff and a      *)
(* confirmation in the epoch of it, one of each.                               *)
TxValid(j) ==
    /\ chain[j.s].next = j.st.next
    /\ chain[j.s].mine = IF j.stage = "apply" THEN "none" ELSE "applied"
    /\ Epoch = IF j.stage = "apply" THEN j.st.next - 1 ELSE j.st.next

Advance(j) ==
    /\ Replace(j, IF NextStage(j) = "end" THEN {}
                  ELSE {[j EXCEPT !.stage = NextStage(j), !.attempts = 0]})
    /\ UNCHANGED <<height, seen, known, sub, hand, stopped, updates>>

(* submitApplication and submitConfirmation: a transaction was accepted.       *)
SubmitApplication(j) ==
    /\ j.stage = "apply" /\ TxValid(j)
    /\ ChainUpdate(j.s, [chain[j.s] EXCEPT !.mine = "applied"])
    /\ Advance(j)
SubmitConfirmation(j) ==
    /\ j.stage = "confirm" /\ TxValid(j)
    /\ ChainUpdate(j.s, [chain[j.s] EXCEPT !.mine = "done"])
    /\ Advance(j)

(* fetch: the enclave has fetched its share from enough nodes.                 *)
Fetch(j) ==
    /\ j.stage \in {"reduce", "proactivize", "distribute"}
    /\ Advance(j)
    /\ UNCHANGED <<chain, news>>

FinalizeHandoff(j) ==
    /\ j.stage = "finalize"
    /\ Advance(j)
    /\ UNCHANGED <<chain, news>>

(* The finisher tries once.                                                    *)
StageFailed(j) ==
    /\ j.stage # "wait"
    /\ \/ /\ j.cancelled \/ j.stage = "finalize" \/ j.attempts + 1 = MaxAttempts
          /\ Replace(j, {})
       \/ /\ j.stage # "finalize" /\ j.attempts + 1 < MaxAttempts
          /\ Replace(j, {[j EXCEPT !.attempts = @ + 1]})
    /\ UNCHANGED <<height, chain, news, seen, known, sub, hand, stopped, updates>>

(* The wait for the dimension switch: the loop closes the channel when it      *)
(* handles the block Delay blocks after the start.                             *)
DimSwitch(j) ==
    /\ j.stage = "wait"
    /\ j.cancelled \/ seen >= j.until
    /\ Replace(j, IF j.cancelled THEN {} ELSE {[j EXCEPT !.stage = "distribute"]})
    /\ UNCHANGED <<height, chain, news, seen, known, sub, hand, stopped, updates>>

Run(j) == SubmitApplication(j) \/ SubmitConfirmation(j) \/ Fetch(j) \/ FinalizeHandoff(j) \/ StageFailed(j) \/ DimSwitch(j)

-----------------------------------------------------------------------------
NextChurp ==
    \/ \E enough \in BOOLEAN : ChurpBlock(enough)
    \/ \E s \in Schemes :
          \/ \E kind \in Kinds \ {"dealing"} : HandoffCompletes(s, kind)
          \/ ConfigUpdate(s)
          \/ \E o \in Offsets : HandleStatusUpdate(s, o)
    \/ HandleNewEpoch \/ HandleNewBlock \/ Stop
    \/ \E j \in jobs : Run(j)

(* Goroutines run and their calls return.                                      *)
ChurpSpec == InitChurp /\ [][NextChurp]_chvars /\ WF_chvars(\E j \in jobs : Run(j))

-----------------------------------------------------------------------------
(* INVARIANT.  A goroutine that was not cancelled is one the worker can still  *)
(* cancel, and works for the handoff the worker believes to be next: a status  *)
(* update never leaves one behind that applies for, or confirms, an old one.   *)
JobsTracked ==
    \A j \in jobs : (j.kind # "finish" /\ ~j.cancelled) =>
        LET t == IF j.kind = "submit" THEN sub[j.s] ELSE hand[j.s]
        IN ~stopped /\ t.state = "running" /\ t.st.next = j.st.next /\ known[j.s].next = j.st.next

(* PROPERTY.  Stopping the worker ends: no goroutine is left waiting for a     *)
(* block that nobody handles any more.                                         *)
StopReturns == stopped ~> jobs = {}

(* INVARIANT.  Cancel "cancels and removes all running tasks with the next     *)
(* handoff epoch smaller than the given value": once the loop has handled an   *)
(* epoch, no handoff of an earlier one is still running.                       *)
LateTasksCancelled ==
    \A j \in jobs : j.kind = "handoff" /\ ~j.cancelled /\ news.epoch = << >> =>
        j.st.next >= Epoch
=============================================================================
