--------------------------- MODULE ChurpProofs ---------------------------
(* Proof that no goroutine of the CHURP worker is forgotten, for any set of *)
(* schemes, handoff interval and delay, and any number of blocks, failed    *)
(* attempts and status changes.                                             *)
EXTENDS Integers, Sequences, FiniteSets, TLAPS
CONSTANTS Schemes, Blocks, MaxHeight, MaxLag, Offsets, Delay, MaxAttempts, MaxUpdates
VARIABLES height, chain, news, seen, known, sub, hand, jobs, stopped, updates

INSTANCE Churp

----------------------------------------------------------------------------
(* The CHURP worker (go/worker/keymanager/churp.go).                        *)

Statuses ==
  [handoff : Nat, next : Nat, mine : {"none", "applied", "done"},
   kind : Kinds \union {"none"}, on : BOOLEAN]

TaskOK(t) ==
  \/ t = NoTask
  \/ /\ DOMAIN t = {"state", "st", "height"}
     /\ t.state \in {"queued", "running", "cleared"} /\ t.st \in Statuses

JobOK(j) ==
  /\ DOMAIN j = {"kind", "s", "st", "stage", "attempts", "until", "cancelled"}
  /\ j.kind \in {"submit", "handoff", "finish"} /\ j.s \in Schemes
  /\ j.cancelled \in BOOLEAN

ChurpTypes ==
  /\ height \in Nat
  /\ chain \in [Schemes -> Statuses] /\ known \in [Schemes -> Statuses]
  /\ DOMAIN news = {"epoch", "status"} /\ news.status \in [Schemes -> Seq(Statuses)]
  /\ DOMAIN sub = Schemes /\ DOMAIN hand = Schemes
  /\ \A s \in Schemes : TaskOK(sub[s]) /\ TaskOK(hand[s])
  /\ \A j \in jobs : JobOK(j)

\* While handoffs are enabled the next one never moves to an earlier epoch.
Follows(a, b) == a.on /\ b.on => a.next <= b.next

\* The next handoff is at most two epochs away, and the worker is told of
\* every status in turn: k is the latest it knows, q are on their way and c
\* is the one in consensus.
NewsOK(k, q, c) ==
  /\ q = <<>> => k = c
  /\ q # <<>> => Follows(k, q[1]) /\ q[Len(q)] = c
  /\ \A i \in 1..(Len(q) - 1) : Follows(q[i], q[i + 1])

StatusInOrder ==
  \A s \in Schemes : /\ chain[s].on => chain[s].next <= Epoch + 2
                     /\ NewsOK(known[s], news.status[s], chain[s])

\* A task is for the handoff that the worker believes to be next.
TasksCurrent ==
  \A s \in Schemes :
    /\ sub[s] # NoTask => known[s].on /\ sub[s].st.next = known[s].next
    /\ hand[s] # NoTask => known[s].on /\ hand[s].st.next = known[s].next

\* A goroutine that was not cancelled belongs to a running task.
JobsRunning ==
  \A j \in jobs : j.kind # "finish" /\ ~j.cancelled =>
    LET t == IF j.kind = "submit" THEN sub[j.s] ELSE hand[j.s]
    IN  ~stopped /\ t.state = "running" /\ t.st.next = j.st.next

ChurpInv == ChurpTypes /\ StatusInOrder /\ TasksCurrent /\ JobsRunning

LEMMA Division ==
  ASSUME NEW a \in Nat, NEW b \in Nat \ {0}
  PROVE  a \div b \in Nat /\ a = b * (a \div b) + (a % b) /\ a % b \in 0..(b - 1)
  OBVIOUS

LEMMA EpochGrows ==
  ASSUME NEW a \in Nat, NEW b \in Nat \ {0}
  PROVE  a \div b <= (a + 1) \div b
<1> DEFINE p == a \div b
           q == (a + 1) \div b
           r == a % b
           t == (a + 1) % b
<1>1. p \in Nat /\ a = b * p + r /\ r \in 0..(b - 1)
  BY Division, ZenonT(40)
<1>a. a + 1 \in Nat
  OBVIOUS
<1>2. q \in Nat /\ a + 1 = b * q + t /\ t \in 0..(b - 1)
  BY <1>a, Division, ZenonT(40)
<1> HIDE DEF p, q, r, t
<1>3. ASSUME p > q PROVE FALSE
  <2>1. p - q - 1 \in Nat
    BY <1>1, <1>2, <1>3
  <2>2. b * (p - q - 1) >= 0
    BY <2>1
  <2>3. b * (p - q - 1) = b * p - b * q - b
    BY <1>1, <1>2
  <2> QED BY <1>1, <1>2, <2>2, <2>3
<1>4. p <= q
  BY <1>1, <1>2, <1>3
<1> QED BY <1>4 DEF p, q

LEMMA NewsAppended ==
  ASSUME NEW k, NEW q \in Seq(Statuses), NEW c \in Statuses, NEW d \in Statuses,
         NewsOK(k, q, c), Follows(c, d)
  PROVE  NewsOK(k, Append(q, d), d)
<1> DEFINE r == Append(q, d)
           m == Len(q)
<1>1. /\ m \in Nat /\ Len(r) = m + 1 /\ r[m + 1] = d /\ r # <<>>
      /\ \A i \in 1..m : r[i] = q[i]
  OBVIOUS
<1> HIDE DEF r
<1>2. CASE q = <<>>
  <2>1. m = 0 /\ Follows(k, d)
    BY <1>2 DEF NewsOK
  <2> QED BY <1>1, <2>1 DEF NewsOK, r
<1>3. CASE q # <<>>
  <2>1. m >= 1 /\ q[m] = c /\ Follows(k, q[1])
    BY <1>1, <1>3 DEF NewsOK
  <2>2. Follows(k, r[1]) /\ r[Len(r)] = d
    BY <1>1, <2>1
  <2>3. ASSUME NEW i \in 1..(Len(r) - 1) PROVE Follows(r[i], r[i + 1])
    <3>1. CASE i = m
      <4>1. r[i] = c /\ r[i + 1] = d
        BY <1>1, <2>1, <3>1
      <4> QED BY <4>1
    <3>2. CASE i # m
      <4>1. i \in 1..(m - 1) /\ i \in 1..m /\ i + 1 \in 1..m
        BY <1>1, <2>3, <3>2
      <4> QED BY <1>1, <4>1 DEF NewsOK
    <3> QED BY <3>1, <3>2
  <2> QED BY <1>1, <2>2, <2>3 DEF NewsOK, r
<1> QED BY <1>2, <1>3

LEMMA NewsTaken ==
  ASSUME NEW k, NEW q \in Seq(Statuses), q # <<>>, NEW c, NewsOK(k, q, c)
  PROVE  /\ NewsOK(Head(q), Tail(q), c) /\ Follows(k, Head(q)) /\ Head(q) \in Statuses
         /\ Tail(q) \in Seq(Statuses)
<1> DEFINE r == Tail(q)
           h == Head(q)
           m == Len(r)
<1>1. /\ m \in Nat /\ Len(q) = m + 1 /\ q[1] = h /\ h \in Statuses /\ r \in Seq(Statuses)
      /\ \A i \in 1..m : r[i] = q[i + 1]
  OBVIOUS
<1> HIDE DEF r, h
<1>2. Follows(k, h) /\ q[m + 1] = c
  BY <1>1 DEF NewsOK
<1>3. \A i \in 1..m : Follows(q[i], q[i + 1])
  BY <1>1 DEF NewsOK
<1>4. r = <<>> => h = c
  BY <1>1, <1>2
<1>5. ASSUME r # <<>> PROVE Follows(h, r[1]) /\ r[m] = c
  <2>1. m >= 1 /\ 1 \in 1..m /\ m \in 1..m
    BY <1>1, <1>5
  <2>2. r[1] = q[2] /\ r[m] = q[m + 1]
    BY <1>1, <2>1
  <2> QED BY <1>1, <1>2, <1>3, <2>1, <2>2
<1>6. ASSUME NEW i \in 1..(m - 1) PROVE Follows(r[i], r[i + 1])
  <2>1. i \in 1..m /\ i + 1 \in 1..m
    BY <1>1
  <2>2. r[i] = q[i + 1] /\ r[i + 1] = q[(i + 1) + 1]
    BY <1>1, <2>1
  <2> QED BY <1>3, <2>1, <2>2
<1> QED BY <1>1, <1>2, <1>4, <1>5, <1>6 DEF NewsOK, r, h

\* The chain's status of a scheme moves on, and the worker will hear of it.
LEMMA ChainUpdateKeeps ==
  ASSUME ChurpTypes, StatusInOrder, NEW s \in Schemes, NEW st \in Statuses,
         Follows(chain[s], st), st.on => st.next <= Epoch + 2, ChainUpdate(s, st),
         height' = height, known' = known
  PROVE  /\ StatusInOrder' /\ chain' \in [Schemes -> Statuses]
         /\ DOMAIN news' = {"epoch", "status"} /\ news'.status \in [Schemes -> Seq(Statuses)]
<1>1. /\ chain \in [Schemes -> Statuses] /\ DOMAIN news = {"epoch", "status"}
      /\ news.status \in [Schemes -> Seq(Statuses)]
  BY DEF ChurpTypes
<1>2. /\ chain' \in [Schemes -> Statuses] /\ chain'[s] = st
      /\ \A x \in Schemes \ {s} : chain'[x] = chain[x]
  BY <1>1 DEF ChainUpdate
<1>3. /\ DOMAIN news' = {"epoch", "status"}
      /\ news'.status = [news.status EXCEPT ![s] = Append(@, st)]
  BY <1>1 DEF ChainUpdate
<1>4. Append(news.status[s], st) \in Seq(Statuses)
  BY <1>1
<1>5. /\ news'.status \in [Schemes -> Seq(Statuses)]
      /\ news'.status[s] = Append(news.status[s], st)
      /\ \A x \in Schemes \ {s} : news'.status[x] = news.status[x]
  BY <1>1, <1>3, <1>4
<1>6. Epoch' = Epoch
  BY DEF Epoch
<1>7. ASSUME NEW x \in Schemes
      PROVE  /\ chain'[x].on => chain'[x].next <= Epoch + 2
             /\ NewsOK(known[x], news'.status[x], chain'[x])
  <2>1. CASE x = s
    <3>1. NewsOK(known[s], news.status[s], chain[s])
      BY DEF StatusInOrder
    <3>2. chain[s] \in Statuses /\ news.status[s] \in Seq(Statuses)
      BY <1>1
    <3>3. NewsOK(known[s], Append(news.status[s], st), st)
      BY <3>1, <3>2, NewsAppended
    <3> QED BY <1>2, <1>5, <2>1, <3>3, ZenonT(40)
  <2>2. CASE x # s
    BY <1>2, <1>5, <2>2 DEF StatusInOrder
  <2> QED BY <2>1, <2>2
<1>8. StatusInOrder'
  BY <1>6, <1>7 DEF StatusInOrder
<1> QED BY <1>2, <1>3, <1>5, <1>8

\* A goroutine belongs to a running task of the task tables sb and hd.
Held(j, sb, hd) ==
  j.kind # "finish" /\ ~j.cancelled =>
    LET t == IF j.kind = "submit" THEN sb[j.s] ELSE hd[j.s]
    IN  ~stopped /\ t.state = "running" /\ t.st.next = j.st.next

LEMMA CancelledFacts ==
  ASSUME NEW js, \A j \in js : JobOK(j), NEW kind, NEW ss, NEW j \in Cancelled(js, kind, ss)
  PROVE  /\ JobOK(j)
         /\ \E i \in js : /\ j.kind = i.kind /\ j.s = i.s /\ j.st = i.st
                          /\ ~j.cancelled => ~i.cancelled /\ ~(i.kind = kind /\ i.s \in ss)
<1>1. PICK i \in js : j = IF i.kind = kind /\ i.s \in ss THEN [i EXCEPT !.cancelled = TRUE] ELSE i
  BY DEF Cancelled
<1>2. CASE i.kind = kind /\ i.s \in ss
  <2>1. j = [i EXCEPT !.cancelled = TRUE] /\ JobOK(i)
    BY <1>1, <1>2
  <2>2. j.kind = i.kind /\ j.s = i.s /\ j.st = i.st /\ j.cancelled = TRUE /\ DOMAIN j = DOMAIN i
    BY <2>1 DEF JobOK
  <2>3. JobOK(j)
    BY <2>1, <2>2 DEF JobOK
  <2> QED BY <2>2, <2>3
<1>3. CASE ~(i.kind = kind /\ i.s \in ss)
  BY <1>1, <1>3
<1> QED BY <1>2, <1>3

\* Both queues cancelled what they removed.
LEMMA CancelledTwice ==
  ASSUME \A j \in jobs : JobOK(j), NEW ss, NEW hs,
         NEW j \in Cancelled(Cancelled(jobs, "submit", ss), "handoff", hs)
  PROVE  /\ JobOK(j)
         /\ \E i \in jobs : /\ j.kind = i.kind /\ j.s = i.s /\ j.st = i.st
                            /\ ~j.cancelled => /\ ~i.cancelled
                                               /\ i.kind = "submit" => i.s \notin ss
                                               /\ i.kind = "handoff" => i.s \notin hs
<1> DEFINE js == Cancelled(jobs, "submit", ss)
<1>1. \A i \in js : /\ JobOK(i)
                    /\ \E o \in jobs : /\ i.kind = o.kind /\ i.s = o.s /\ i.st = o.st
                                       /\ ~i.cancelled => ~o.cancelled /\ ~(o.kind = "submit" /\ o.s \in ss)
  BY CancelledFacts
<1> HIDE DEF js
<1>2. /\ JobOK(j)
      /\ \E i \in js : /\ j.kind = i.kind /\ j.s = i.s /\ j.st = i.st
                       /\ ~j.cancelled => ~i.cancelled /\ ~(i.kind = "handoff" /\ i.s \in hs)
  BY <1>1, CancelledFacts DEF js
<1> QED BY <1>1, <1>2

LEMMA StatusFields ==
  ASSUME NEW st \in Statuses
  PROVE  /\ st.handoff \in Nat /\ st.next \in Nat /\ st.on \in BOOLEAN
         /\ st.mine \in {"none", "applied", "done"}
  BY DEF Statuses

LEMMA NoTaskState == NoTask.state = "none"
  BY DEF NoTask

LEMMA TaskFields ==
  ASSUME NEW st \in Statuses, NEW h
  PROVE  /\ TaskOK(Task(st, h)) /\ Task(st, h) # NoTask /\ Task(st, h).st = st
         /\ Task(st, h).state = "queued"
<1>1. /\ DOMAIN Task(st, h) = {"state", "st", "height"}
      /\ Task(st, h).state = "queued" /\ Task(st, h).st = st
  BY DEF Task
<1>2. Task(st, h) # NoTask
  BY <1>1, NoTaskState
<1> QED BY <1>1, <1>2 DEF TaskOK

\* What the queues do to a task keeps its status.
LEMMA TaskMoved ==
  ASSUME NEW t, TaskOK(t), t # NoTask, NEW v \in {"running", "cleared"}
  PROVE  /\ TaskOK([t EXCEPT !.state = v]) /\ [t EXCEPT !.state = v] # NoTask
         /\ [t EXCEPT !.state = v].st = t.st /\ [t EXCEPT !.state = v].state = v
<1> DEFINE u == [t EXCEPT !.state = v]
<1>1. DOMAIN t = {"state", "st", "height"} /\ t.st \in Statuses
  BY DEF TaskOK
<1>2. DOMAIN u = {"state", "st", "height"} /\ u.st = t.st /\ u.state = v
  BY <1>1
<1> HIDE DEF u
<1>3. u # NoTask
  BY <1>2, NoTaskState
<1>4. TaskOK(u)
  BY <1>1, <1>2 DEF TaskOK
<1> QED BY <1>2, <1>3, <1>4 DEF u

LEMMA TaskRestated ==
  ASSUME NEW t, TaskOK(t), t # NoTask, NEW st \in Statuses
  PROVE  /\ TaskOK([t EXCEPT !.st = st]) /\ [t EXCEPT !.st = st] # NoTask
         /\ [t EXCEPT !.st = st].st = st /\ [t EXCEPT !.st = st].state = t.state
<1> DEFINE u == [t EXCEPT !.st = st]
<1>1. DOMAIN t = {"state", "st", "height"} /\ t.state \in {"queued", "running", "cleared"}
  BY DEF TaskOK
<1>2. DOMAIN u = {"state", "st", "height"} /\ u.st = st /\ u.state = t.state
  BY <1>1
<1> HIDE DEF u
<1>3. u # NoTask
  BY <1>1, <1>2, NoTaskState
<1>4. TaskOK(u)
  BY <1>1, <1>2 DEF TaskOK
<1> QED BY <1>2, <1>3, <1>4 DEF u

\* The queue table r differs from q only in tasks that were dropped, cleared
\* or started: each is for the handoff it was for.
Same(q, r, s) ==
  /\ TaskOK(r[s])
  /\ r[s] # NoTask => q[s] # NoTask /\ r[s].st = q[s].st

\* handleNewEpoch on one queue: what it removed is what it cancelled.
LEMMA QueueCleared ==
  ASSUME NEW q, \A s \in Schemes : TaskOK(q[s]), NEW e, NEW f, NEW s \in Schemes
  PROVE  LET r == Clear(Removed(q, CancelSet(q, f)), e)
         IN  /\ Same(q, r, s)
             /\ q[s].state = "running" /\ s \notin CancelSet(q, f) => r[s] = q[s]
<1> DEFINE cs == CancelSet(q, f)
           p == Removed(q, cs)
           r == Clear(p, e)
<1>1. p[s] = IF s \in cs THEN NoTask ELSE q[s]
  BY DEF Removed
<1> HIDE DEF p
<1>2. r[s] = IF p[s].state = "queued" /\ p[s].st.next < e
             THEN [p[s] EXCEPT !.state = "cleared"] ELSE p[s]
  BY DEF Clear
<1> HIDE DEF r, cs
<1>3. TaskOK(p[s]) /\ (p[s] # NoTask => q[s] # NoTask /\ p[s] = q[s])
  BY <1>1 DEF TaskOK
<1>4. CASE p[s].state = "queued" /\ p[s].st.next < e
  <2>1. p[s] # NoTask /\ r[s] = [p[s] EXCEPT !.state = "cleared"]
    BY <1>2, <1>4, NoTaskState
  <2>2. TaskOK(r[s]) /\ r[s].st = p[s].st
    BY <1>3, <2>1, TaskMoved, ZenonT(40)
  <2>3. p[s] = q[s] /\ q[s].state # "running"
    BY <1>3, <1>4, <2>1
  <2> QED BY <1>3, <2>1, <2>2, <2>3 DEF Same, r, p, cs
<1>5. CASE ~(p[s].state = "queued" /\ p[s].st.next < e)
  <2>1. r[s] = p[s]
    BY <1>2, <1>5
  <2>2. Same(q, r, s)
    BY <1>3, <2>1 DEF Same
  <2>3. s \notin cs => r[s] = q[s]
    BY <1>1, <2>1
  <2> QED BY <2>2, <2>3 DEF r, p, cs
<1> QED BY <1>4, <1>5

\* handleNewBlock on one queue.
LEMMA QueueStarted ==
  ASSUME NEW q, \A s \in Schemes : TaskOK(q[s]), NEW h, NEW s \in Schemes
  PROVE  LET r == StartedTasks(q, h)
         IN  /\ Same(q, r, s)
             /\ q[s].state = "running" => r[s] = q[s]
             /\ s \in Eligible(q, h) => r[s].state = "running" /\ r[s].st = q[s].st
<1> DEFINE r == StartedTasks(q, h)
           el == Eligible(q, h)
<1>1. r[s] = IF s \in el THEN [q[s] EXCEPT !.state = "running"] ELSE q[s]
  BY DEF StartedTasks
<1>2. s \in el => q[s].state = "queued"
  BY DEF Eligible
<1> HIDE DEF r, el
<1>3. CASE s \in el
  <2>1. q[s] # NoTask /\ TaskOK(q[s]) /\ r[s] = [q[s] EXCEPT !.state = "running"]
    BY <1>1, <1>2, <1>3, NoTaskState
  <2>2. TaskOK(r[s]) /\ r[s].st = q[s].st /\ r[s].state = "running"
    BY <2>1, TaskMoved, ZenonT(40)
  <2>3. q[s].state # "running"
    BY <1>2, <1>3
  <2> QED BY <1>3, <2>1, <2>2, <2>3 DEF Same, r, el
<1>4. CASE s \notin el
  BY <1>1, <1>4 DEF Same, r, el
<1> QED BY <1>3, <1>4

LEMMA QueueStopped ==
  ASSUME NEW q, \A s \in Schemes : TaskOK(q[s]), NEW rs, NEW s \in Schemes
  PROVE  Same(q, Removed(q, rs), s)
  BY DEF Removed, Same, TaskOK

\* Tasks that were only dropped, cleared or started are still current.
LEMMA TasksStayCurrent ==
  ASSUME ChurpInv, known' = known,
         DOMAIN sub' = Schemes, DOMAIN hand' = Schemes,
         \A s \in Schemes : Same(sub, sub', s) /\ Same(hand, hand', s)
  PROVE  TasksCurrent' /\ \A s \in Schemes : TaskOK(sub'[s]) /\ TaskOK(hand'[s])
<1>1. TasksCurrent
  BY DEF ChurpInv
<1>2. ASSUME NEW s \in Schemes
      PROVE  /\ TaskOK(sub'[s]) /\ TaskOK(hand'[s])
             /\ sub'[s] # NoTask => known'[s].on /\ sub'[s].st.next = known'[s].next
             /\ hand'[s] # NoTask => known'[s].on /\ hand'[s].st.next = known'[s].next
  <2>1. Same(sub, sub', s) /\ Same(hand, hand', s)
    OBVIOUS
  <2> QED BY <1>1, <2>1 DEF TasksCurrent, Same
<1> QED BY <1>2 DEF TasksCurrent

\* A goroutine just started belongs to the task that was started with it.
IsJob(j, kind, s, st) ==
  JobOK(j) /\ j.kind = kind /\ j.s = s /\ j.st = st /\ j.cancelled = FALSE

LEMMA JobFields ==
  ASSUME NEW kind \in {"submit", "handoff", "finish"}, NEW s \in Schemes, NEW st, NEW h,
         NEW j, j = Job(kind, s, st, h)
  PROVE  IsJob(j, kind, s, st)
<1>1. /\ DOMAIN j = {"kind", "s", "st", "stage", "attempts", "until", "cancelled"}
      /\ j.kind = kind /\ j.s = s /\ j.st = st /\ j.cancelled = FALSE
  BY DEF Job
<1> QED BY <1>1, ZenonT(40) DEF JobOK, IsJob

LEMMA EpochNat ==
  ASSUME Blocks \in Nat \ {0}, height \in Nat
  PROVE  Epoch \in Nat
  BY Division DEF Epoch

LEMMA ChurpInit ==
  ASSUME Blocks \in Nat \ {0}, InitChurp
  PROVE  ChurpInv
<1>1. /\ height \in Nat /\ known = [s \in Schemes |-> NoStatus]
      /\ sub = [s \in Schemes |-> NoTask] /\ hand = [s \in Schemes |-> NoTask] /\ jobs = {}
  BY DEF InitChurp
<1>2. PICK kind \in {"dealing", "changed"} :
        chain = [s \in Schemes |-> [handoff |-> IF kind = "dealing" THEN 0 ELSE 1, next |-> 2,
                                    mine |-> "none", kind |-> kind, on |-> TRUE]]
  BY ZenonT(40) DEF InitChurp
<1>3. \A s \in Schemes : chain[s] \in Statuses /\ chain[s].next = 2
  BY <1>2 DEF Statuses, Kinds
<1>4. chain \in [Schemes -> Statuses]
  BY <1>2, <1>3, ZenonT(40)
<1>5. /\ DOMAIN news = {"epoch", "status"}
      /\ news.status = [s \in Schemes |-> <<chain[s]>>]
  BY DEF InitChurp
<1>6. NoStatus \in Statuses /\ NoStatus.on = FALSE
  BY DEF NoStatus, Statuses
<1>7. Epoch \in Nat
  BY <1>1, EpochNat
<1>8. ASSUME NEW s \in Schemes PROVE NewsOK(known[s], news.status[s], chain[s])
  <2>1. news.status[s] = <<chain[s]>> /\ known[s] = NoStatus
    BY <1>1, <1>5
  <2>2. Follows(NoStatus, chain[s])
    BY <1>6 DEF Follows
  <2> QED BY <2>1, <2>2 DEF NewsOK
<1>9. StatusInOrder
  BY <1>3, <1>7, <1>8 DEF StatusInOrder
<1>10. known \in [Schemes -> Statuses]
  BY <1>1, <1>6
<1>11. news.status \in [Schemes -> Seq(Statuses)]
  BY <1>3, <1>5
<1>12. ChurpTypes
  BY <1>1, <1>4, <1>5, <1>10, <1>11 DEF ChurpTypes, TaskOK
<1>13. TasksCurrent /\ JobsRunning
  BY <1>1 DEF TasksCurrent, JobsRunning
<1> QED BY <1>9, <1>12, <1>13 DEF ChurpInv

LEMMA StatusRecord ==
  ASSUME NEW st \in Statuses
  PROVE  /\ st = [handoff |-> st.handoff, next |-> st.next, mine |-> st.mine, kind |-> st.kind, on |-> st.on]
         /\ st.handoff \in Nat /\ st.next \in Nat /\ st.mine \in {"none", "applied", "done"}
         /\ st.kind \in Kinds \union {"none"} /\ st.on \in BOOLEAN
  BY DEF Statuses

LEMMA AtEpochFollows ==
  ASSUME NEW st \in Statuses, NEW e \in Nat, NEW enough, NEW f \in Nat,
         st.on => st.next <= f + 2, f <= e
  PROVE  LET d == AtEpoch(st, e, enough)
         IN  d \in Statuses /\ Follows(st, d) /\ (d.on => d.next <= e + 2)
<1> DEFINE d == AtEpoch(st, e, enough)
           x == [st EXCEPT !.next = e + 1, !.mine = "none"]
<1>1. st.next \in Nat /\ st.on \in BOOLEAN
  BY DEF Statuses
<1>2. CASE ~st.on \/ e < st.next \/ (e = st.next /\ enough)
  <2>1. d = st
    BY <1>2 DEF AtEpoch
  <2> HIDE DEF d
  <2>2. Follows(st, st)
    BY <1>1 DEF Follows
  <2> QED BY <1>1, <2>1, <2>2 DEF d
<1>3. CASE ~(~st.on \/ e < st.next \/ (e = st.next /\ enough))
  <2>1. d = x
    BY <1>3 DEF AtEpoch
  <2>a. e + 1 \in Nat
    OBVIOUS
  <2>b. x \in Statuses
    BY <2>a, Zenon DEF Statuses
  <2>c. x.next = e + 1 /\ x.on = st.on
    BY DEF Statuses
  <2> HIDE DEF d, x
  <2>3. st.next <= e
    BY <1>1, <1>3
  <2>4. Follows(st, d) /\ d.next <= e + 2 /\ d \in Statuses
    BY <1>1, <2>1, <2>b, <2>c, <2>3 DEF Follows
  <2> QED BY <2>4 DEF d
<1> QED BY <1>2, <1>3

\* The tables of the worker are as they were.
WorkerSame == known' = known /\ sub' = sub /\ hand' = hand /\ stopped' = stopped

LEMMA TablesKept ==
  ASSUME ChurpInv, WorkerSame
  PROVE  /\ TasksCurrent' /\ known' \in [Schemes -> Statuses]
         /\ DOMAIN sub' = Schemes /\ DOMAIN hand' = Schemes
         /\ \A s \in Schemes : TaskOK(sub'[s]) /\ TaskOK(hand'[s])
  BY DEF ChurpInv, WorkerSame, TasksCurrent, ChurpTypes

LEMMA JobsKept ==
  ASSUME ChurpInv, WorkerSame, jobs' = jobs
  PROVE  JobsRunning' /\ \A j \in jobs' : JobOK(j)
  BY DEF ChurpInv, WorkerSame, JobsRunning, ChurpTypes

LEMMA NewBlockKeeps ==
  ASSUME Blocks \in Nat \ {0}, ChurpInv, NEW enough \in BOOLEAN, ChurpBlock(enough)
  PROVE  ChurpInv'
<1> DEFINE e == height' \div Blocks
           new == [s \in Schemes |-> AtEpoch(chain[s], e, enough)]
<1>1. height \in Nat /\ height' = height + 1 /\ height' \in Nat
  BY DEF ChurpInv, ChurpTypes, ChurpBlock
<1>2. Epoch \in Nat /\ e \in Nat /\ Epoch <= e /\ Epoch' = e
  <2>1. Epoch \in Nat
    BY <1>1, EpochNat
  <2>2. Epoch <= e
    BY <1>1, EpochGrows DEF Epoch
  <2>3. e \in Nat
    BY <1>1, Division
  <2> QED BY <2>1, <2>2, <2>3 DEF Epoch
<1>3. WorkerSame /\ jobs' = jobs
  BY DEF ChurpBlock, WorkerSame
<1>4. /\ chain \in [Schemes -> Statuses] /\ DOMAIN news = {"epoch", "status"}
      /\ news.status \in [Schemes -> Seq(Statuses)]
  BY DEF ChurpInv, ChurpTypes
<1>5. \A s \in Schemes : /\ chain[s].on => chain[s].next <= Epoch + 2
                         /\ NewsOK(known[s], news.status[s], chain[s])
  BY DEF ChurpInv, StatusInOrder
<1>6. /\ StatusInOrder' /\ chain' \in [Schemes -> Statuses]
      /\ DOMAIN news' = {"epoch", "status"} /\ news'.status \in [Schemes -> Seq(Statuses)]
  <2>1. CASE height' % Blocks # 0
    <3>1. chain' = chain /\ news' = news /\ known' = known
      BY <2>1 DEF ChurpBlock
    <3>2. \A s \in Schemes : chain[s].on => chain[s].next <= e + 2
      <4> HIDE DEF e
      <4>1. \A s \in Schemes : chain[s].next \in Nat
        BY <1>4, StatusFields
      <4> QED BY <1>2, <1>5, <4>1
    <3> HIDE DEF e
    <3>3. StatusInOrder'
      BY <1>2, <1>5, <3>1, <3>2 DEF StatusInOrder
    <3> QED BY <1>4, <3>1, <3>3
  <2>2. CASE height' % Blocks = 0
    <3>1. chain' = new
      BY <2>2 DEF ChurpBlock
    <3>2. news' = [epoch |-> Append(news.epoch, e),
                   status |-> [s \in Schemes |-> IF new[s] = chain[s] THEN news.status[s]
                                                 ELSE Append(news.status[s], new[s])]]
      BY <2>2 DEF ChurpBlock
    <3>3. /\ DOMAIN news' = {"epoch", "status"} /\ DOMAIN news'.status = Schemes
          /\ \A s \in Schemes : news'.status[s] = IF new[s] = chain[s] THEN news.status[s]
                                                  ELSE Append(news.status[s], new[s])
      BY <3>2
    <3>4. \A s \in Schemes : new[s] = AtEpoch(chain[s], e, enough)
      OBVIOUS
    <3>5. known' = known /\ DOMAIN new = Schemes
      BY DEF ChurpBlock
    <3> HIDE DEF e, new
    <3>6. ASSUME NEW s \in Schemes
          PROVE  /\ new[s] \in Statuses /\ (new[s].on => new[s].next <= e + 2)
                 /\ news'.status[s] \in Seq(Statuses)
                 /\ NewsOK(known[s], news'.status[s], new[s])
      <4>1. chain[s] \in Statuses /\ news.status[s] \in Seq(Statuses)
        BY <1>4
      <4>2. new[s] \in Statuses /\ Follows(chain[s], new[s]) /\ (new[s].on => new[s].next <= e + 2)
        BY <1>2, <1>5, <3>4, <4>1, AtEpochFollows, ZenonT(40)
      <4>3. NewsOK(known[s], Append(news.status[s], new[s]), new[s])
        BY <1>5, <4>1, <4>2, NewsAppended
      <4>4. Append(news.status[s], new[s]) \in Seq(Statuses)
        BY <4>1, <4>2
      <4>5. CASE new[s] = chain[s]
        BY <1>5, <3>3, <4>1, <4>2, <4>5
      <4>6. CASE new[s] # chain[s]
        BY <3>3, <4>2, <4>3, <4>4, <4>6, ZenonT(40)
      <4> QED BY <4>5, <4>6
    <3>7. StatusInOrder'
      BY <1>2, <3>1, <3>5, <3>6 DEF StatusInOrder
    <3>8. news'.status \in [Schemes -> Seq(Statuses)]
      <4>1. news'.status = [s \in Schemes |-> news'.status[s]]
        BY <3>2
      <4> QED BY <3>6, <4>1
    <3>9. new \in [Schemes -> Statuses]
      <4>1. new = [s \in Schemes |-> new[s]]
        BY DEF new
      <4> QED BY <3>6, <4>1
    <3> QED BY <3>1, <3>3, <3>7, <3>8, <3>9
  <2> QED BY <2>1, <2>2
<1> HIDE DEF e, new
<1>7. /\ TasksCurrent' /\ known' \in [Schemes -> Statuses]
      /\ DOMAIN sub' = Schemes /\ DOMAIN hand' = Schemes
      /\ \A s \in Schemes : TaskOK(sub'[s]) /\ TaskOK(hand'[s])
  BY <1>3, TablesKept
<1>8. JobsRunning' /\ \A j \in jobs' : JobOK(j)
  BY <1>3, JobsKept
<1>9. ChurpTypes'
  BY <1>1, <1>6, <1>7, <1>8 DEF ChurpTypes
<1> QED BY <1>6, <1>7, <1>8, <1>9 DEF ChurpInv

\* The statuses that consensus gives a scheme.
Completed(c, f, kind) == [c EXCEPT !.handoff = c.next, !.next = f, !.mine = "none", !.kind = kind]
Toggled(c, f) == [c EXCEPT !.on = ~@, !.mine = "none", !.next = IF c.on THEN Off ELSE f]
Marked(c, m) == [c EXCEPT !.mine = m]

LEMMA CompletedStatus ==
  ASSUME NEW c \in Statuses, NEW f \in Nat, NEW kind \in Kinds
  PROVE  /\ Completed(c, f, kind) \in Statuses
         /\ Completed(c, f, kind).next = f /\ Completed(c, f, kind).on = c.on
<1>1. kind \in Kinds \union {"none"}
  OBVIOUS
<1>2. Completed(c, f, kind) \in Statuses
  BY <1>1, Zenon DEF Completed, Statuses
<1>3. Completed(c, f, kind).next = f /\ Completed(c, f, kind).on = c.on
  BY DEF Completed, Statuses
<1> QED BY <1>2, <1>3

LEMMA ToggledStatus ==
  ASSUME NEW c \in Statuses, NEW f \in Nat, Off \in Nat
  PROVE  /\ Toggled(c, f) \in Statuses
         /\ Toggled(c, f).on = ~c.on /\ Toggled(c, f).next = IF c.on THEN Off ELSE f
<1>1. (IF c.on THEN Off ELSE f) \in Nat
  OBVIOUS
<1>2. Toggled(c, f) \in Statuses
  BY <1>1, Zenon DEF Toggled, Statuses
<1>3. Toggled(c, f).on = ~c.on /\ Toggled(c, f).next = IF c.on THEN Off ELSE f
  BY Zenon DEF Toggled, Statuses
<1> QED BY <1>2, <1>3

LEMMA MarkedStatus ==
  ASSUME NEW c \in Statuses, NEW m \in {"applied", "done"}
  PROVE  /\ Marked(c, m) \in Statuses /\ Marked(c, m).next = c.next /\ Marked(c, m).on = c.on
<1>1. m \in {"none", "applied", "done"}
  OBVIOUS
<1>2. Marked(c, m) \in Statuses
  BY <1>1, Zenon DEF Marked, Statuses
<1>3. Marked(c, m).next = c.next /\ Marked(c, m).on = c.on
  BY DEF Marked, Statuses
<1> QED BY <1>2, <1>3

\* Consensus completes a handoff, changes the configuration or accepts a
\* transaction: the new status is for no earlier handoff.
LEMMA ConsensusSteps ==
  ASSUME Blocks \in Nat \ {0}, MaxHeight \in Nat, ChurpInv, NEW s \in Schemes, NEW st,
         \/ \E kind \in Kinds : st = Completed(chain[s], Epoch + 2, kind)
         \/ st = Toggled(chain[s], Epoch + 2)
         \/ \E m \in {"applied", "done"} : st = Marked(chain[s], m)
  PROVE  st \in Statuses /\ Follows(chain[s], st) /\ (st.on => st.next <= Epoch + 2)
<1> DEFINE c == chain[s]
           f == Epoch + 2
<1>1. c \in Statuses /\ height \in Nat
  BY DEF ChurpInv, ChurpTypes
<1>2. f \in Nat /\ Off \in Nat
  <2>1. Epoch \in Nat
    BY <1>1, EpochNat
  <2> QED BY <2>1 DEF Off
<1>3. c.on => c.next <= f
  BY DEF ChurpInv, StatusInOrder
<1>4. /\ c.handoff \in Nat /\ c.next \in Nat /\ c.mine \in {"none", "applied", "done"}
      /\ c.kind \in Kinds \union {"none"} /\ c.on \in BOOLEAN
  BY <1>1, StatusRecord
<1>5. ASSUME NEW kind \in Kinds, st = Completed(c, f, kind)
      PROVE  st \in Statuses /\ Follows(c, st) /\ (st.on => st.next <= f)
  <2> HIDE DEF c, f
  <2>1. st \in Statuses /\ st.on = c.on /\ st.next = f
    BY <1>1, <1>2, <1>5, CompletedStatus, SMTT(40)
  <2> QED BY <1>2, <1>3, <2>1 DEF Follows
<1>6. ASSUME st = Toggled(c, f)
      PROVE  st \in Statuses /\ Follows(c, st) /\ (st.on => st.next <= f)
  <2> HIDE DEF c, f
  <2>1. st \in Statuses /\ st.on = ~c.on /\ st.next = IF c.on THEN Off ELSE f
    BY <1>1, <1>2, <1>6, ToggledStatus
  <2>2. Follows(c, st)
    BY <2>1, Zenon DEF Follows
  <2>3. st.on => st.next = f
    BY <2>1, Zenon
  <2> QED BY <1>2, <2>1, <2>2, <2>3
<1>7. ASSUME NEW m \in {"applied", "done"}, st = Marked(c, m)
      PROVE  st \in Statuses /\ Follows(c, st) /\ (st.on => st.next <= f)
  <2> HIDE DEF c, f
  <2>1. st \in Statuses /\ st.on = c.on /\ st.next = c.next
    BY <1>1, <1>7, MarkedStatus, Zenon
  <2> QED BY <1>2, <1>3, <1>4, <2>1 DEF Follows
<1> QED BY <1>5, <1>6, <1>7, Zenon

\* The steps of consensus that leave the goroutines alone.
LEMMA ChainKeeps ==
  ASSUME Blocks \in Nat \ {0}, MaxHeight \in Nat, ChurpInv, NEW s \in Schemes,
         (\E kind \in Kinds : HandoffCompletes(s, kind)) \/ ConfigUpdate(s)
  PROVE  ChurpInv'
<1>1. /\ WorkerSame /\ jobs' = jobs /\ height' = height
      /\ \E st : /\ ChainUpdate(s, st)
                 /\ \/ \E kind \in Kinds : st = Completed(chain[s], Epoch + 2, kind)
                    \/ st = Toggled(chain[s], Epoch + 2)
  BY ZenonT(20) DEF HandoffCompletes, ConfigUpdate, WorkerSame, Completed, Toggled
<1>2. PICK st : ChainUpdate(s, st) /\ st \in Statuses /\ Follows(chain[s], st)
                /\ (st.on => st.next <= Epoch + 2)
  BY <1>1, ConsensusSteps, ZenonT(20)
<1>3. ChurpTypes /\ StatusInOrder /\ known' = known
  BY <1>1, Zenon DEF ChurpInv, WorkerSame
<1>4. /\ StatusInOrder' /\ chain' \in [Schemes -> Statuses]
      /\ DOMAIN news' = {"epoch", "status"} /\ news'.status \in [Schemes -> Seq(Statuses)]
  BY <1>1, <1>2, <1>3, ChainUpdateKeeps
<1>5. /\ TasksCurrent' /\ known' \in [Schemes -> Statuses]
      /\ DOMAIN sub' = Schemes /\ DOMAIN hand' = Schemes
      /\ \A x \in Schemes : TaskOK(sub'[x]) /\ TaskOK(hand'[x])
  BY <1>1, TablesKept
<1>6. JobsRunning' /\ \A j \in jobs' : JobOK(j)
  BY <1>1, JobsKept, Zenon
<1>7. ChurpTypes'
  BY <1>1, <1>3, <1>4, <1>5, <1>6, Zenon DEF ChurpTypes
<1> QED BY <1>4, <1>5, <1>6, <1>7 DEF ChurpInv

\* What a goroutine becomes is as cancelled as it was, for the same handoff.
Continues(j, new) ==
  \A x \in new : JobOK(x) /\ x.kind = j.kind /\ x.s = j.s /\ x.st = j.st /\ x.cancelled = j.cancelled

LEMMA JobReplaced ==
  ASSUME ChurpInv, WorkerSame, NEW j \in jobs, NEW new, Continues(j, new), Replace(j, new)
  PROVE  JobsRunning' /\ \A x \in jobs' : JobOK(x)
<1>1. ASSUME NEW x \in jobs'
      PROVE  JobOK(x) /\ \E i \in jobs : x.kind = i.kind /\ x.s = i.s /\ x.st = i.st
                                         /\ x.cancelled = i.cancelled
  BY DEF Replace, Continues, ChurpInv, ChurpTypes
<1>2. JobsRunning'
  BY <1>1 DEF JobsRunning, ChurpInv, WorkerSame
<1> QED BY <1>1, <1>2

LEMMA JobMoved ==
  ASSUME NEW j, JobOK(j), NEW a, NEW b
  PROVE  /\ Continues(j, {}) /\ Continues(j, {[j EXCEPT !.stage = a, !.attempts = b]})
         /\ Continues(j, {[j EXCEPT !.stage = a]}) /\ Continues(j, {[j EXCEPT !.attempts = b]})
<1> DEFINE x == [j EXCEPT !.stage = a, !.attempts = b]
           y == [j EXCEPT !.stage = a]
           z == [j EXCEPT !.attempts = b]
           Good(w) == /\ DOMAIN w = DOMAIN j /\ w.kind = j.kind /\ w.s = j.s /\ w.st = j.st
                      /\ w.cancelled = j.cancelled
<1>1. DOMAIN j = {"kind", "s", "st", "stage", "attempts", "until", "cancelled"}
  BY DEF JobOK
<1>2. Good(x) /\ Good(y) /\ Good(z)
  BY <1>1
<1> HIDE DEF x, y, z
<1>3. \A w : Good(w) => Continues(j, {w})
  BY DEF Continues, JobOK
<1>4. Continues(j, {x}) /\ Continues(j, {y}) /\ Continues(j, {z})
  BY <1>2, <1>3
<1>5. Continues(j, {})
  BY DEF Continues
<1> QED BY <1>4, <1>5 DEF x, y, z

LEMMA AdvanceContinues ==
  ASSUME NEW j, JobOK(j), Advance(j)
  PROVE  \E new : Replace(j, new) /\ Continues(j, new)
<1>1. CASE NextStage(j) = "end"
  <2>1. Replace(j, {})
    BY <1>1 DEF Advance
  <2> QED BY <2>1, JobMoved, ZenonT(40)
<1>2. CASE NextStage(j) # "end"
  <2>1. Replace(j, {[j EXCEPT !.stage = NextStage(j), !.attempts = 0]})
    BY <1>2 DEF Advance
  <2>2. Continues(j, {[j EXCEPT !.stage = NextStage(j), !.attempts = 0]})
    BY JobMoved, ZenonT(40)
  <2> QED BY <2>1, <2>2
<1> QED BY <1>1, <1>2

LEMMA RunKeeps ==
  ASSUME Blocks \in Nat \ {0}, MaxHeight \in Nat, ChurpInv, NEW j \in jobs, Run(j)
  PROVE  ChurpInv'
<1>1. JobOK(j) /\ j.s \in Schemes
  BY DEF ChurpInv, ChurpTypes, JobOK
<1>2. \/ Advance(j)
      \/ StageFailed(j) \/ DimSwitch(j)
  BY Zenon DEF Run, SubmitApplication, SubmitConfirmation, Fetch, FinalizeHandoff
<1>3. WorkerSame /\ height' = height
  BY <1>2, Zenon DEF Advance, StageFailed, DimSwitch, WorkerSame
<1>4. PICK new : Replace(j, new) /\ Continues(j, new)
  <2>1. CASE Advance(j)
    BY <1>1, <2>1, AdvanceContinues
  <2>2. CASE StageFailed(j)
    <3>1. Replace(j, {}) \/ Replace(j, {[j EXCEPT !.attempts = j.attempts + 1]})
      BY <2>2, Zenon DEF StageFailed
    <3> QED BY <1>1, <3>1, JobMoved, Zenon
  <2>3. CASE DimSwitch(j)
    <3>1. Replace(j, {}) \/ Replace(j, {[j EXCEPT !.stage = "distribute"]})
      BY <2>3, ZenonT(40) DEF DimSwitch
    <3> QED BY <1>1, <3>1, JobMoved, Zenon
  <2> QED BY <1>2, <2>1, <2>2, <2>3
<1>5. JobsRunning' /\ \A x \in jobs' : JobOK(x)
  BY <1>3, <1>4, JobReplaced
<1>6. \/ chain' = chain /\ news' = news
      \/ \E m \in {"applied", "done"} : ChainUpdate(j.s, Marked(chain[j.s], m))
  BY Zenon DEF Run, SubmitApplication, SubmitConfirmation, Fetch, FinalizeHandoff,
     StageFailed, DimSwitch, Marked
<1>7. ChurpTypes /\ StatusInOrder /\ known' = known
  BY <1>3, Zenon DEF ChurpInv, WorkerSame
<1>8. /\ StatusInOrder' /\ chain' \in [Schemes -> Statuses]
      /\ DOMAIN news' = {"epoch", "status"} /\ news'.status \in [Schemes -> Seq(Statuses)]
  <2>1. CASE chain' = chain /\ news' = news
    <3>1. Epoch' = Epoch
      BY <1>3, Zenon DEF Epoch
    <3> QED BY <1>7, <2>1, <3>1 DEF StatusInOrder, ChurpTypes
  <2>2. ASSUME NEW m \in {"applied", "done"}, ChainUpdate(j.s, Marked(chain[j.s], m))
        PROVE  /\ StatusInOrder' /\ chain' \in [Schemes -> Statuses]
               /\ DOMAIN news' = {"epoch", "status"} /\ news'.status \in [Schemes -> Seq(Statuses)]
    <3> DEFINE st == Marked(chain[j.s], m)
    <3>1. st \in Statuses /\ Follows(chain[j.s], st) /\ (st.on => st.next <= Epoch + 2)
      BY <1>1, ConsensusSteps
    <3>2. ChainUpdate(j.s, st)
      BY <2>2
    <3> HIDE DEF st
    <3> QED BY <1>1, <1>3, <1>7, <3>1, <3>2, ChainUpdateKeeps, Zenon
  <2> QED BY <1>6, <2>1, <2>2, Zenon
<1>9. /\ TasksCurrent' /\ known' \in [Schemes -> Statuses]
      /\ DOMAIN sub' = Schemes /\ DOMAIN hand' = Schemes
      /\ \A s \in Schemes : TaskOK(sub'[s]) /\ TaskOK(hand'[s])
  BY <1>3, TablesKept, Zenon
<1>10. ChurpTypes'
  BY <1>3, <1>5, <1>7, <1>8, <1>9, Zenon DEF ChurpTypes
<1> QED BY <1>5, <1>8, <1>9, <1>10 DEF ChurpInv

\* The worker handles something: consensus, and what it is still to tell the
\* worker of the schemes, are as they were.
ConsensusSame ==
  /\ height' = height /\ chain' = chain /\ known' = known
  /\ DOMAIN news' = {"epoch", "status"} /\ news'.status = news.status

LEMMA ConsensusKept ==
  ASSUME ChurpInv, ConsensusSame
  PROVE  /\ StatusInOrder' /\ height' \in Nat /\ chain' \in [Schemes -> Statuses]
         /\ known' \in [Schemes -> Statuses]
         /\ DOMAIN news' = {"epoch", "status"} /\ news'.status \in [Schemes -> Seq(Statuses)]
<1>1. Epoch' = Epoch
  BY Zenon DEF ConsensusSame, Epoch
<1> QED BY <1>1 DEF ChurpInv, ConsensusSame, StatusInOrder, ChurpTypes

LEMMA HandleNewEpochKeeps ==
  ASSUME ChurpInv, HandleNewEpoch
  PROVE  ChurpInv'
<1> DEFINE e == Head(news.epoch)
           cs == CancelSet(sub, e + 1)
           ch == CancelSet(hand, e)
<1>1. DOMAIN news = {"epoch", "status"} /\ (\A j \in jobs : JobOK(j)) /\ JobsRunning
      /\ \A s \in Schemes : TaskOK(sub[s]) /\ TaskOK(hand[s])
  BY DEF ChurpInv, ChurpTypes
<1>2. /\ sub' = Clear(Removed(sub, cs), e + 1) /\ hand' = Clear(Removed(hand, ch), e)
      /\ jobs' = Cancelled(Cancelled(jobs, "submit", cs), "handoff", ch)
      /\ stopped' = stopped
  BY DEF HandleNewEpoch
<1>3. ConsensusSame
  BY <1>1 DEF HandleNewEpoch, ConsensusSame
<1>4. DOMAIN sub' = Schemes /\ DOMAIN hand' = Schemes
  BY <1>2 DEF Clear
<1>5. ASSUME NEW s \in Schemes
      PROVE  /\ Same(sub, sub', s) /\ Same(hand, hand', s)
             /\ sub[s].state = "running" /\ s \notin cs => sub'[s] = sub[s]
             /\ hand[s].state = "running" /\ s \notin ch => hand'[s] = hand[s]
  <2>1. /\ Same(sub, sub', s)
        /\ sub[s].state = "running" /\ s \notin cs => sub'[s] = sub[s]
    BY <1>1, <1>2, QueueCleared
  <2>2. /\ Same(hand, hand', s)
        /\ hand[s].state = "running" /\ s \notin ch => hand'[s] = hand[s]
    BY <1>1, <1>2, QueueCleared
  <2> QED BY <2>1, <2>2, Zenon
<1> HIDE DEF cs, ch
<1>6. TasksCurrent' /\ \A s \in Schemes : TaskOK(sub'[s]) /\ TaskOK(hand'[s])
  BY <1>3, <1>4, <1>5, TasksStayCurrent, Zenon DEF ConsensusSame
<1>7. ASSUME NEW j \in jobs'
      PROVE  JobOK(j) /\ Held(j, sub', hand')
  <2>1. /\ JobOK(j)
        /\ \E i \in jobs : /\ j.kind = i.kind /\ j.s = i.s /\ j.st = i.st
                           /\ ~j.cancelled => /\ ~i.cancelled
                                              /\ i.kind = "submit" => i.s \notin cs
                                              /\ i.kind = "handoff" => i.s \notin ch
    BY <1>1, <1>2, CancelledTwice
  <2>2. PICK i \in jobs : /\ j.kind = i.kind /\ j.s = i.s /\ j.st = i.st
                          /\ ~j.cancelled => /\ ~i.cancelled
                                             /\ i.kind = "submit" => i.s \notin cs
                                             /\ i.kind = "handoff" => i.s \notin ch
    BY <2>1
  <2>3. j.s \in Schemes /\ j.kind \in {"submit", "handoff", "finish"}
    BY <2>1, Zenon DEF JobOK
  <2> QED BY <1>1, <1>5, <2>1, <2>2, <2>3 DEF JobsRunning, Held
<1>8. JobsRunning'
  BY <1>2, <1>7 DEF JobsRunning, Held
<1>9. /\ StatusInOrder' /\ height' \in Nat /\ chain' \in [Schemes -> Statuses]
      /\ known' \in [Schemes -> Statuses]
      /\ DOMAIN news' = {"epoch", "status"} /\ news'.status \in [Schemes -> Seq(Statuses)]
  BY <1>3, ConsensusKept, Zenon
<1>10. ChurpTypes'
  BY <1>4, <1>6, <1>7, <1>9, Zenon DEF ChurpTypes
<1> QED BY <1>6, <1>8, <1>9, <1>10, Zenon DEF ChurpInv

LEMMA HandleNewBlockKeeps ==
  ASSUME ChurpInv, HandleNewBlock
  PROVE  ChurpInv'
<1>a. PICK h : h = seen'
  OBVIOUS
<1> DEFINE es == Eligible(sub, h)
           eh == Eligible(hand, h)
<1>1. DOMAIN news = {"epoch", "status"} /\ (\A j \in jobs : JobOK(j)) /\ JobsRunning
      /\ \A s \in Schemes : TaskOK(sub[s]) /\ TaskOK(hand[s])
  BY DEF ChurpInv, ChurpTypes
<1>2. /\ sub' = StartedTasks(sub, h) /\ hand' = StartedTasks(hand, h)
      /\ jobs' = jobs \union {Job("submit", s, sub[s].st, h) : s \in es}
                      \union {Job("handoff", s, hand[s].st, h) : s \in eh}
      /\ stopped' = stopped /\ ~stopped
  BY <1>a DEF HandleNewBlock
<1>3. ConsensusSame
  BY <1>1 DEF HandleNewBlock, ConsensusSame
<1>4. DOMAIN sub' = Schemes /\ DOMAIN hand' = Schemes /\ es \subseteq Schemes /\ eh \subseteq Schemes
  BY <1>2, Zenon DEF StartedTasks, Eligible
<1>5. ASSUME NEW s \in Schemes
      PROVE  /\ Same(sub, sub', s) /\ Same(hand, hand', s)
             /\ sub[s].state = "running" => sub'[s] = sub[s]
             /\ hand[s].state = "running" => hand'[s] = hand[s]
             /\ s \in es => sub'[s].state = "running" /\ sub'[s].st = sub[s].st
             /\ s \in eh => hand'[s].state = "running" /\ hand'[s].st = hand[s].st
  <2>1. /\ Same(sub, sub', s)
        /\ sub[s].state = "running" => sub'[s] = sub[s]
        /\ s \in es => sub'[s].state = "running" /\ sub'[s].st = sub[s].st
    BY <1>1, <1>2, QueueStarted
  <2>2. /\ Same(hand, hand', s)
        /\ hand[s].state = "running" => hand'[s] = hand[s]
        /\ s \in eh => hand'[s].state = "running" /\ hand'[s].st = hand[s].st
    BY <1>1, <1>2, QueueStarted
  <2> QED BY <2>1, <2>2, Zenon
<1> HIDE DEF es, eh
<1>6. TasksCurrent' /\ \A s \in Schemes : TaskOK(sub'[s]) /\ TaskOK(hand'[s])
  BY <1>3, <1>4, <1>5, TasksStayCurrent, Zenon DEF ConsensusSame
<1>7. ASSUME NEW j \in jobs'
      PROVE  JobOK(j) /\ Held(j, sub', hand')
  <2>1. CASE j \in jobs
    <3>1. JobOK(j) /\ j.s \in Schemes
      BY <1>1, <2>1, Zenon DEF JobOK
    <3> QED BY <1>1, <1>5, <2>1, <3>1 DEF JobsRunning, Held
  <2>2. ASSUME NEW s \in es, j = Job("submit", s, sub[s].st, h)
        PROVE  JobOK(j) /\ Held(j, sub', hand')
    <3>a. s \in Schemes /\ "submit" \in {"submit", "handoff", "finish"}
      BY <1>4
    <3>b. IsJob(j, "submit", s, sub[s].st)
      BY <2>2, <3>a, JobFields
    <3>1. JobOK(j) /\ j.kind = "submit" /\ j.s = s /\ j.st = sub[s].st
      BY <3>b, Zenon DEF IsJob
    <3> QED BY <1>2, <1>4, <1>5, <3>1, Zenon DEF Held
  <2>3. ASSUME NEW s \in eh, j = Job("handoff", s, hand[s].st, h)
        PROVE  JobOK(j) /\ Held(j, sub', hand')
    <3>a. s \in Schemes /\ "handoff" \in {"submit", "handoff", "finish"}
      BY <1>4
    <3>b. IsJob(j, "handoff", s, hand[s].st)
      BY <2>3, <3>a, JobFields, Zenon
    <3>1. JobOK(j) /\ j.kind = "handoff" /\ j.s = s /\ j.st = hand[s].st
      BY <3>b, Zenon DEF IsJob
    <3> QED BY <1>2, <1>4, <1>5, <3>1 DEF Held
  <2> QED BY <1>2, <2>1, <2>2, <2>3, Zenon
<1>8. JobsRunning'
  BY <1>2, <1>7, Zenon DEF JobsRunning, Held
<1>9. /\ StatusInOrder' /\ height' \in Nat /\ chain' \in [Schemes -> Statuses]
      /\ known' \in [Schemes -> Statuses]
      /\ DOMAIN news' = {"epoch", "status"} /\ news'.status \in [Schemes -> Seq(Statuses)]
  BY <1>3, ConsensusKept
<1>10. ChurpTypes'
  BY <1>4, <1>6, <1>7, <1>9, Zenon DEF ChurpTypes
<1> QED BY <1>6, <1>8, <1>9, <1>10 DEF ChurpInv

LEMMA StopKeeps ==
  ASSUME ChurpInv, Stop
  PROVE  ChurpInv'
<1> DEFINE rs == ToCancel(sub, Schemes)
           rh == ToCancel(hand, Schemes)
           js == Cancelled(Cancelled(jobs, "submit", rs), "handoff", rh)
<1>1. DOMAIN news = {"epoch", "status"} /\ (\A j \in jobs : JobOK(j)) /\ JobsRunning
      /\ \A s \in Schemes : TaskOK(sub[s]) /\ TaskOK(hand[s])
  BY DEF ChurpInv, ChurpTypes
<1>2. /\ sub' = Removed(sub, rs) /\ hand' = Removed(hand, rh)
      /\ jobs' = Cancelled(js, "finish", Schemes)
  BY Zenon DEF Stop
<1>3. ConsensusSame
  BY <1>1 DEF Stop, ConsensusSame
<1>4. DOMAIN sub' = Schemes /\ DOMAIN hand' = Schemes
  BY <1>2, Zenon DEF Removed
<1>5. \A s \in Schemes : Same(sub, sub', s) /\ Same(hand, hand', s)
  BY <1>1, <1>2, QueueStopped, Zenon
<1>6. TasksCurrent' /\ \A s \in Schemes : TaskOK(sub'[s]) /\ TaskOK(hand'[s])
  BY <1>3, <1>4, <1>5, TasksStayCurrent, Zenon DEF ConsensusSame
<1>7. \A s \in Schemes : /\ sub[s].state = "running" => s \in rs
                         /\ hand[s].state = "running" => s \in rh
  BY Zenon DEF ToCancel
<1> HIDE DEF rs, rh
<1>8. \A j \in js : /\ JobOK(j) /\ (j.kind = "finish" \/ j.cancelled)
  <2> SUFFICES ASSUME NEW j \in js PROVE JobOK(j) /\ (j.kind = "finish" \/ j.cancelled)
    BY Zenon
  <2>1. /\ JobOK(j)
        /\ \E i \in jobs : /\ j.kind = i.kind /\ j.s = i.s /\ j.st = i.st
                           /\ ~j.cancelled => /\ ~i.cancelled
                                              /\ i.kind = "submit" => i.s \notin rs
                                              /\ i.kind = "handoff" => i.s \notin rh
    BY <1>1, CancelledTwice
  <2>2. PICK i \in jobs : /\ j.kind = i.kind /\ j.s = i.s /\ j.st = i.st
                          /\ ~j.cancelled => /\ ~i.cancelled
                                             /\ i.kind = "submit" => i.s \notin rs
                                             /\ i.kind = "handoff" => i.s \notin rh
    BY <2>1
  <2>3. j.s \in Schemes /\ j.kind \in {"submit", "handoff", "finish"}
    BY <2>1 DEF JobOK
  <2> QED BY <1>1, <1>7, <2>1, <2>2, <2>3 DEF JobsRunning
<1> HIDE DEF js
<1>9. \A j \in jobs' : JobOK(j) /\ (j.kind = "finish" \/ j.cancelled)
  <2> SUFFICES ASSUME NEW j \in jobs' PROVE JobOK(j) /\ (j.kind = "finish" \/ j.cancelled)
    OBVIOUS
  <2>1. j \in Cancelled(js, "finish", Schemes)
    BY <1>2
  <2>2. /\ JobOK(j)
        /\ \E i \in js : /\ j.kind = i.kind /\ j.s = i.s /\ j.st = i.st
                         /\ ~j.cancelled => ~i.cancelled /\ ~(i.kind = "finish" /\ i.s \in Schemes)
    BY <1>8, <2>1, CancelledFacts
  <2> QED BY <1>8, <2>2
<1>10. JobsRunning'
  BY <1>9, Zenon DEF JobsRunning
<1>11. /\ StatusInOrder' /\ height' \in Nat /\ chain' \in [Schemes -> Statuses]
       /\ known' \in [Schemes -> Statuses]
       /\ DOMAIN news' = {"epoch", "status"} /\ news'.status \in [Schemes -> Seq(Statuses)]
  BY <1>3, ConsensusKept
<1>12. ChurpTypes'
  BY <1>4, <1>6, <1>9, <1>11, Zenon DEF ChurpTypes
<1> QED BY <1>6, <1>10, <1>11, <1>12 DEF ChurpInv

\* submissionScheduler.Queue: the scheme's task is for the handoff of st, and
\* a running one that stays was not cancelled.
LEMMA SubQueued ==
  ASSUME ChurpInv, NEW s \in Schemes, NEW st \in Statuses, NEW o, Follows(known[s], st),
         SubQueue(s, st, o)
  PROVE  /\ DOMAIN sub' = Schemes /\ \A x \in Schemes \ {s} : sub'[x] = sub[x]
         /\ TaskOK(sub'[s])
         /\ sub'[s] # NoTask => st.on /\ sub'[s].st.next = st.next
         /\ sub[s].state = "running" /\ s \notin SubCancels(s, st) => sub'[s] = sub[s]
<1> DEFINE stale == sub[s] # NoTask /\ sub[s].st.next < st.next
           h == (st.next - 1) * Blocks + o
           task == IF sub[s] # NoTask /\ ~stale THEN sub[s] ELSE Task(st, h)
           drop == st.mine # "none" \/ Disabled(st)
<1>1. DOMAIN sub = Schemes /\ TaskOK(sub[s]) /\ known[s] \in Statuses
  BY DEF ChurpInv, ChurpTypes
<1>2. sub' = [sub EXCEPT ![s] = IF drop THEN NoTask ELSE task]
  BY ZenonT(40) DEF SubQueue
<1>3. sub[s] # NoTask => known[s].on /\ sub[s].st.next = known[s].next
  BY Zenon DEF ChurpInv, TasksCurrent
<1>4. st.next \in Nat /\ known[s].next \in Nat /\ st.on \in BOOLEAN
  BY <1>1, StatusFields, Zenon
<1>5. sub[s].state = "running" => SubCancels(s, st) = IF stale \/ drop THEN {s} ELSE {}
  BY Zenon DEF SubCancels, ToCancel
<1>6. TaskOK(Task(st, h)) /\ Task(st, h) # NoTask /\ Task(st, h).st = st
  BY TaskFields
<1> HIDE DEF h
<1>7. drop \/ st.on
  BY DEF Disabled
<1>8. stale <=> (sub[s] # NoTask /\ sub[s].st.next < st.next)
  BY Zenon
<1>9. task = IF sub[s] # NoTask /\ ~stale THEN sub[s] ELSE Task(st, h)
  OBVIOUS
<1> HIDE DEF stale, task, drop
<1>10. /\ DOMAIN sub' = Schemes /\ \A x \in Schemes \ {s} : sub'[x] = sub[x]
       /\ sub'[s] = IF drop THEN NoTask ELSE task
  BY <1>1, <1>2, Zenon
<1>11. CASE drop
  <2>1. sub'[s] = NoTask /\ TaskOK(NoTask)
    BY <1>10, <1>11, Zenon DEF TaskOK
  <2> QED BY <1>5, <1>10, <1>11, <2>1, Zenon
<1>12. CASE ~drop
  <2>1. sub'[s] = task /\ st.on
    BY <1>7, <1>10, <1>12, Zenon
  <2>2. CASE sub[s] # NoTask /\ ~stale
    <3>1. task = sub[s] /\ known[s].on /\ known[s].next <= st.next
      BY <1>3, <1>9, <2>1, <2>2, Zenon DEF Follows
    <3>2. sub[s].st.next = st.next
      BY <1>3, <1>4, <1>8, <2>2, <3>1
    <3> QED BY <1>1, <1>10, <2>1, <3>1, <3>2, Zenon
  <2>3. CASE ~(sub[s] # NoTask /\ ~stale)
    <3>1. task = Task(st, h)
      BY <1>9, <2>3, Zenon
    <3>2. sub[s].state = "running" => s \in SubCancels(s, st)
      BY <1>5, <2>3, NoTaskState, Zenon
    <3> QED BY <1>6, <1>10, <2>1, <3>1, <3>2, Zenon
  <2> QED BY <2>2, <2>3, Zenon
<1> QED BY <1>11, <1>12, Zenon

\* handoffExecutor.Queue.
LEMMA HandQueued ==
  ASSUME ChurpInv, NEW s \in Schemes, NEW st \in Statuses, HandQueue(s, st)
  PROVE  /\ DOMAIN hand' = Schemes /\ \A x \in Schemes \ {s} : hand'[x] = hand[x]
         /\ TaskOK(hand'[s])
         /\ hand'[s] # NoTask => st.on /\ hand'[s].st.next = st.next
         /\ hand[s].state = "running" /\ s \notin HandCancels(s, st) =>
              hand'[s].state = "running" /\ hand'[s].st.next = hand[s].st.next
<1> DEFINE off == Disabled(st)
           same == HandSame(s, st)
           u == [hand[s] EXCEPT !.st = st]
           t == Task(st, st.next * Blocks)
<1>1. DOMAIN hand = Schemes /\ TaskOK(hand[s])
  BY DEF ChurpInv, ChurpTypes
<1>2. hand' = [hand EXCEPT ![s] = IF off THEN NoTask ELSE IF same THEN u
                                  ELSE IF st.mine = "applied" THEN t ELSE NoTask]
  BY ZenonT(40) DEF HandQueue
<1>3. hand[s].state = "running" => HandCancels(s, st) = IF off \/ ~same THEN {s} ELSE {}
  BY DEF HandCancels, ToCancel
<1>4. TaskOK(t) /\ t.st = st
  BY TaskFields
<1>5. same => hand[s] # NoTask /\ hand[s].st.next = st.next
  BY DEF HandSame
<1>6. same => TaskOK(u) /\ u.st = st /\ u.state = hand[s].state
  BY <1>1, <1>5, TaskRestated
<1>7. off \/ st.on
  BY DEF Disabled
<1>8. TaskOK(NoTask)
  BY DEF TaskOK
<1> HIDE DEF off, same, u, t
<1>9. /\ DOMAIN hand' = Schemes /\ \A x \in Schemes \ {s} : hand'[x] = hand[x]
      /\ hand'[s] = IF off THEN NoTask ELSE IF same THEN u
                    ELSE IF st.mine = "applied" THEN t ELSE NoTask
  BY <1>1, <1>2, Zenon
<1>10. /\ TaskOK(hand'[s])
       /\ hand'[s] # NoTask => st.on /\ hand'[s].st.next = st.next
  BY <1>4, <1>6, <1>7, <1>8, <1>9, Zenon
<1>11. ASSUME hand[s].state = "running", s \notin HandCancels(s, st)
       PROVE  hand'[s].state = "running" /\ hand'[s].st.next = hand[s].st.next
  <2>1. ~off /\ same
    BY <1>3, <1>11
  <2> QED BY <1>5, <1>6, <1>9, <1>11, <2>1, Zenon
<1> QED BY <1>9, <1>10, <1>11, Zenon

\* handleStatusUpdate: the goroutines that are left work for the handoff of
\* the status that the worker was just told of.
LEMMA HandleStatusUpdateKeeps ==
  ASSUME ChurpInv, NEW s \in Schemes, NEW o, HandleStatusUpdate(s, o)
  PROVE  ChurpInv'
<1> DEFINE q == news.status[s]
           st == Head(q)
           cs == SubCancels(s, st)
           ch == HandCancels(s, st)
           kept == Cancelled(Cancelled(jobs, "submit", cs), "handoff", ch)
           fin == FinishJobs(s, st)
<1>1. /\ DOMAIN news = {"epoch", "status"} /\ news.status \in [Schemes -> Seq(Statuses)]
      /\ q \in Seq(Statuses) /\ known \in [Schemes -> Statuses] /\ (\A j \in jobs : JobOK(j))
      /\ (\A x \in Schemes : TaskOK(sub[x]) /\ TaskOK(hand[x])) /\ JobsRunning /\ TasksCurrent
      /\ height \in Nat /\ chain \in [Schemes -> Statuses]
  BY DEF ChurpInv, ChurpTypes
<1>2. /\ q # <<>> /\ news' = [news EXCEPT !.status[s] = Tail(@)]
      /\ known' = [known EXCEPT ![s] = st] /\ SubQueue(s, st, o) /\ HandQueue(s, st)
      /\ height' = height /\ chain' = chain /\ stopped' = stopped /\ ~stopped
  BY DEF HandleStatusUpdate
<1>3. jobs' = (IF fin = {} THEN kept ELSE Cancelled(kept, "finish", {s})) \union fin
  BY DEF HandleStatusUpdate
<1>4. fin \subseteq {Job("finish", s, st, 0)}
  BY DEF FinishJobs
<1>5. NewsOK(known[s], q, chain[s])
  BY DEF ChurpInv, StatusInOrder
<1>6. /\ st \in Statuses /\ Follows(known[s], st) /\ NewsOK(st, Tail(q), chain[s])
      /\ Tail(q) \in Seq(Statuses)
  BY <1>1, <1>2, <1>5, NewsTaken, Zenon
<1>7. /\ DOMAIN news' = {"epoch", "status"}
      /\ news'.status = [news.status EXCEPT ![s] = Tail(q)]
  BY <1>1, <1>2, Zenon
<1>8. /\ news'.status \in [Schemes -> Seq(Statuses)] /\ news'.status[s] = Tail(q)
      /\ \A x \in Schemes \ {s} : news'.status[x] = news.status[x]
  BY <1>1, <1>6, <1>7
<1> HIDE DEF st
<1>9. /\ known' \in [Schemes -> Statuses] /\ known'[s] = st
      /\ \A x \in Schemes \ {s} : known'[x] = known[x]
  BY <1>1, <1>2, <1>6
<1> HIDE DEF q
<1>10. StatusInOrder'
  <2>1. Epoch' = Epoch
    BY <1>2, Zenon DEF Epoch
  <2>2. ASSUME NEW x \in Schemes PROVE NewsOK(known'[x], news'.status[x], chain[x])
    <3>1. CASE x = s
      BY <1>6, <1>8, <1>9, <3>1, ZenonT(40)
    <3>2. CASE x # s
      BY <1>8, <1>9, <3>2 DEF ChurpInv, StatusInOrder
    <3> QED BY <3>1, <3>2
  <2> QED BY <1>2, <2>1, <2>2 DEF ChurpInv, StatusInOrder
<1>11. /\ DOMAIN sub' = Schemes /\ \A x \in Schemes \ {s} : sub'[x] = sub[x]
       /\ TaskOK(sub'[s])
       /\ sub'[s] # NoTask => st.on /\ sub'[s].st.next = st.next
       /\ sub[s].state = "running" /\ s \notin cs => sub'[s] = sub[s]
  BY <1>2, <1>6, SubQueued
<1>12. /\ DOMAIN hand' = Schemes /\ \A x \in Schemes \ {s} : hand'[x] = hand[x]
       /\ TaskOK(hand'[s])
       /\ hand'[s] # NoTask => st.on /\ hand'[s].st.next = st.next
       /\ hand[s].state = "running" /\ s \notin ch =>
            hand'[s].state = "running" /\ hand'[s].st.next = hand[s].st.next
  BY <1>2, <1>6, HandQueued
<1> HIDE DEF cs, ch
<1>13. \A x \in Schemes : TaskOK(sub'[x]) /\ TaskOK(hand'[x])
  BY <1>1, <1>11, <1>12, ZenonT(40)
<1>14. TasksCurrent'
  <2>1. ASSUME NEW x \in Schemes
        PROVE  /\ sub'[x] # NoTask => known'[x].on /\ sub'[x].st.next = known'[x].next
               /\ hand'[x] # NoTask => known'[x].on /\ hand'[x].st.next = known'[x].next
    <3>1. CASE x = s
      BY <1>9, <1>11, <1>12, <3>1
    <3>2. CASE x # s
      BY <1>1, <1>9, <1>11, <1>12, <3>2, ZenonT(40) DEF TasksCurrent
    <3> QED BY <3>1, <3>2, Zenon
  <2> QED BY <2>1, Zenon DEF TasksCurrent
<1>15. ASSUME NEW j \in kept PROVE JobOK(j) /\ Held(j, sub', hand')
  <2>1. /\ JobOK(j)
        /\ \E i \in jobs : /\ j.kind = i.kind /\ j.s = i.s /\ j.st = i.st
                           /\ ~j.cancelled => /\ ~i.cancelled
                                              /\ i.kind = "submit" => i.s \notin cs
                                              /\ i.kind = "handoff" => i.s \notin ch
    BY <1>1, CancelledTwice
  <2>2. PICK i \in jobs : /\ j.kind = i.kind /\ j.s = i.s /\ j.st = i.st
                          /\ ~j.cancelled => /\ ~i.cancelled
                                             /\ i.kind = "submit" => i.s \notin cs
                                             /\ i.kind = "handoff" => i.s \notin ch
    BY <2>1
  <2>3. j.s \in Schemes /\ j.kind \in {"submit", "handoff", "finish"}
    BY <2>1, Zenon DEF JobOK
  <2>4. CASE j.kind = "finish" \/ j.cancelled
    BY <2>1, <2>4, Zenon DEF Held
  <2>5. CASE j.kind = "submit" /\ ~j.cancelled
    <3>1. ~stopped /\ sub[j.s].state = "running" /\ sub[j.s].st.next = j.st.next /\ j.s \notin cs
      <4>1. i.kind = "submit" /\ ~i.cancelled /\ i.s = j.s /\ i.st = j.st /\ i.s \notin cs
        BY <2>2, <2>5, Zenon
      <4>2. ~stopped /\ sub[i.s].state = "running" /\ sub[i.s].st.next = i.st.next
        BY <1>1, <4>1, Zenon DEF JobsRunning
      <4> QED BY <4>1, <4>2
    <3>2. sub'[j.s] = sub[j.s]
      BY <1>11, <2>3, <3>1, Zenon
    <3> QED BY <2>1, <2>5, <3>1, <3>2, Zenon DEF Held
  <2>6. CASE j.kind = "handoff" /\ ~j.cancelled
    <3>1. ~stopped /\ hand[j.s].state = "running" /\ hand[j.s].st.next = j.st.next /\ j.s \notin ch
      <4>1. i.kind = "handoff" /\ ~i.cancelled /\ i.s = j.s /\ i.st = j.st /\ i.s \notin ch
        BY <2>2, <2>6, Zenon
      <4>2. ~stopped /\ hand[i.s].state = "running" /\ hand[i.s].st.next = i.st.next
        BY <1>1, <4>1, Zenon DEF JobsRunning
      <4> QED BY <4>1, <4>2
    <3>2. hand'[j.s].state = "running" /\ hand'[j.s].st.next = hand[j.s].st.next
      BY <1>12, <2>3, <3>1, Zenon
    <3> QED BY <2>1, <2>6, <3>1, <3>2, Zenon DEF Held
  <2> QED BY <2>3, <2>4, <2>5, <2>6
<1> HIDE DEF kept
<1>16. ASSUME NEW j \in Cancelled(kept, "finish", {s}) PROVE JobOK(j) /\ Held(j, sub', hand')
  <2>1. \A i \in kept : JobOK(i)
    BY <1>15
  <2>2. /\ JobOK(j)
        /\ \E i \in kept : /\ j.kind = i.kind /\ j.s = i.s /\ j.st = i.st
                           /\ ~j.cancelled => ~i.cancelled /\ ~(i.kind = "finish" /\ i.s \in {s})
    BY <2>1, CancelledFacts
  <2>3. PICK i \in kept : /\ j.kind = i.kind /\ j.s = i.s /\ j.st = i.st
                          /\ ~j.cancelled => ~i.cancelled
    BY <2>2
  <2>4. Held(i, sub', hand')
    BY <1>15, Zenon
  <2> QED BY <2>2, <2>3, <2>4 DEF Held
<1>17. ASSUME NEW j \in fin PROVE JobOK(j) /\ Held(j, sub', hand')
  <2>1. j = Job("finish", s, st, 0) /\ "finish" \in {"submit", "handoff", "finish"}
    BY <1>4
  <2>2. IsJob(j, "finish", s, st)
    BY <2>1, JobFields
  <2> QED BY <2>2 DEF IsJob, Held
<1> HIDE DEF fin
<1>18. ASSUME NEW j \in jobs' PROVE JobOK(j) /\ Held(j, sub', hand')
  BY <1>3, <1>15, <1>16, <1>17, Zenon
<1>19. JobsRunning'
  BY <1>2, <1>18, Zenon DEF JobsRunning, Held
<1>20. ChurpTypes'
  BY <1>1, <1>2, <1>7, <1>8, <1>9, <1>11, <1>12, <1>13, <1>18, Zenon DEF ChurpTypes
<1> QED BY <1>10, <1>14, <1>19, <1>20, Zenon DEF ChurpInv

LEMMA ChurpStep ==
  ASSUME Blocks \in Nat \ {0}, MaxHeight \in Nat, ChurpInv, [NextChurp]_(chvars)
  PROVE  ChurpInv'
<1>1. CASE NextChurp
  <2>1. ASSUME NEW enough \in BOOLEAN, ChurpBlock(enough) PROVE ChurpInv'
    BY <2>1, NewBlockKeeps, Zenon
  <2>2. ASSUME NEW s \in Schemes, NEW kind \in Kinds \ {"dealing"}, HandoffCompletes(s, kind)
        PROVE  ChurpInv'
    BY <2>2, ChainKeeps
  <2>3. ASSUME NEW s \in Schemes, ConfigUpdate(s) PROVE ChurpInv'
    BY <2>3, ChainKeeps
  <2>4. ASSUME NEW s \in Schemes, NEW o \in Offsets, HandleStatusUpdate(s, o) PROVE ChurpInv'
    BY <2>4, HandleStatusUpdateKeeps
  <2>5. CASE HandleNewEpoch
    BY <2>5, HandleNewEpochKeeps
  <2>6. CASE HandleNewBlock
    BY <2>6, HandleNewBlockKeeps
  <2>7. CASE Stop
    BY <2>7, StopKeeps
  <2>8. ASSUME NEW j \in jobs, Run(j) PROVE ChurpInv'
    BY <2>8, RunKeeps, Zenon
  <2> QED BY <1>1, <2>1, <2>2, <2>3, <2>4, <2>5, <2>6, <2>7, <2>8, Zenon DEF NextChurp
<1>2. CASE UNCHANGED chvars
  <2>1. WorkerSame /\ jobs' = jobs /\ height' = height /\ chain' = chain /\ news' = news
    BY <1>2, Zenon DEF chvars, WorkerSame
  <2>2. ConsensusSame
    BY <2>1 DEF ConsensusSame, WorkerSame, ChurpInv, ChurpTypes
  <2>3. /\ StatusInOrder' /\ height' \in Nat /\ chain' \in [Schemes -> Statuses]
        /\ known' \in [Schemes -> Statuses]
        /\ DOMAIN news' = {"epoch", "status"} /\ news'.status \in [Schemes -> Seq(Statuses)]
    BY <2>2, ConsensusKept
  <2>4. /\ TasksCurrent' /\ DOMAIN sub' = Schemes /\ DOMAIN hand' = Schemes
        /\ \A s \in Schemes : TaskOK(sub'[s]) /\ TaskOK(hand'[s])
    BY <2>1, TablesKept
  <2>5. JobsRunning' /\ \A j \in jobs' : JobOK(j)
    BY <2>1, JobsKept
  <2> QED BY <2>3, <2>4, <2>5, Zenon DEF ChurpInv, ChurpTypes
<1> QED BY <1>1, <1>2, Zenon

\* Whatever the number of schemes, the lag of the worker and the order of
\* events, a goroutine of the CHURP worker that was not cancelled is one its
\* task queue can still cancel, and applies for or confirms the handoff the
\* worker believes to be next (churp.go: handleStatusUpdate, TaskQueue).  The
\* epoch has at least one block.
THEOREM JobsStayTracked ==
  ASSUME Blocks \in Nat \ {0}, MaxHeight \in Nat
  PROVE  ChurpSpec => []JobsTracked
<1>1. ChurpInv => JobsTracked
  <2> SUFFICES ASSUME ChurpInv, NEW j \in jobs, j.kind # "finish", ~j.cancelled
               PROVE  LET t == IF j.kind = "submit" THEN sub[j.s] ELSE hand[j.s]
                      IN  /\ ~stopped /\ t.state = "running" /\ t.st.next = j.st.next
                          /\ known[j.s].next = j.st.next
    BY DEF JobsTracked
  <2> DEFINE t == IF j.kind = "submit" THEN sub[j.s] ELSE hand[j.s]
  <2>1. ~stopped /\ t.state = "running" /\ t.st.next = j.st.next
    BY DEF ChurpInv, JobsRunning
  <2>2. j.s \in Schemes
    BY DEF ChurpInv, ChurpTypes, JobOK
  <2>3. t # NoTask
    BY <2>1, NoTaskState, Zenon
  <2>4. t.st.next = known[j.s].next
    BY <2>2, <2>3 DEF ChurpInv, TasksCurrent
  <2> QED BY <2>1, <2>4, Zenon
<1> QED BY <1>1, ChurpInit, ChurpStep, PTL DEF ChurpSpec
============
