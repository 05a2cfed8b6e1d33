-------------------------- MODULE ExecutorNodeProofs --------------------------
(***************************************************************************)
(* What the round worker of an executor node keeps, for every committee,    *)
(* every set of proposals and every interleaving of its goroutines.         *)
(***************************************************************************)
EXTENDS ExecutorNode, FiniteSets, TLAPS

(* What is used of finite sets and natural numbers.  It follows from           *)
(* FiniteSetTheorems, which slow the provers down wherever they are in scope:  *)
(* the lemmas take these facts as a hypothesis, and the module ends with the   *)
(* proof that they hold.                                                       *)
CardinalityFact == \A S : IsFiniteSet(S) => Cardinality(S) \in Nat
EmptySetFact ==
    /\ IsFiniteSet({}) /\ Cardinality({}) = 0
    /\ \A S : IsFiniteSet(S) => (Cardinality(S) = 0 <=> S = {})
SubsetFact ==
    \A S : IsFiniteSet(S) => \A T \in SUBSET S :
        IsFiniteSet(T) /\ Cardinality(T) <= Cardinality(S) /\ (Cardinality(S) = Cardinality(T) => S = T)
AddFact ==
    \A S, x : IsFiniteSet(S) =>
        /\ IsFiniteSet(S \cup {x})
        /\ Cardinality(S \cup {x}) = IF x \in S THEN Cardinality(S) ELSE Cardinality(S) + 1
RemoveFact ==
    \A S, x : IsFiniteSet(S) =>
        /\ IsFiniteSet(S \ {x})
        /\ Cardinality(S \ {x}) = IF x \in S THEN Cardinality(S) - 1 ELSE Cardinality(S)
DifferenceFact ==
    \A S, T : IsFiniteSet(S) =>
        IsFiniteSet(S \ T) /\ Cardinality(S \ T) = Cardinality(S) - Cardinality(S \cap T)
LeastFact == \A T \in SUBSET Nat : T # {} => \E x \in T : \A y \in T : x <= y
SetFacts ==
    /\ CardinalityFact /\ EmptySetFact /\ SubsetFact
    /\ AddFact /\ RemoveFact /\ DifferenceFact /\ LeastFact

LEMMA CardinalityIsNat == ASSUME SetFacts, NEW S, IsFiniteSet(S) PROVE Cardinality(S) \in Nat
BY DEF SetFacts, CardinalityFact
LEMMA EmptySetIsFinite ==
  ASSUME SetFacts
  PROVE  /\ IsFiniteSet({}) /\ Cardinality({}) = 0
         /\ \A S : IsFiniteSet(S) => (Cardinality(S) = 0 <=> S = {})
BY DEF SetFacts, EmptySetFact
LEMMA SubsetIsFinite ==
  ASSUME SetFacts, NEW S, IsFiniteSet(S), NEW T \in SUBSET S
  PROVE  IsFiniteSet(T) /\ Cardinality(T) <= Cardinality(S) /\ (Cardinality(S) = Cardinality(T) => S = T)
BY DEF SetFacts, SubsetFact
LEMMA AddingOne ==
  ASSUME SetFacts, NEW S, NEW x, IsFiniteSet(S)
  PROVE  /\ IsFiniteSet(S \cup {x})
         /\ Cardinality(S \cup {x}) = IF x \in S THEN Cardinality(S) ELSE Cardinality(S) + 1
BY DEF SetFacts, AddFact
LEMMA RemovingOne ==
  ASSUME SetFacts, NEW S, NEW x, IsFiniteSet(S)
  PROVE  /\ IsFiniteSet(S \ {x})
         /\ Cardinality(S \ {x}) = IF x \in S THEN Cardinality(S) - 1 ELSE Cardinality(S)
BY DEF SetFacts, RemoveFact
LEMMA DifferenceIsFinite ==
  ASSUME SetFacts, NEW S, NEW T, IsFiniteSet(S)
  PROVE  IsFiniteSet(S \ T) /\ Cardinality(S \ T) = Cardinality(S) - Cardinality(S \cap T)
BY DEF SetFacts, DifferenceFact
LEMMA LeastNatural ==
  ASSUME SetFacts, NEW T, T \subseteq Nat, T # {}
  PROVE  \E x \in T : \A y \in T : x <= y
BY DEF SetFacts, LeastFact


\* The fields of Node that the model keeps.
Fields ==
  {"round", "working", "state", "job", "processedBatchCh", "fetch", "missingTxCh",
   "schedulerRank", "poolRank", "flush", "discrepancy", "predicted", "submitted",
   "commits", "faults"}

\* The state is one of the four that transitionState installs.
StateOK(s) ==
  \/ s = WaitingForBatch
  \/ /\ s.name = "WaitingForTxs" /\ s.proposal \in Proposals
     /\ s = WaitingForTxs(s.proposal, s.txs, s.bytes)
  \/ /\ s.name = "WaitingForEvent" /\ s.proposal \in Proposals
     /\ s = WaitingForEvent(s.proposal)
  \/ /\ s.name = "ProcessingBatch" /\ s.rank \in Ranks
     /\ s = ProcessingBatch(s.rank, s.mode)

\* A result is on its way only for the batch that is being processed.
Channels(m) ==
  /\ m.job # nil =>
       /\ m.state.name = "ProcessingBatch" /\ m.job.rank = m.state.rank
       /\ m.processedBatchCh = <<>>
  /\ m.processedBatchCh # <<>> =>
       /\ m.state.name = "ProcessingBatch"
       /\ m.processedBatchCh = <<Head(m.processedBatchCh)>>
       /\ Head(m.processedBatchCh) # nil => Head(m.processedBatchCh).rank = m.state.rank

\* The node works on nothing that it has submitted a commitment for.
Unsubmitted(m) == m.state.name # "WaitingForBatch" => m.state.rank \notin m.submitted

Commitment == [rank : Ranks, ok : BOOLEAN, late : BOOLEAN]

\* n.submitted knows of every commitment of the round.
Recorded(m) ==
  /\ m.commits \in Seq(Commitment)
  /\ \A i \in 1..Len(m.commits) : m.commits[i].rank \in m.submitted
  /\ \A i, j \in 1..Len(m.commits) : m.commits[i].rank = m.commits[j].rank => i = j

\* The ranks that bound the choice of a proposal.
Ranked(m) ==
  /\ m.round \in {0} \union FirstRound..LastRound
  /\ m.schedulerRank \in Nat /\ m.poolRank \in Nat
  /\ m.discrepancy # nil => m.discrepancy.rank \in Ranks

Sound(m) ==
  /\ DOMAIN m = Fields
  /\ StateOK(m.state) /\ Channels(m) /\ Unsubmitted(m) /\ Recorded(m) /\ Ranked(m)

\* The queue holds one proposal per round and rank, and at most as many as
\* it has room for.
Queue ==
  /\ DOMAIN proposals = {"q", "round"}
  /\ proposals.q \subseteq Proposals
  /\ IsFiniteSet(proposals.q) /\ Cardinality(proposals.q) <= maxPendingProposals
  /\ \A p, q \in proposals.q : p.round = q.round /\ RankOf(p) = RankOf(q) => p = q

EInv ==
  /\ Sound(n) /\ Queue /\ blockInfoCh \in {nil} \union FirstRound..LastRound
  /\ DiscrepancyFocus /\ NoLostWakeup
----------------------------------------------------------------------------
(* Ranks.                                                                   *)

\* Every worker has a rank in every round.
LEMMA SchedulerRankType ==
  ASSUME NEW w \in Workers, NEW round \in Nat
  PROVE  SchedulerRank(round, w) \in Ranks
<1>1. Len(WorkerList) \in Nat /\ Len(WorkerList) > 0
  BY CommitteeAssumption
<1>2. PICK i \in 1..Len(WorkerList) :
         i = CHOOSE j \in 1..Len(WorkerList) : WorkerList[j] = w
  BY DEF Workers
<1>3. round + WorkerIdx(w) \in Nat
  BY <1>1, <1>2 DEF WorkerIdx
<1>4. (round + WorkerIdx(w)) % Len(WorkerList) \in 0..(Len(WorkerList) - 1)
  BY <1>1, <1>3
<1> QED BY <1>4 DEF SchedulerRank, Ranks

LEMMA RankType ==
  /\ Ranks \subseteq Nat
  /\ \A p \in Proposals : p.round \in Nat /\ p.round <= LastRound /\ RankOf(p) \in Ranks
<1>1. Ranks \subseteq Nat
  BY CommitteeAssumption DEF Ranks
<1>2. ASSUME NEW p \in Proposals
      PROVE  p.round \in Nat /\ p.round <= LastRound /\ RankOf(p) \in Ranks
  <2>1. p.round \in FirstRound..LastRound /\ p.scheduler \in Workers
    BY NodeAssumption
  <2>2. p.round \in Nat /\ p.round <= LastRound
    BY <2>1, NodeAssumption
  <2> QED BY <2>1, <2>2, SchedulerRankType DEF RankOf
<1> QED BY <1>1, <1>2

LEMMA OwnRankType ==
  ASSUME NEW round \in {0} \union FirstRound..LastRound
  PROVE  /\ OwnRank(round) \in Nat
         /\ IsWorker(Me) => OwnRank(round) \in Ranks
<1>1. round \in Nat
  BY NodeAssumption
<1>2. IsWorker(Me) => SchedulerRank(round, Me) \in Ranks
  BY <1>1, SchedulerRankType DEF IsWorker
<1> QED BY <1>2, RankType, NodeAssumption, ZenonT(30) DEF OwnRank

\* proposalQueue.Best returns a proposal that no other one precedes.
LEMMA BestIsFirst ==
  ASSUME SetFacts, NEW S, S \subseteq Proposals, S # {}
  PROVE  Best(S) \in S /\ \A q \in S : RankOf(Best(S)) <= RankOf(q)
<1> DEFINE T == {RankOf(p) : p \in S}
<1>1. T \subseteq Nat /\ T # {}
  BY RankType, ZenonT(30)
<1> HIDE DEF T
<1>2. PICK x \in T : \A y \in T : x <= y
  BY <1>1, LeastNatural, ZenonT(30)
<1>3. \E p \in S : \A q \in S : RankOf(p) <= RankOf(q)
  BY <1>2 DEF T
<1> QED BY <1>3 DEF Best

\* The proposal that a full queue drops is one of the queue.
LEMMA FurthestIsQueued ==
  ASSUME SetFacts, NEW S, S \subseteq Proposals, S # {}
  PROVE  Furthest(S) \in S
<1> DEFINE T == {LastRound - p.round : p \in S}
<1>1. T \subseteq Nat /\ T # {}
  BY RankType, NodeAssumption
<1> HIDE DEF T
<1>2. PICK x \in T : \A y \in T : x <= y
  BY <1>1, LeastNatural, ZenonT(40)
<1>3. PICK a \in S : x = LastRound - a.round
  BY <1>2 DEF T
<1>4. \A o \in S : o.round <= a.round
  <2> TAKE o \in S
  <2>1. x <= LastRound - o.round
    BY <1>2 DEF T
  <2> QED BY <2>1, <1>3, RankType, NodeAssumption
<1> DEFINE U == {Len(WorkerList) - RankOf(p) : p \in {o \in S : o.round = a.round}}
<1>5. U \subseteq Nat /\ U # {}
  BY RankType, CommitteeAssumption DEF Ranks
<1> HIDE DEF U
<1>6. PICK z \in U : \A y \in U : z <= y
  BY <1>5, LeastNatural, ZenonT(30)
<1>7. PICK p \in S : p.round = a.round /\ z = Len(WorkerList) - RankOf(p)
  BY <1>6 DEF U
<1>8. ASSUME NEW o \in S, o.round = a.round PROVE RankOf(o) <= RankOf(p)
  <2>1. z <= Len(WorkerList) - RankOf(o)
    BY <1>6, <1>8 DEF U
  <2> QED BY <2>1, <1>7, RankType, CommitteeAssumption DEF Ranks
<1>9. \A o \in S : o.round < p.round \/ (o.round = p.round /\ RankOf(o) <= RankOf(p))
  BY <1>4, <1>7, <1>8, RankType
<1> QED BY <1>9 DEF Furthest

----------------------------------------------------------------------------
(* States.                                                                  *)

LEMMA StateFacts ==
  ASSUME NEW s, StateOK(s)
  PROVE  /\ s.name \in {"WaitingForBatch", "WaitingForTxs", "WaitingForEvent",
                        "ProcessingBatch"}
         /\ s.name = "WaitingForBatch" => s = WaitingForBatch
         /\ s.name # "WaitingForBatch" => s.rank \in Ranks
         /\ s.name \in {"WaitingForTxs", "WaitingForEvent"} =>
              s.proposal \in Proposals /\ s.rank = RankOf(s.proposal)
  BY RankType DEF StateOK, WaitingForBatch, WaitingForTxs, WaitingForEvent, ProcessingBatch

LEMMA Waiting == StateOK(WaitingForBatch) /\ WaitingForBatch.name = "WaitingForBatch"
  BY DEF StateOK, WaitingForBatch

LEMMA NewStates ==
  ASSUME NEW p \in Proposals, NEW missing, NEW bytes
  PROVE  /\ LET s == WaitingForTxs(p, missing, bytes)
            IN  StateOK(s) /\ s.name = "WaitingForTxs" /\ s.rank = RankOf(p)
         /\ LET s == WaitingForEvent(p)
            IN  StateOK(s) /\ s.name = "WaitingForEvent" /\ s.rank = RankOf(p)
  BY DEF StateOK, WaitingForTxs, WaitingForEvent

LEMMA Processed ==
  ASSUME NEW rank \in Ranks, NEW mode
  PROVE  LET s == ProcessingBatch(rank, mode)
         IN  StateOK(s) /\ s.name = "ProcessingBatch" /\ s.rank = rank
  BY DEF StateOK, ProcessingBatch

\* w differs from m in the fields F at most.
Agree(m, w, F) == DOMAIN w = Fields /\ \A f \in Fields \ F : w[f] = m[f]

\* The fields that decisions about the next batch write.
Work == {"state", "job", "processedBatchCh", "fetch", "faults"}

LEMMA AgreeFields ==
  ASSUME NEW m, NEW w, Agree(m, w, Work)
  PROVE  /\ DOMAIN w = Fields
         /\ w.round = m.round /\ w.working = m.working /\ w.schedulerRank = m.schedulerRank
         /\ w.poolRank = m.poolRank /\ w.flush = m.flush /\ w.discrepancy = m.discrepancy
         /\ w.submitted = m.submitted /\ w.commits = m.commits
  BY DEF Agree, Fields, Work

LEMMA AgreeTrans ==
  ASSUME NEW m, NEW w, NEW v, NEW F, NEW G, Agree(m, w, F), Agree(w, v, G), G \subseteq F
  PROVE  Agree(m, v, F)
  BY DEF Agree

LEMMA AgreeRefl ==
  ASSUME NEW m, NEW F, DOMAIN m = Fields
  PROVE  Agree(m, m, F)
  BY DEF Agree

LEMMA SoundKept ==
  ASSUME NEW m, NEW w, Sound(m), Agree(m, w, Work),
         StateOK(w.state), Channels(w), Unsubmitted(w)
  PROVE  Sound(w)
  BY AgreeFields, SMTT(40) DEF Sound, Recorded, Ranked

LEMMA Transition ==
  ASSUME NEW m, DOMAIN m = Fields, NEW s, s.name \in validStateTransitions[m.state.name]
  PROVE  /\ transitionState(m, s).state = s
         /\ Agree(m, transitionState(m, s), {"state"})
  BY DEF transitionState, Agree, Fields

\* The rows of validStateTransitions that are used.
LEMMA ValidTransitions ==
  ASSUME NEW m, StateOK(m.state)
  PROVE  /\ "WaitingForBatch" \in validStateTransitions[m.state.name]
         /\ m.state.name # "ProcessingBatch" =>
              "ProcessingBatch" \in validStateTransitions[m.state.name]
         /\ m.state.name \in {"WaitingForBatch", "WaitingForTxs"} =>
              "WaitingForEvent" \in validStateTransitions[m.state.name]
         /\ m.state.name = "WaitingForBatch" =>
              "WaitingForTxs" \in validStateTransitions[m.state.name]
  BY StateFacts DEF validStateTransitions

LEMMA ToWaiting ==
  ASSUME NEW m, Sound(m), NEW w, Agree(m, w, {"job", "processedBatchCh", "fetch"}),
         w.job = nil, w.processedBatchCh = <<>>
  PROVE  LET v == transitionState(w, WaitingForBatch)
         IN  /\ Sound(v) /\ Agree(m, v, Work) /\ v.state = WaitingForBatch
             /\ Agree(w, v, {"state"})
<1> DEFINE v == transitionState(w, WaitingForBatch)
<1>1. w.state = m.state /\ DOMAIN w = Fields
  BY DEF Agree, Fields
<1>2. StateOK(w.state)
  BY <1>1 DEF Sound
<1>3. v.state = WaitingForBatch /\ Agree(w, v, {"state"})
  BY <1>1, <1>2, Transition, ValidTransitions, Waiting
<1>4. Agree(m, v, Work) /\ v.job = nil /\ v.processedBatchCh = <<>>
  BY <1>3 DEF Agree, Fields, Work
<1>5. StateOK(v.state) /\ v.state.name = "WaitingForBatch"
  BY <1>3, Waiting
<1>6. Channels(v) /\ Unsubmitted(v)
  BY <1>4, <1>5 DEF Channels, Unsubmitted
<1> QED BY <1>3, <1>4, <1>5, <1>6, SoundKept

\* Nothing is in processedBatchCh, and no goroutine runs, unless a batch is
\* being processed.
LEMMA NothingRuns ==
  ASSUME NEW m, Sound(m), m.state.name # "ProcessingBatch"
  PROVE  m.job = nil /\ m.processedBatchCh = <<>>
  BY DEF Sound, Channels

LEMMA ToProcessing ==
  ASSUME NEW m, Sound(m), NEW w, Agree(m, w, {"fetch"}),
         m.state.name # "ProcessingBatch",
         NEW rank \in Ranks, rank \notin m.submitted, NEW mode, NEW p
  PROVE  LET v == Processing(w, rank, mode, p)
         IN  Sound(v) /\ Agree(m, v, Work) /\ v.state = ProcessingBatch(rank, mode)
<1> DEFINE s == ProcessingBatch(rank, mode)
           u == transitionState(w, s)
           v == Processing(w, rank, mode, p)
<1>1. w.state = m.state /\ DOMAIN w = Fields /\ w.processedBatchCh = <<>>
  BY NothingRuns DEF Agree, Fields
<1>2. StateOK(s) /\ s.name = "ProcessingBatch" /\ s.rank = rank
  BY Processed
<1>3. StateOK(w.state)
  BY <1>1 DEF Sound
<1> HIDE DEF s
<1>4. u.state = s /\ Agree(w, u, {"state"})
  BY <1>1, <1>2, <1>3, Transition, ValidTransitions
<1>5. v = [u EXCEPT !.job = [rank |-> rank, mode |-> mode, proposal |-> p]]
  BY DEF Processing, s
<1> HIDE DEF u, v
<1>6. /\ v.state = s /\ Agree(u, v, {"job"})
      /\ v.job = [rank |-> rank, mode |-> mode, proposal |-> p]
  BY <1>4, <1>5 DEF Agree, Fields
<1>7. Agree(m, v, Work) /\ v.processedBatchCh = <<>>
  BY <1>1, <1>4, <1>6 DEF Agree, Fields, Work
<1>8. v.job.rank = rank
  BY <1>6
<1>9. Channels(v) /\ Unsubmitted(v)
  BY <1>2, <1>6, <1>7, <1>8, AgreeFields DEF Channels, Unsubmitted
<1>10. Sound(v)
  BY <1>2, <1>6, <1>7, <1>9, SoundKept
<1> QED BY <1>6, <1>7, <1>10 DEF s, v

LEMMA ToFailure ==
  ASSUME NEW m, Sound(m), NEW w, Agree(m, w, {"fetch"}),
         m.state.name # "ProcessingBatch", NEW p \in Proposals, RankOf(p) \notin m.submitted
  PROVE  LET v == transitionStateToProcessingFailure(w, p)
         IN  /\ Sound(v) /\ Agree(m, v, Work)
             /\ v.state.name = "ProcessingBatch" /\ v.state.rank = RankOf(p)
<1> DEFINE rank == RankOf(p)
           s == ProcessingBatch(rank, "Execute")
           u == transitionState(w, s)
           b == [rank |-> rank, computed |-> FALSE]
           v == transitionStateToProcessingFailure(w, p)
<1>1. w.state = m.state /\ DOMAIN w = Fields /\ w.processedBatchCh = <<>> /\ w.job = nil
  BY NothingRuns DEF Agree, Fields
<1>a. rank \in Ranks
  BY RankType
<1> HIDE DEF rank
<1>2. StateOK(s) /\ s.name = "ProcessingBatch" /\ s.rank = rank
  BY <1>a, Processed
<1>3. StateOK(w.state)
  BY <1>1 DEF Sound
<1> HIDE DEF s
<1>4. u.state = s /\ Agree(w, u, {"state"})
  BY <1>1, <1>2, <1>3, Transition, ValidTransitions
<1>5. v = [u EXCEPT !.processedBatchCh = Append(@, b)]
  BY DEF transitionStateToProcessingFailure, s, rank
<1>b. b.rank = rank
  OBVIOUS
<1> HIDE DEF u, v, b
<1>6. /\ v.state = s /\ Agree(u, v, {"processedBatchCh"})
      /\ v.processedBatchCh = Append(u.processedBatchCh, b)
  BY <1>4, <1>5 DEF Agree, Fields
<1>7. Agree(m, v, Work) /\ v.job = nil /\ u.processedBatchCh = <<>>
  BY <1>1, <1>4, <1>6 DEF Agree, Fields, Work
<1>8. v.processedBatchCh = <<b>> /\ Head(v.processedBatchCh) = b
  BY <1>6, <1>7
<1>9. Channels(v) /\ Unsubmitted(v)
  BY <1>2, <1>6, <1>7, <1>8, <1>b, AgreeFields DEF Channels, Unsubmitted, rank
<1>10. Sound(v)
  BY <1>2, <1>6, <1>7, <1>9, SoundKept
<1> QED BY <1>2, <1>6, <1>7, <1>10 DEF v, rank

LEMMA ToEvent ==
  ASSUME NEW m, Sound(m), NEW w, Agree(m, w, {"fetch"}),
         m.state.name \in {"WaitingForBatch", "WaitingForTxs"},
         NEW p \in Proposals, RankOf(p) \notin m.submitted
  PROVE  LET v == transitionState(w, WaitingForEvent(p))
         IN  /\ Sound(v) /\ Agree(m, v, Work)
             /\ v.state.name = "WaitingForEvent" /\ v.state.rank = RankOf(p)
<1> DEFINE s == WaitingForEvent(p)
           v == transitionState(w, s)
<1>1. w.state = m.state /\ DOMAIN w = Fields /\ w.processedBatchCh = <<>> /\ w.job = nil
  BY NothingRuns DEF Agree, Fields
<1>2. StateOK(s) /\ s.name = "WaitingForEvent" /\ s.rank = RankOf(p)
  BY NewStates
<1>3. StateOK(w.state)
  BY <1>1 DEF Sound
<1> HIDE DEF s
<1>4. v.state = s /\ Agree(w, v, {"state"})
  BY <1>1, <1>2, <1>3, Transition, ValidTransitions
<1> HIDE DEF v
<1>7. Agree(m, v, Work) /\ v.job = nil /\ v.processedBatchCh = <<>>
  BY <1>1, <1>4 DEF Agree, Fields, Work
<1>9. Channels(v) /\ Unsubmitted(v)
  BY <1>2, <1>4, <1>7, AgreeFields DEF Channels, Unsubmitted
<1>10. Sound(v)
  BY <1>2, <1>4, <1>7, <1>9, SoundKept
<1> QED BY <1>2, <1>4, <1>7, <1>10 DEF v, s

\* The state and the goroutine that wait for the missing transactions of p.
Fetching(m, p, missing, bytes) ==
  [transitionState(m, WaitingForTxs(p, missing, bytes)) EXCEPT
     !.fetch = [txHashes |-> missing, txs |-> {}]]

LEMMA ToTxs ==
  ASSUME NEW m, Sound(m), m.state.name = "WaitingForBatch",
         NEW p \in Proposals, RankOf(p) \notin m.submitted,
         NEW missing, NEW bytes
  PROVE  LET v == Fetching(m, p, missing, bytes)
         IN  /\ Sound(v) /\ Agree(m, v, Work)
             /\ v.state.name = "WaitingForTxs" /\ v.state.rank = RankOf(p)
<1> DEFINE s == WaitingForTxs(p, missing, bytes)
           u == transitionState(m, s)
           v == Fetching(m, p, missing, bytes)
<1>0. v = [u EXCEPT !.fetch = [txHashes |-> missing, txs |-> {}]]
  BY DEF Fetching
<1> HIDE DEF v
<1>1. DOMAIN m = Fields /\ m.processedBatchCh = <<>> /\ m.job = nil /\ StateOK(m.state)
  BY NothingRuns DEF Sound
<1>2. StateOK(s) /\ s.name = "WaitingForTxs" /\ s.rank = RankOf(p)
  BY NewStates
<1> HIDE DEF s
<1>4. u.state = s /\ Agree(m, u, {"state"})
  BY <1>1, <1>2, Transition, ValidTransitions
<1> HIDE DEF u
<1>6. v.state = s /\ Agree(u, v, {"fetch"})
  BY <1>0, <1>4 DEF Agree, Fields
<1>7. Agree(m, v, Work) /\ v.job = nil /\ v.processedBatchCh = <<>>
  BY <1>1, <1>4, <1>6 DEF Agree, Fields, Work
<1>9. Channels(v) /\ Unsubmitted(v)
  BY <1>2, <1>6, <1>7, AgreeFields DEF Channels, Unsubmitted
<1>10. Sound(v)
  BY <1>2, <1>6, <1>7, <1>9, SoundKept
<1> QED BY <1>2, <1>6, <1>7, <1>10 DEF v

LEMMA FaultKeeps ==
  ASSUME NEW m, Sound(m), NEW w \in Faulted(m)
  PROVE  Sound(w) /\ Agree(m, w, {"faults"}) /\ w.state = m.state
<1>1. w = [m EXCEPT !.faults = @ + 1]
  BY DEF Faulted
<1>2. DOMAIN m = Fields
  BY DEF Sound
<1>3. Agree(m, w, {"faults"})
  BY <1>1, <1>2 DEF Agree, Fields
<1>4. Agree(m, w, Work) /\ w.state = m.state /\ w.job = m.job
      /\ w.processedBatchCh = m.processedBatchCh
  BY <1>3 DEF Agree, Fields, Work
<1>5. StateOK(w.state) /\ Channels(w) /\ Unsubmitted(w)
  BY <1>4, AgreeFields, Zenon DEF Sound, Channels, Unsubmitted
<1> QED BY <1>3, <1>4, <1>5, SoundKept

----------------------------------------------------------------------------
(* The decisions of the loop.                                               *)

\* updateState leaves nothing but work within the bounds on the ranks, and
\* no transition that is not allowed.
LEMMA UpdateState ==
  ASSUME NEW m, Sound(m), NEW lo \in Nat, NEW hi \in Nat, NEW d \in BOOLEAN
  PROVE  LET w == updateState(m, lo, hi, d)
         IN  /\ Sound(w) /\ Agree(m, w, Work)
             /\ w.state.name # "WaitingForBatch" => lo <= w.state.rank /\ w.state.rank <= hi
<1> DEFINE s == m.state
           out == s.rank < lo \/ s.rank > hi
           w == updateState(m, lo, hi, d)
           c == CancelFetch(m)
           a == abortBatch(m)
           Good(v) == /\ Sound(v) /\ Agree(m, v, Work)
                      /\ v.state.name # "WaitingForBatch" =>
                           lo <= v.state.rank /\ v.state.rank <= hi
<1>1. DOMAIN m = Fields /\ StateOK(s)
  BY DEF Sound
<1>2. /\ s.name \in {"WaitingForBatch", "WaitingForTxs", "WaitingForEvent", "ProcessingBatch"}
      /\ s.name # "WaitingForBatch" => s.rank \in Ranks /\ s.rank \in Nat
      /\ s.name \in {"WaitingForTxs", "WaitingForEvent"} =>
           s.proposal \in Proposals /\ s.rank = RankOf(s.proposal)
  BY <1>1, StateFacts, RankType, ZenonT(30)
<1>3. s.name # "WaitingForBatch" => s.rank \notin m.submitted
  BY DEF Sound, Unsubmitted
<1>4. /\ Agree(m, c, {"fetch"}) /\ Agree(m, c, {"job", "processedBatchCh", "fetch"})
      /\ c.job = m.job /\ c.processedBatchCh = m.processedBatchCh
  BY <1>1 DEF CancelFetch, Agree, Fields
<1>5. /\ Agree(m, a, {"job", "processedBatchCh", "fetch"})
      /\ a.job = nil /\ a.processedBatchCh = <<>>
  BY <1>1, ZenonT(30) DEF abortBatch, Agree, Fields
<1>6. Agree(m, m, {"fetch"}) /\ Agree(m, m, Work)
      /\ Agree(m, m, {"job", "processedBatchCh", "fetch"})
  BY <1>1, AgreeRefl
<1> HIDE DEF c, a, s
<1>7. CASE s.name = "WaitingForTxs" /\ out
  <2>1. w = transitionState(c, WaitingForBatch)
    BY <1>7 DEF updateState, s, c
  <2>2. c.job = nil /\ c.processedBatchCh = <<>>
    BY <1>7, <1>4, NothingRuns DEF s
  <2> QED BY <2>1, <2>2, <1>4, ToWaiting, Waiting
<1>8. CASE s.name = "WaitingForTxs" /\ ~out /\ TooLarge(s.bytes)
  <2>1. w = transitionStateToProcessingFailure(c, s.proposal)
    BY <1>8 DEF updateState, s, c
  <2>2. /\ Sound(w) /\ Agree(m, w, Work) /\ w.state.rank = s.rank
    BY <2>1, <1>2, <1>3, <1>4, <1>8, ToFailure DEF s
  <2> QED BY <2>2, <1>2, <1>8
<1>9. CASE s.name = "WaitingForTxs" /\ ~out /\ ~TooLarge(s.bytes) /\ s.txs = {} /\ BackupOnly /\ ~d
  <2>1. w = transitionState(c, WaitingForEvent(s.proposal))
    BY <1>9 DEF updateState, s, c
  <2>2. /\ Sound(w) /\ Agree(m, w, Work) /\ w.state.rank = s.rank
    BY <2>1, <1>2, <1>3, <1>4, <1>9, ToEvent DEF s
  <2> QED BY <2>2, <1>2, <1>9
<1>10. CASE s.name = "WaitingForTxs" /\ ~out /\ ~TooLarge(s.bytes) /\ s.txs = {} /\ ~(BackupOnly /\ ~d)
  <2>1. w = Processing(c, s.rank, "Execute", s.proposal)
    BY <1>10, <1>2 DEF updateState, s, c, transitionStateToProcessing
  <2>2. /\ Sound(w) /\ Agree(m, w, Work) /\ w.state = ProcessingBatch(s.rank, "Execute")
    BY <2>1, <1>2, <1>3, <1>4, <1>10, ToProcessing DEF s
  <2>3. w.state.rank = s.rank
    BY <2>2, <1>2, <1>10, Processed
  <2> QED BY <2>2, <2>3, <1>2, <1>10
<1>11. CASE s.name = "WaitingForEvent" /\ out
  <2>1. w = transitionState(m, WaitingForBatch)
    BY <1>11 DEF updateState, s
  <2>2. m.job = nil /\ m.processedBatchCh = <<>>
    BY <1>11, NothingRuns DEF s
  <2> QED BY <2>1, <2>2, <1>6, ToWaiting, Waiting
<1>12. CASE s.name = "WaitingForEvent" /\ ~out /\ d
  <2>1. w = Processing(m, s.rank, "Execute", s.proposal)
    BY <1>12, <1>2 DEF updateState, s, transitionStateToProcessing
  <2>2. /\ Sound(w) /\ Agree(m, w, Work) /\ w.state = ProcessingBatch(s.rank, "Execute")
    BY <2>1, <1>2, <1>3, <1>6, <1>12, ToProcessing DEF s
  <2>3. w.state.rank = s.rank
    BY <2>2, <1>2, <1>12, Processed
  <2> QED BY <2>2, <2>3, <1>2, <1>12
<1>13. CASE s.name = "ProcessingBatch" /\ out
  <2>1. w = transitionState(a, WaitingForBatch)
    BY <1>13 DEF updateState, s, a
  <2> QED BY <2>1, <1>5, ToWaiting, Waiting
<1>14. CASE \/ s.name = "WaitingForBatch"
            \/ s.name = "WaitingForTxs" /\ ~out /\ ~TooLarge(s.bytes) /\ s.txs # {}
            \/ s.name = "WaitingForEvent" /\ ~out /\ ~d
            \/ s.name = "ProcessingBatch" /\ ~out
  <2>1. w = m
    BY <1>14 DEF updateState, s
  <2>2. s.name # "WaitingForBatch" => lo <= s.rank /\ s.rank <= hi
    BY <1>2, <1>14
  <2> QED BY <2>1, <2>2, <1>6 DEF s
<1> QED BY <1>2, <1>7, <1>8, <1>9, <1>10, <1>11, <1>12, <1>13, <1>14

LEMMA ScheduleBatch ==
  ASSUME NEW m, Sound(m), NEW force, NEW w \in scheduleBatch(m, force)
  PROVE  /\ Sound(w) /\ Agree(m, w, Work)
         /\ w.state = m.state \/ w.state.rank = OwnRank(m.round)
<1>1. DOMAIN m = Fields /\ m.round \in {0} \union FirstRound..LastRound
  BY DEF Sound, Ranked
<1>2. Agree(m, m, {"fetch"}) /\ Agree(m, m, Work)
  BY <1>1, AgreeRefl
<1>3. CASE w = m
  BY <1>2, <1>3
<1>4. CASE w \in Faulted(m)
  <2>1. Sound(w) /\ Agree(m, w, {"faults"}) /\ w.state = m.state
    BY <1>4, FaultKeeps
  <2>2. Agree(m, w, Work)
    BY <2>1, Zenon DEF Agree, Work
  <2> QED BY <2>1, <2>2
<1>5. CASE /\ m.state.name = "WaitingForBatch" /\ OwnRank(m.round) \notin m.submitted
           /\ IsWorker(Me) /\ w = Processing(m, OwnRank(m.round), "Schedule", nil)
  <2>1. OwnRank(m.round) \in Ranks
    BY <1>1, <1>5, OwnRankType
  <2>a. PICK rank \in Ranks : rank = OwnRank(m.round)
    BY <2>1
  <2>b. /\ m.state.name # "ProcessingBatch" /\ rank \notin m.submitted
        /\ w = Processing(m, rank, "Schedule", nil)
    BY <1>5, <2>a
  <2>c. Sound(w) /\ Agree(m, w, Work) /\ w.state = ProcessingBatch(rank, "Schedule")
    BY <1>2, <2>b, ToProcessing
  <2>2. /\ Sound(w) /\ Agree(m, w, Work)
        /\ w.state = ProcessingBatch(OwnRank(m.round), "Schedule")
    BY <2>a, <2>c, Zenon
  <2> QED BY <2>1, <2>2, Processed
<1> QED BY <1>3, <1>4, <1>5 DEF scheduleBatch

\* A proposal is taken on when the node is idle; it stays idle only when the
\* proposal extends another block.
LEMMA ProcessProposal ==
  ASSUME NEW m, Sound(m), NEW p \in Proposals, NEW d \in BOOLEAN
  PROVE  LET w == processProposal(m, p, d)
         IN  /\ Sound(w) /\ Agree(m, w, Work)
             /\ w.state = m.state \/ w.state.rank = RankOf(p)
             /\ \/ w.state.name # "WaitingForBatch"
                \/ RankOf(p) \in m.submitted \/ (d /\ ~IsBackupWorker(Me)) \/ ~p.parent
<1> DEFINE missing == p.batch \ txpool
           bytes == Bytes(p.batch \intersect txpool)
           w == processProposal(m, p, d)
           skip == \/ m.state.name # "WaitingForBatch"
                   \/ RankOf(p) \in m.submitted
                   \/ d /\ ~IsBackupWorker(Me)
           large == Cardinality(p.batch) > MaxBatchSize \/ TooLarge(bytes)
<1>1. DOMAIN m = Fields /\ Agree(m, m, {"fetch"}) /\ Agree(m, m, Work)
  BY AgreeRefl DEF Sound
<1>2. RankOf(p) \in Ranks
  BY RankType, Zenon
<1>3. CASE skip
  <2>1. w = m
    BY <1>3 DEF processProposal
  <2> QED BY <1>1, <1>3, <2>1
<1>4. CASE ~skip /\ large
  <2>1. w = transitionStateToProcessingFailure(m, p)
    BY <1>4 DEF processProposal
  <2> QED BY <1>1, <1>4, <2>1, ToFailure
<1>5. CASE ~skip /\ ~large /\ missing # {}
  <2>1. w = Fetching(m, p, missing, bytes)
    BY <1>5 DEF processProposal, Fetching
  <2>2. m.state.name = "WaitingForBatch" /\ RankOf(p) \notin m.submitted
    BY <1>5
  <2> HIDE DEF missing, bytes, w
  <2>3. /\ Sound(w) /\ Agree(m, w, Work)
        /\ w.state.name = "WaitingForTxs" /\ w.state.rank = RankOf(p)
    BY <2>1, <2>2, ToTxs
  <2> QED BY <2>3 DEF w
<1>6. CASE ~skip /\ ~large /\ missing = {} /\ ~p.parent
  <2>1. w = m
    BY <1>6, Zenon DEF processProposal
  <2> QED BY <1>1, <1>6, <2>1
<1>7. CASE ~skip /\ ~large /\ missing = {} /\ p.parent /\ BackupOnly /\ ~d
  <2>1. w = transitionState(m, WaitingForEvent(p))
    BY <1>7, Zenon DEF processProposal
  <2> QED BY <1>1, <1>7, <2>1, ToEvent
<1>8. CASE ~skip /\ ~large /\ missing = {} /\ p.parent /\ ~(BackupOnly /\ ~d)
  <2>1. w = Processing(m, RankOf(p), "Execute", p)
    BY <1>8, Zenon DEF processProposal, transitionStateToProcessing
  <2>2. Sound(w) /\ Agree(m, w, Work) /\ w.state = ProcessingBatch(RankOf(p), "Execute")
    BY <1>1, <1>2, <1>8, <2>1, ToProcessing
  <2> QED BY <2>2, <1>2, Processed
<1> QED BY <1>3, <1>4, <1>5, <1>6, <1>7, <1>8, ZenonT(40)

\* The node works on the discrepant rank only.
Focused(m) ==
  m.discrepancy # nil /\ m.state.name # "WaitingForBatch" =>
    m.state.rank = m.discrepancy.rank

MatchingIn(Q, round, lo, hi, exclude) ==
  {p \in Q : p.round = round /\ RankOf(p) \in lo..hi /\ RankOf(p) \notin exclude}

\* The admissible proposals that precede the node's own, and those of the
\* discrepant rank.
Better(Q, m) ==
  {p \in MatchingIn(Q, m.round, 0, Limit(m), m.submitted) : RankOf(p) < OwnRank(m.round)}

Discrepant(Q, m) ==
  MatchingIn(Q, m.round, m.discrepancy.rank, m.discrepancy.rank, m.submitted)

\* The node's work is the best that the queue Q allows.
Awake(Q, m) ==
  IF m.discrepancy = nil
  THEN \A p \in Better(Q, m) :
         IF m.state.name = "WaitingForBatch"
         THEN \E q \in Better(Q, m) : ~q.parent
         ELSE m.state.rank <= RankOf(p)
  ELSE \A p \in Discrepant(Q, m) :
         p.parent /\ IsBackupWorker(Me) => m.state.name # "WaitingForBatch"

LEMMA WakeupIsAwake ==
  /\ NoLostWakeup <=> (n.working /\ ~reselectCh => Awake(proposals.q, n))
  /\ NoLostWakeup' <=> (n'.working /\ ~reselectCh' => Awake(proposals'.q, n'))
  BY Zenon DEF NoLostWakeup, Awake, Better, Discrepant, MatchingIn, Matching, Limit

LEMMA AwakeKept ==
  ASSUME NEW Q, NEW m, NEW w, Awake(Q, m), w.round = m.round, w.schedulerRank = m.schedulerRank,
         w.poolRank = m.poolRank, w.discrepancy = m.discrepancy, w.submitted = m.submitted,
         w.state = m.state
  PROVE  Awake(Q, w)
  BY DEF Awake, Better, Discrepant, Limit

LEMMA LimitType ==
  ASSUME NEW m, Sound(m)
  PROVE  Limit(m) \in Nat
<1>1. m.schedulerRank \in Nat /\ m.poolRank \in Nat /\ OwnRank(m.round) \in Nat
  BY OwnRankType DEF Sound, Ranked
<1> QED BY <1>1 DEF Limit, Min

\* One pass of the loop, in discrepancy detection.
LEMMA DetectingDecides ==
  ASSUME SetFacts, NEW m, Sound(m), m.discrepancy = nil,
         proposals.q \subseteq Proposals, NEW w \in Detecting(m)
  PROVE  Sound(w) /\ Agree(m, w, Work) /\ Awake(proposals.q, w)
<1> DEFINE limit == Limit(m)
           own == OwnRank(m.round)
           matching == Matching(m.round, 0, limit, m.submitted)
           p == Best(matching)
<1>1. own \in Nat /\ limit \in Nat
  BY OwnRankType, LimitType DEF Sound, Ranked
<1>2. matching \subseteq Proposals
  BY DEF Matching
<1>3. matching = MatchingIn(proposals.q, m.round, 0, limit, m.submitted)
  BY DEF Matching, MatchingIn
<1>4. Better(proposals.q, m) = {q \in matching : RankOf(q) < own}
  BY <1>3 DEF Better
<1>5. DOMAIN m = Fields
  BY Zenon DEF Sound
<1>6. ASSUME Agree(m, w, Work)
      PROVE  w.discrepancy = nil /\ Better(proposals.q, w) = Better(proposals.q, m)
  BY <1>6, AgreeFields DEF Better, Limit
<1>m. \A q \in matching : RankOf(q) \in Nat /\ RankOf(q) \notin m.submitted
  BY <1>2, RankType DEF Matching
<1> HIDE DEF limit, own, matching
<1>7. CASE matching # {} /\ RankOf(p) < own
  <2> DEFINE u == updateState(m, 0, RankOf(p), FALSE)
  <2>1. p \in matching /\ \A q \in matching : RankOf(p) <= RankOf(q)
    BY <1>2, <1>7, BestIsFirst
  <2> HIDE DEF p
  <2>2. p \in Proposals /\ RankOf(p) \in Nat /\ RankOf(p) \notin m.submitted
    BY <1>2, <1>m, <2>1
  <2>3. /\ Sound(u) /\ Agree(m, u, Work)
        /\ u.state.name # "WaitingForBatch" => u.state.rank <= RankOf(p)
    BY <2>2, UpdateState, ZenonT(30)
  <2>4. w = processProposal(u, p, FALSE)
    BY <1>7 DEF Detecting, limit, own, matching, p
  <2> HIDE DEF u
  <2>5. /\ Sound(w) /\ Agree(u, w, Work)
        /\ w.state = u.state \/ w.state.rank = RankOf(p)
        /\ w.state.name # "WaitingForBatch" \/ RankOf(p) \in u.submitted \/ ~p.parent
    BY <2>2, <2>3, <2>4, ProcessProposal, ZenonT(30)
  <2>6. Agree(m, w, Work)
    BY <2>3, <2>5, AgreeTrans, Zenon
  <2>7. u.submitted = m.submitted
    BY <2>3, AgreeFields
  <2>8. p \in Better(proposals.q, m)
    BY <1>4, <1>7, <2>1
  <2>9. w.state.name = "WaitingForBatch" => ~p.parent
    BY <2>2, <2>5, <2>7
  <2>a. w.state.name # "WaitingForBatch" => w.state.rank \in Nat
    <3>1. StateOK(w.state)
      BY <2>5 DEF Sound
    <3> QED BY <3>1, StateFacts, RankType, ZenonT(30)
  <2>10. w.state.name # "WaitingForBatch" => w.state.rank <= RankOf(p) /\ w.state.rank \in Nat
    BY <2>2, <2>3, <2>5, <2>a
  <2>11. \A q \in Better(proposals.q, m) : RankOf(p) <= RankOf(q) /\ RankOf(q) \in Nat
    BY <1>4, <2>1, <1>m, Zenon
  <2>12. Awake(proposals.q, w)
    BY <1>6, <2>2, <2>6, <2>8, <2>9, <2>10, <2>11 DEF Awake
  <2> QED BY <2>5, <2>6, <2>12
<1>8. CASE ~(matching # {} /\ RankOf(p) < own)
  <2>1. Better(proposals.q, m) = {}
    <3> SUFFICES ASSUME NEW q \in matching, RankOf(q) < own PROVE FALSE
      BY <1>4
    <3>1. p \in matching /\ RankOf(p) <= RankOf(q)
      BY <1>2, BestIsFirst, Zenon
    <3> QED BY <3>1, <1>1, <1>8, <1>m
  <2>2. Agree(m, w, Work) => Awake(proposals.q, w)
    BY <1>6, <2>1, Zenon DEF Awake
  <2>3. CASE own <= limit
    <3> DEFINE u == updateState(m, 0, own, FALSE)
    <3>1. w \in scheduleBatch(u, m.flush)
      BY <1>8, <2>3, ZenonT(30) DEF Detecting, limit, own, matching
    <3>2. Sound(u) /\ Agree(m, u, Work)
      BY <1>1, UpdateState, ZenonT(30)
    <3> HIDE DEF u
    <3>3. Sound(w) /\ Agree(u, w, Work)
      BY <3>1, <3>2, ScheduleBatch
    <3> QED BY <2>2, <3>2, <3>3, AgreeTrans
  <2>4. CASE ~(own <= limit)
    <3>1. w = m
      BY <1>8, <2>4, ZenonT(30) DEF Detecting, limit, own, matching
    <3> QED BY <2>2, <3>1, <1>5, AgreeRefl
  <2> QED BY <2>3, <2>4
<1> QED BY <1>7, <1>8

\* One pass of the loop, in discrepancy resolution.
LEMMA ResolvingDecides ==
  ASSUME SetFacts, NEW m, Sound(m), m.discrepancy # nil, Queue, NEW w \in Resolving(m)
  PROVE  Sound(w) /\ Agree(m, w, Work) /\ Focused(w) /\ Awake(proposals.q, w)
<1> DEFINE rank == m.discrepancy.rank
           u == updateState(m, rank, rank, TRUE)
           matching == Matching(m.round, rank, rank, m.submitted)
           p == Best(matching)
<1>1. rank \in Nat /\ rank \in Ranks
  BY RankType, ZenonT(30) DEF Sound, Ranked
<1>2. matching \subseteq Proposals
  BY DEF Matching, Queue
<1>3. Discrepant(proposals.q, m) = matching
  BY Zenon DEF Matching, MatchingIn, Discrepant
<1>4. ASSUME Agree(m, w, Work)
      PROVE  w.discrepancy = m.discrepancy /\ Discrepant(proposals.q, w) = matching
  BY <1>3, <1>4, AgreeFields DEF Discrepant
<1>5. /\ Sound(u) /\ Agree(m, u, Work)
      /\ u.state.name # "WaitingForBatch" => rank <= u.state.rank /\ u.state.rank <= rank
  BY <1>1, UpdateState, ZenonT(30)
<1>6. u.state.name # "WaitingForBatch" => u.state.rank = rank
  <2>1. StateOK(u.state)
    BY <1>5, ZenonT(30) DEF Sound
  <2> HIDE DEF u
  <2>2. u.state.name # "WaitingForBatch" => u.state.rank \in Nat
    BY <2>1, StateFacts, RankType, ZenonT(30)
  <2> QED BY <1>1, <1>5, <2>2
<1>7. u.submitted = m.submitted /\ u.round = m.round
  BY <1>5, AgreeFields, ZenonT(30)
<1>8. \A q \in matching : /\ RankOf(q) \in Nat /\ RankOf(q) = rank /\ q.round = m.round
                          /\ RankOf(q) \notin m.submitted /\ q \in proposals.q
  BY <1>1, <1>2, RankType DEF Matching
<1>9. w \in IF matching # {} THEN {processProposal(u, p, TRUE)}
            ELSE IF OwnRank(m.round) = rank THEN scheduleBatch(u, TRUE) ELSE {u}
  BY ZenonT(30) DEF Resolving
<1> HIDE DEF u, matching, p, rank
<1>10. ASSUME Sound(w), Agree(u, w, Work), w.state = u.state \/ w.state.rank = rank,
              \A q \in matching : q.parent /\ IsBackupWorker(Me) =>
                                    w.state.name # "WaitingForBatch"
       PROVE  Sound(w) /\ Agree(m, w, Work) /\ Focused(w) /\ Awake(proposals.q, w)
  <2>1. Agree(m, w, Work)
    BY <1>5, <1>10, AgreeTrans
  <2>2. w.discrepancy.rank = rank /\ w.discrepancy # nil /\ Discrepant(proposals.q, w) = matching
    BY <2>1, <1>4 DEF rank
  <2>3. Focused(w)
    BY <2>2, <1>6, <1>10, Zenon DEF Focused
  <2>4. Awake(proposals.q, w)
    BY <2>2, <1>10, Zenon DEF Awake
  <2> QED BY <2>1, <2>3, <2>4, <1>10, Zenon
<1>11. CASE matching # {}
  <2>1. p \in matching
    BY <1>2, <1>11, BestIsFirst DEF p
  <2>2. p \in Proposals /\ RankOf(p) = rank /\ RankOf(p) \notin u.submitted
    BY <2>1, <1>2, <1>7, <1>8
  <2>3. w = processProposal(u, p, TRUE)
    BY <1>9, <1>11
  <2>4. /\ Sound(w) /\ Agree(u, w, Work)
        /\ w.state = u.state \/ w.state.rank = RankOf(p)
        /\ \/ w.state.name # "WaitingForBatch"
           \/ RankOf(p) \in u.submitted \/ ~IsBackupWorker(Me) \/ ~p.parent
    BY <2>2, <2>3, <1>5, ProcessProposal, ZenonT(30)
  <2>5. \A q \in matching : q = p
    BY <2>1, <1>8, Zenon DEF Queue
  <2> QED BY <2>2, <2>4, <2>5, <1>10
<1>12. CASE matching = {} /\ OwnRank(m.round) = rank
  <2>1. w \in scheduleBatch(u, TRUE)
    BY <1>9, <1>12, ZenonT(30)
  <2>2. Sound(w) /\ Agree(u, w, Work) /\ (w.state = u.state \/ w.state.rank = rank)
    BY <2>1, <1>5, <1>7, <1>12, ScheduleBatch, ZenonT(30)
  <2> QED BY <2>2, <1>10, <1>12
<1>13. CASE matching = {} /\ OwnRank(m.round) # rank
  <2>1. w = u
    BY <1>9, <1>13, Zenon
  <2>2. Agree(u, w, Work)
    BY <2>1, <1>5, AgreeRefl DEF Sound
  <2> QED BY <2>1, <2>2, <1>5, <1>10, <1>13
<1> QED BY <1>11, <1>12, <1>13

LEMMA LoopDecides ==
  ASSUME SetFacts, NEW m, Sound(m), Queue, NEW w \in Loop(m)
  PROVE  Sound(w) /\ Agree(m, w, Work) /\ Focused(w) /\ Awake(proposals.q, w)
<1>1. CASE m.discrepancy = nil
  <2>1. Sound(w) /\ Agree(m, w, Work) /\ Awake(proposals.q, w)
    BY <1>1, DetectingDecides DEF Loop, Queue
  <2>2. w.discrepancy = nil
    BY <1>1, <2>1, AgreeFields
  <2> QED BY <2>1, <2>2, Zenon DEF Focused
<1>2. CASE m.discrepancy # nil
  BY <1>2, ResolvingDecides, Zenon DEF Loop
<1> QED BY <1>1, <1>2

----------------------------------------------------------------------------
(* The handlers leave a record that the loop can start from.                *)

LEMMA FreshRoundSound ==
  ASSUME NEW m, DOMAIN m = Fields, NEW round \in FirstRound..LastRound
  PROVE  /\ Sound(FreshRound(m, round))
         /\ FreshRound(m, round).round = round
         /\ FreshRound(m, round).discrepancy = nil
<1> DEFINE w == FreshRound(m, round)
<1>1. DOMAIN w = Fields
  BY ZenonT(30) DEF FreshRound, resetNodeState, Fields
<1>2. /\ w.round = round /\ w.state = WaitingForBatch /\ w.job = nil
      /\ w.processedBatchCh = <<>> /\ w.schedulerRank = 0 /\ w.poolRank = MaxRank
      /\ w.discrepancy = nil /\ w.submitted = {} /\ w.commits = <<>>
  BY DEF FreshRound, resetNodeState, Fields
<1> HIDE DEF w
<1>3. StateOK(w.state) /\ w.state.name = "WaitingForBatch"
  BY <1>2, Waiting
<1>4. Channels(w) /\ Unsubmitted(w)
  BY <1>2, <1>3 DEF Channels, Unsubmitted
<1>5. Recorded(w)
  BY <1>2 DEF Recorded
<1>6. Ranked(w)
  BY <1>2, NodeAssumption DEF Ranked
<1> QED BY <1>1, <1>2, <1>3, <1>4, <1>5, <1>6 DEF Sound, w

\* A commitment is only recorded for a rank that has none yet.
LEMMA CommitRecords ==
  ASSUME NEW m, DOMAIN m = Fields, Recorded(m), NEW rank \in Ranks, rank \notin m.submitted,
         NEW ok \in BOOLEAN
  PROVE  LET w == Commit(m, rank, ok)
         IN  /\ Recorded(w) /\ Agree(m, w, {"submitted", "commits"})
             /\ w.submitted = m.submitted \union {rank}
<1> DEFINE w == Commit(m, rank, ok)
           late == m.discrepancy = nil /\ rank > m.poolRank
           c == [rank |-> rank, ok |-> ok, late |-> late]
<1>1. /\ w.submitted = m.submitted \union {rank} /\ w.commits = Append(m.commits, c)
      /\ Agree(m, w, {"submitted", "commits"})
  BY ZenonT(30) DEF Commit, Agree, Fields
<1>2. c \in Commitment /\ c.rank = rank
  BY DEF Commitment
<1> HIDE DEF w, c
<1>3. w.commits \in Seq(Commitment) /\ Len(w.commits) = Len(m.commits) + 1
      /\ Len(m.commits) \in Nat
  BY <1>1, <1>2 DEF Recorded
<1>4. \A i \in 1..Len(w.commits) :
        w.commits[i] = IF i = Len(m.commits) + 1 THEN c ELSE m.commits[i]
  BY <1>1, <1>2, <1>3 DEF Recorded
<1>5. \A i \in 1..Len(w.commits) :
        IF i = Len(m.commits) + 1 THEN w.commits[i].rank = rank
        ELSE /\ i \in 1..Len(m.commits) /\ w.commits[i].rank = m.commits[i].rank
             /\ w.commits[i].rank \in m.submitted
  BY <1>2, <1>3, <1>4, SMTT(40) DEF Recorded
<1>6. \A i \in 1..Len(w.commits) : w.commits[i].rank \in w.submitted
  BY <1>1, <1>5
<1>7. \A i, j \in 1..Len(w.commits) : w.commits[i].rank = w.commits[j].rank => i = j
  BY <1>3, <1>5, SMTT(40) DEF Recorded
<1> QED BY <1>1, <1>3, <1>6, <1>7 DEF Recorded, w

\* The fields that handleProcessedBatch writes.
Results == {"state", "job", "processedBatchCh", "submitted", "commits", "faults"}

LEMMA Committed ==
  ASSUME NEW m, Sound(m), NEW w, Agree(m, w, Results),
         w.state = WaitingForBatch, w.job = nil, w.processedBatchCh = <<>>, Recorded(w)
  PROVE  Sound(w)
<1>1. /\ DOMAIN w = Fields /\ w.round = m.round /\ w.schedulerRank = m.schedulerRank
      /\ w.poolRank = m.poolRank /\ w.discrepancy = m.discrepancy
  BY Zenon DEF Agree, Fields, Results
<1>2. Ranked(w)
  BY <1>1 DEF Sound, Ranked
<1>3. StateOK(w.state) /\ w.state.name = "WaitingForBatch"
  BY Waiting, Zenon
<1> QED BY <1>1, <1>2, <1>3, Zenon DEF Sound, Channels, Unsubmitted

\* The record that the worker has after it took the result b.
LEMMA TakenSound ==
  ASSUME NEW m, Sound(m), m.processedBatchCh # <<>>, NEW w, Agree(m, w, {"processedBatchCh"}),
         w.processedBatchCh = Tail(m.processedBatchCh)
  PROVE  /\ Sound(w) /\ w.job = nil /\ w.processedBatchCh = <<>>
         /\ w.state.name = "ProcessingBatch" /\ w.state = m.state
<1>1. /\ w.state = m.state /\ w.job = m.job /\ Agree(m, w, Work)
      /\ w.submitted = m.submitted
  BY DEF Agree, Fields, Work
<1>2. /\ m.processedBatchCh = <<Head(m.processedBatchCh)>> /\ m.job = nil
      /\ m.state.name = "ProcessingBatch"
  BY DEF Sound, Channels
<1>3. Tail(m.processedBatchCh) = <<>>
  <2> DEFINE h == Head(m.processedBatchCh)
  <2>1. m.processedBatchCh = <<h>>
    BY <1>2, Zenon
  <2> HIDE DEF h
  <2> QED BY <2>1
<1>4. StateOK(w.state) /\ Channels(w) /\ Unsubmitted(w)
  BY <1>1, <1>2, <1>3 DEF Sound, Channels, Unsubmitted
<1> QED BY <1>1, <1>2, <1>3, <1>4, SoundKept

LEMMA AbortKeeps ==
  ASSUME NEW m, DOMAIN m = Fields
  PROVE  /\ Agree(m, abortBatch(m), {"job", "processedBatchCh"})
         /\ abortBatch(m).job = nil /\ abortBatch(m).processedBatchCh = <<>>
  BY ZenonT(30) DEF abortBatch, Agree, Fields

\* A commitment for the batch that was being processed ends the processing.
LEMMA CommitEnds ==
  ASSUME NEW m, Sound(m), m.state.name = "ProcessingBatch", NEW ok \in BOOLEAN,
         NEW w, Agree(Commit(m, m.state.rank, ok), w, {"job", "processedBatchCh"}),
         w.job = nil, w.processedBatchCh = <<>>
  PROVE  Sound(transitionState(w, WaitingForBatch))
<1> DEFINE rank == m.state.rank
           u == Commit(m, rank, ok)
           v == transitionState(w, WaitingForBatch)
<1>1. DOMAIN m = Fields /\ Recorded(m) /\ StateOK(m.state) /\ rank \notin m.submitted
  BY Zenon DEF Sound, Unsubmitted
<1>2. rank \in Ranks
  BY <1>1, StateFacts, Zenon
<1> HIDE DEF rank
<1>3. Recorded(u) /\ Agree(m, u, {"submitted", "commits"})
  BY <1>1, <1>2, CommitRecords
<1>4. Agree(u, w, {"job", "processedBatchCh"})
  BY Zenon DEF rank
<1> HIDE DEF u
<1>5. DOMAIN w = Fields /\ StateOK(w.state) /\ w.submitted = u.submitted /\ w.commits = u.commits
  BY <1>1, <1>3, <1>4, Zenon DEF Agree, Fields
<1>6. v.state = WaitingForBatch /\ Agree(w, v, {"state"})
  BY <1>5, Transition, ValidTransitions, Waiting
<1> HIDE DEF v
<1>7. /\ v.job = nil /\ v.processedBatchCh = <<>>
      /\ v.submitted = u.submitted /\ v.commits = u.commits
  BY <1>5, <1>6 DEF Agree, Fields
<1>8. Agree(m, v, Results)
  BY <1>3, <1>4, <1>6, Zenon DEF Agree, Results
<1>9. Recorded(v)
  BY <1>3, <1>7 DEF Recorded
<1>10. Sound(v)
  BY <1>6, <1>7, <1>8, <1>9, Committed
<1> QED BY <1>10, Zenon DEF v

LEMMA ProposeBatchSound ==
  ASSUME NEW m, Sound(m), m.state.name = "ProcessingBatch", m.job = nil,
         m.processedBatchCh = <<>>, NEW b, b.rank = m.state.rank,
         NEW v \in proposeBatch(m, b)
  PROVE  Sound(v)
<1>1. CASE v = transitionState(Commit(m, b.rank, TRUE), WaitingForBatch)
  <2> DEFINE u == Commit(m, m.state.rank, TRUE)
  <2>1. u.job = nil /\ u.processedBatchCh = <<>> /\ DOMAIN u = Fields
    BY DEF Commit, Sound, Fields
  <2> HIDE DEF u
  <2>2. Agree(u, u, {"job", "processedBatchCh"})
    BY <2>1, AgreeRefl
  <2>3. Sound(transitionState(u, WaitingForBatch))
    BY <2>1, <2>2, CommitEnds, ZenonT(30) DEF u
  <2> QED BY <2>3, <1>1, ZenonT(30) DEF u
<1>2. ASSUME NEW f \in Faulted(m),
             v = transitionState(abortBatch(Commit(f, b.rank, FALSE)), WaitingForBatch)
      PROVE  Sound(v)
  <2> DEFINE u == Commit(f, f.state.rank, FALSE)
  <2>1. Sound(f) /\ f.state = m.state
    BY FaultKeeps
  <2>2. DOMAIN u = Fields
    BY <2>1 DEF Commit, Sound, Fields
  <2> HIDE DEF u
  <2>3. /\ Agree(u, abortBatch(u), {"job", "processedBatchCh"})
        /\ abortBatch(u).job = nil /\ abortBatch(u).processedBatchCh = <<>>
    BY <2>2, AbortKeeps
  <2>4. Sound(transitionState(abortBatch(u), WaitingForBatch))
    BY <2>1, <2>3, CommitEnds, ZenonT(30) DEF u
  <2> QED BY <2>1, <2>4, <1>2, ZenonT(30) DEF u
<1>3. ASSUME NEW f \in Faulted(m), v = abortBatch(f)
      PROVE  Sound(v)
  <2>1. Sound(f) /\ f.state = m.state /\ DOMAIN f = Fields
    BY FaultKeeps, Zenon DEF Sound
  <2>2. /\ Agree(f, v, {"job", "processedBatchCh"})
        /\ v.job = nil /\ v.processedBatchCh = <<>>
    BY <2>1, <1>3, AbortKeeps, Zenon
  <2>3. Agree(f, v, Work) /\ v.state = f.state /\ v.submitted = f.submitted
    BY <2>2, Zenon DEF Agree, Fields, Work
  <2>4. StateOK(v.state) /\ Channels(v) /\ Unsubmitted(v)
    BY <2>1, <2>2, <2>3 DEF Sound, Channels, Unsubmitted
  <2> QED BY <2>1, <2>3, <2>4, SoundKept, Zenon
<1> QED BY <1>1, <1>2, <1>3, ZenonT(30) DEF proposeBatch

LEMMA HandleProcessedBatchSound ==
  ASSUME NEW m, Sound(m), m.state.name = "ProcessingBatch", m.job = nil,
         m.processedBatchCh = <<>>, NEW b, b # nil => b.rank = m.state.rank,
         NEW v \in handleProcessedBatch(m, b)
  PROVE  Sound(v)
<1>1. DOMAIN m = Fields /\ Agree(m, m, {"job", "processedBatchCh", "fetch"})
  BY AgreeRefl, Zenon DEF Sound
<1>2. CASE b = nil
  <2>1. v = transitionState(m, WaitingForBatch)
    BY <1>2 DEF handleProcessedBatch
  <2> QED BY <1>1, <2>1, ToWaiting, Zenon
<1>3. CASE b # nil /\ ~b.computed
  <2> DEFINE a == abortBatch(m)
             w == transitionState(a, WaitingForBatch)
  <2>1. v \in {Commit(w, b.rank, FALSE)} \union Faulted(w)
    BY <1>3, ZenonT(30) DEF handleProcessedBatch
  <2>2. Agree(m, a, {"job", "processedBatchCh"}) /\ a.job = nil /\ a.processedBatchCh = <<>>
    BY <1>1, AbortKeeps
  <2>3. Agree(m, a, {"job", "processedBatchCh", "fetch"})
    BY <2>2, Zenon DEF Agree
  <2> HIDE DEF a
  <2>4. Sound(w) /\ w.state = WaitingForBatch /\ Agree(m, w, Work) /\ Agree(a, w, {"state"})
    BY <2>2, <2>3, ToWaiting, Zenon
  <2> HIDE DEF w
  <2>5. CASE v \in Faulted(w)
    BY <2>4, <2>5, FaultKeeps, Zenon
  <2>6. CASE v = Commit(w, b.rank, FALSE)
    <3>1. w.submitted = m.submitted /\ DOMAIN w = Fields /\ Recorded(w)
      BY <2>4, AgreeFields, Zenon DEF Sound
    <3>2. b.rank \in Ranks /\ b.rank \notin w.submitted
      BY <1>3, <3>1, StateFacts DEF Sound, Unsubmitted
    <3>3. Recorded(v) /\ Agree(w, v, {"submitted", "commits"})
      BY <2>6, <3>1, <3>2, CommitRecords, ZenonT(30)
    <3>4. /\ Agree(w, v, Results) /\ v.state = w.state /\ v.job = w.job
          /\ v.processedBatchCh = w.processedBatchCh
      BY <3>3 DEF Agree, Fields, Results
    <3>5. w.job = nil /\ w.processedBatchCh = <<>>
      BY <2>2, <2>4, Zenon DEF Agree, Fields
    <3> QED BY <2>4, <3>3, <3>4, <3>5, Committed, Zenon
  <2> QED BY <2>1, <2>5, <2>6, ZenonT(30)
<1>4. CASE b # nil /\ b.computed
  <2>1. v \in proposeBatch(m, b) \/ v \in Faulted(m)
    BY <1>4, Zenon DEF handleProcessedBatch
  <2> QED BY <1>4, <2>1, FaultKeeps, ProposeBatchSound, Zenon
<1> QED BY <1>2, <1>3, <1>4, Zenon

\* Handlers that touch neither the batch nor the commitments.
LEMMA BoundsSound ==
  ASSUME NEW m, Sound(m), NEW w,
         Agree(m, w, {"schedulerRank", "poolRank", "flush", "discrepancy", "predicted",
                      "missingTxCh", "fetch"}),
         w.schedulerRank \in Nat, w.poolRank \in Nat,
         w.discrepancy # nil => w.discrepancy.rank \in Ranks
  PROVE  Sound(w)
<1>1. /\ DOMAIN w = Fields /\ w.state = m.state /\ w.job = m.job /\ w.round = m.round
      /\ w.processedBatchCh = m.processedBatchCh /\ w.submitted = m.submitted
      /\ w.commits = m.commits
  BY DEF Agree, Fields
<1> QED BY <1>1, Zenon DEF Sound, Channels, Unsubmitted, Recorded, Ranked

LEMMA ReceiveTxsSound ==
  ASSUME NEW m, Sound(m), NEW txs
  PROVE  Sound(ReceiveTxs(m, txs))
<1> DEFINE w == ReceiveTxs(m, txs)
           s == m.state
           t == [s EXCEPT !.txs = @ \ txs]
<1>1. CASE s.name # "WaitingForTxs"
  BY <1>1 DEF ReceiveTxs
<1>2. CASE s.name = "WaitingForTxs"
  <2>1. /\ StateOK(s) /\ DOMAIN m = Fields /\ s.rank \notin m.submitted
        /\ s.proposal \in Proposals /\ s = WaitingForTxs(s.proposal, s.txs, s.bytes)
    BY <1>2 DEF Sound, Unsubmitted, StateOK, WaitingForBatch, WaitingForEvent, ProcessingBatch
  <2>2. t = WaitingForTxs(s.proposal, s.txs \ txs, s.bytes)
    BY <2>1 DEF WaitingForTxs
  <2>3. w = [m EXCEPT !.state = t]
    BY <1>2, <2>1, Zenon DEF ReceiveTxs
  <2> HIDE DEF t
  <2>4. StateOK(t) /\ t.name = "WaitingForTxs" /\ t.rank = RankOf(s.proposal)
    BY <2>1, <2>2, NewStates
  <2>5. s.rank = RankOf(s.proposal)
    BY <2>1, <1>2, StateFacts
  <2>6. w.state = t /\ Agree(m, w, {"state"})
    BY <2>1, <2>3, Zenon DEF Agree, Fields
  <2> HIDE DEF w
  <2>7. /\ Agree(m, w, Work) /\ w.job = m.job /\ w.processedBatchCh = m.processedBatchCh
        /\ w.submitted = m.submitted
    BY <2>6 DEF Agree, Fields, Work
  <2>8. m.job = nil /\ m.processedBatchCh = <<>>
    BY <1>2, NothingRuns, Zenon
  <2>9. Channels(w) /\ Unsubmitted(w)
    BY <2>1, <2>4, <2>5, <2>6, <2>7, <2>8, Zenon DEF Channels, Unsubmitted
  <2>10. Sound(w)
    BY <2>4, <2>6, <2>7, <2>9, SoundKept, Zenon
  <2> QED BY <2>10, Zenon DEF w
<1> QED BY <1>1, <1>2

----------------------------------------------------------------------------
(* The queue of proposals.                                                  *)

\* A proposal is dropped from a full queue only when it replaced none.
LEMMA QueueKept ==
  ASSUME SetFacts, Queue, NEW p \in Proposals \ proposals.q, HandleMessage(p)
  PROVE  /\ Queue'
         /\ ~reselectCh' => ~reselectCh /\ proposals'.q = proposals.q
<1> DEFINE Q == proposals.q
           S == {q \in Q : q.round = p.round /\ RankOf(q) = RankOf(p)}
           E == Enqueued(p)
<1>1. /\ Q \subseteq Proposals /\ IsFiniteSet(Q) /\ Cardinality(Q) <= maxPendingProposals
      /\ DOMAIN proposals = {"q", "round"}
      /\ \A a, b \in Q : a.round = b.round /\ RankOf(a) = RankOf(b) => a = b
  BY Zenon DEF Queue
<1>2. E = (Q \ S) \union {p}
  BY DEF Enqueued
<1>3. E \subseteq Proposals /\ p \in E
  BY <1>1, <1>2, Zenon
<1>4. \A a, b \in E : a.round = b.round /\ RankOf(a) = RankOf(b) => a = b
  BY <1>1 DEF Enqueued
<1>p. p \notin Q
  OBVIOUS
<1>s. S \subseteq Q /\ (S = {} => \A q \in Q : ~(q.round = p.round /\ RankOf(q) = RankOf(p)))
  BY Zenon
<1> HIDE DEF E, S
<1>5. IsFiniteSet(Q \ S) /\ Cardinality(Q \ S) \in Nat /\ Cardinality(Q) \in Nat
      /\ Cardinality(Q \ S) <= Cardinality(Q)
  BY <1>1, DifferenceIsFinite, CardinalityIsNat, SubsetIsFinite
<1>6. IsFiniteSet(E) /\ Cardinality(E) = Cardinality(Q \ S) + 1
  BY <1>2, <1>5, <1>p, AddingOne, ZenonT(90)
<1>7. S # {} => Cardinality(Q \ S) < Cardinality(Q)
  <2> SUFFICES ASSUME S # {} PROVE Cardinality(Q \ S) < Cardinality(Q)
    OBVIOUS
  <2>1. (Q \ S) \subseteq Q /\ (Q \ S) # Q
    BY <1>s
  <2> QED BY <2>1, <1>1, <1>5, SubsetIsFinite
<1>8. CASE Cardinality(E) <= maxPendingProposals
  <2>1. proposals' = [proposals EXCEPT !.q = E] /\ reselectCh' = TRUE
    BY <1>8 DEF HandleMessage, E
  <2>2. proposals'.q = E /\ DOMAIN proposals' = {"q", "round"}
    BY <2>1, <1>1
  <2> QED BY <2>1, <2>2, <1>3, <1>4, <1>6, <1>8 DEF Queue
<1>9. CASE ~(Cardinality(E) <= maxPendingProposals)
  <2> DEFINE f == Furthest(E)
  <2>1. /\ proposals' = [proposals EXCEPT !.q = E \ {f}]
        /\ reselectCh' = (reselectCh \/ f # p)
    BY <1>9 DEF HandleMessage, E
  <2>2. f \in E
    BY <1>3, FurthestIsQueued
  <2> HIDE DEF f
  <2>3. proposals'.q = E \ {f} /\ DOMAIN proposals' = {"q", "round"}
    BY <2>1, <1>1
  <2>4. IsFiniteSet(E \ {f}) /\ Cardinality(E \ {f}) = Cardinality(E) - 1
    BY <2>2, <1>6, RemovingOne, Zenon
  <2>5. Cardinality(E \ {f}) <= maxPendingProposals
    BY <2>4, <1>1, <1>5, <1>6, NodeAssumption
  <2>6. Queue'
    BY <2>3, <2>4, <2>5, <1>3, <1>4, Zenon DEF Queue
  <2>7. S = {}
    BY <1>1, <1>5, <1>6, <1>7, <1>9, NodeAssumption
  <2>8. f = p => E \ {f} = Q
    BY <2>7, <1>2, <1>p, Zenon
  <2> QED BY <2>1, <2>3, <2>6, <2>8, ZenonT(30)
<1> QED BY <1>8, <1>9, Zenon

LEMMA PruneKept ==
  ASSUME SetFacts, Queue, NEW round \in FirstRound..LastRound, proposals' = prune(round)
  PROVE  /\ Queue'
         /\ \A lo, hi, exclude : MatchingIn(proposals'.q, round, lo, hi, exclude)
                                   = MatchingIn(proposals.q, round, lo, hi, exclude)
<1>1. proposals'.q = {p \in proposals.q : p.round >= round}
      /\ DOMAIN proposals' = {"q", "round"}
  BY DEF prune
<1>2. /\ proposals.q \subseteq Proposals /\ IsFiniteSet(proposals.q)
      /\ Cardinality(proposals.q) <= maxPendingProposals
      /\ \A p, q \in proposals.q : p.round = q.round /\ RankOf(p) = RankOf(q) => p = q
  BY DEF Queue
<1>3. proposals'.q \subseteq proposals.q
  BY <1>1, Zenon
<1>4. /\ IsFiniteSet(proposals'.q) /\ Cardinality(proposals'.q) <= Cardinality(proposals.q)
      /\ Cardinality(proposals'.q) \in Nat /\ Cardinality(proposals.q) \in Nat
  BY <1>2, <1>3, SubsetIsFinite, CardinalityIsNat, Zenon
<1>5. Cardinality(proposals'.q) <= maxPendingProposals
  BY <1>2, <1>4, NodeAssumption
<1>6. Queue'
  BY <1>1, <1>2, <1>3, <1>4, <1>5, ZenonT(40) DEF Queue
<1>7. ASSUME NEW lo, NEW hi, NEW exclude
      PROVE  MatchingIn(proposals'.q, round, lo, hi, exclude)
               = MatchingIn(proposals.q, round, lo, hi, exclude)
  BY <1>1, NodeAssumption DEF MatchingIn
<1> QED BY <1>6, <1>7

----------------------------------------------------------------------------
(* The invariant.                                                           *)

LEMMA TurnKeeps ==
  ASSUME SetFacts, Queue, NEW m, Sound(m), Turn(m), proposals' = proposals
  PROVE  Sound(n') /\ DiscrepancyFocus' /\ NoLostWakeup' /\ Queue'
<1>1. n' \in Loop(m)
  BY DEF Turn
<1>2. Sound(n') /\ Focused(n') /\ Awake(proposals.q, n')
  BY <1>1, LoopDecides, Zenon
<1>3. DiscrepancyFocus'
  BY <1>2 DEF Focused, DiscrepancyFocus
<1>4. NoLostWakeup'
  BY <1>2, WakeupIsAwake
<1>5. Queue'
  BY DEF Queue
<1> QED BY <1>2, <1>3, <1>4, <1>5

\* A step of a goroutine or another thread leaves the decisions alone.
LEMMA ElsewhereKeeps ==
  ASSUME EInv, Sound(n'), proposals' = proposals, reselectCh' = reselectCh,
         n'.working = n.working, n'.round = n.round, n'.schedulerRank = n.schedulerRank,
         n'.poolRank = n.poolRank, n'.discrepancy = n.discrepancy,
         n'.submitted = n.submitted, n'.state = n.state
  PROVE  DiscrepancyFocus' /\ NoLostWakeup' /\ Queue'
<1>1. DiscrepancyFocus'
  BY DEF EInv, DiscrepancyFocus
<1>2. Awake(proposals.q, n) => Awake(proposals.q, n')
  BY AwakeKept
<1>3. NoLostWakeup'
  BY <1>2, WakeupIsAwake, Zenon DEF EInv
<1>4. Queue'
  BY DEF EInv, Queue
<1> QED BY <1>1, <1>3, <1>4, Zenon

LEMMA EInvInit == ASSUME SetFacts PROVE Init => EInv
<1> SUFFICES ASSUME Init PROVE EInv
  BY Zenon
<1>1. /\ DOMAIN n = Fields /\ n.state = WaitingForBatch /\ n.job = nil
      /\ n.processedBatchCh = <<>> /\ n.schedulerRank = 0 /\ n.poolRank = MaxRank
      /\ n.discrepancy = nil /\ n.submitted = {} /\ n.commits = <<>> /\ n.round = 0
      /\ n.working = FALSE
  BY DEF Init, Fields
<1>2. StateOK(n.state) /\ n.state.name = "WaitingForBatch"
  BY <1>1, Waiting
<1>3. Sound(n)
  <2>1. Channels(n)
    BY <1>1, ZenonT(40) DEF Channels
  <2>2. Unsubmitted(n)
    BY <1>2, ZenonT(40) DEF Unsubmitted
  <2>3. Recorded(n)
    <3>1. n.commits \in Seq(Commitment) /\ 1..Len(n.commits) = {}
      BY <1>1
    <3>. QED
      BY <3>1, ZenonT(40) DEF Recorded
  <2>4. Ranked(n)
    BY <1>1, NodeAssumption DEF Ranked
  <2>. QED
    BY <1>1, <1>2, <2>1, <2>2, <2>3, <2>4, ZenonT(40) DEF Sound
<1>4. proposals.q = {} /\ DOMAIN proposals = {"q", "round"} /\ blockInfoCh = nil
  BY Zenon DEF Init
<1>5. Queue
  BY <1>4, EmptySetIsFinite, NodeAssumption DEF Queue
<1>6. DiscrepancyFocus /\ NoLostWakeup
  BY <1>1, WakeupIsAwake DEF DiscrepancyFocus
<1> QED BY <1>3, <1>4, <1>5, <1>6 DEF EInv

LEMMA EInvStep == ASSUME SetFacts PROVE EInv /\ [Next]_vars => EInv'
<1> SUFFICES ASSUME EInv, [Next]_vars PROVE EInv'
  OBVIOUS
<1>1. /\ Sound(n) /\ Queue /\ DOMAIN n = Fields
      /\ blockInfoCh \in {nil} \union FirstRound..LastRound
  BY DEF EInv, Sound
<1>2. /\ n.schedulerRank \in Nat /\ n.poolRank \in Nat
      /\ n.round \in {0} \union FirstRound..LastRound
      /\ n.discrepancy # nil => n.discrepancy.rank \in Ranks
  BY <1>1 DEF Sound, Ranked
<1>3. ASSUME NEW m, Sound(m), Turn(m), proposals' = proposals, blockInfoCh' = blockInfoCh
      PROVE  EInv'
  <2>1. Sound(n') /\ DiscrepancyFocus' /\ NoLostWakeup' /\ Queue'
    BY <1>1, <1>3, TurnKeeps
  <2> QED BY <1>1, <1>3, <2>1 DEF EInv
<1>4. ASSUME Agree(n, n', {"job", "processedBatchCh", "fetch", "missingTxCh", "faults"}),
             Sound(n'), proposals' = proposals, reselectCh' = reselectCh,
             blockInfoCh' \in {nil} \union FirstRound..LastRound
      PROVE  EInv'
  <2>1. /\ n'.working = n.working /\ n'.round = n.round /\ n'.schedulerRank = n.schedulerRank
        /\ n'.poolRank = n.poolRank /\ n'.discrepancy = n.discrepancy
        /\ n'.submitted = n.submitted /\ n'.state = n.state
    BY <1>4, Zenon DEF Agree, Fields
  <2>2. DiscrepancyFocus' /\ NoLostWakeup' /\ Queue'
    BY <1>4, <2>1, ElsewhereKeeps
  <2> QED BY <1>4, <2>2 DEF EInv
<1>5. ASSUME n' = n, proposals' = proposals, reselectCh' = reselectCh,
             blockInfoCh' \in {nil} \union FirstRound..LastRound
      PROVE  EInv'
  BY <1>1, <1>4, <1>5, AgreeRefl
<1>6. CASE StartRound
  <2> DEFINE round == blockInfoCh
             m == FreshRound(n, round)
  <2>1. round \in FirstRound..LastRound /\ blockInfoCh' = nil /\ proposals' = prune(round)
    BY <1>1, <1>6 DEF StartRound
  <2>2. Sound(m) /\ m.round = round /\ m.discrepancy = nil
    BY <1>1, <2>1, FreshRoundSound, Zenon
  <2>3. /\ Queue'
        /\ \A lo, hi, exclude : MatchingIn(proposals'.q, round, lo, hi, exclude)
                                  = MatchingIn(proposals.q, round, lo, hi, exclude)
    BY <1>1, <2>1, PruneKept, Zenon
  <2>4. CASE n' \in Loop(m)
    <3> HIDE DEF m
    <3>1. Sound(n') /\ Focused(n') /\ Awake(proposals.q, n') /\ Agree(m, n', Work)
      BY <1>1, <2>2, <2>4, LoopDecides
    <3>2. n'.round = round /\ n'.discrepancy = nil
      BY <2>2, <3>1, AgreeFields, Zenon
    <3>3. Better(proposals'.q, n') = Better(proposals.q, n')
      BY <2>3, <3>2 DEF Better
    <3>4. Awake(proposals'.q, n')
      BY <3>1, <3>2, <3>3, ZenonT(40) DEF Awake
    <3>5. DiscrepancyFocus' /\ NoLostWakeup'
      BY <3>1, <3>4, WakeupIsAwake, Zenon DEF Focused, DiscrepancyFocus
    <3> QED BY <2>1, <2>3, <3>1, <3>5 DEF EInv
  <2>5. CASE n' = [m EXCEPT !.working = FALSE]
    <3>1. DOMAIN m = Fields
      BY <2>2 DEF Sound
    <3> HIDE DEF m
    <3>2. /\ DOMAIN n' = Fields /\ n'.working = FALSE /\ n'.discrepancy = m.discrepancy
          /\ n'.state = m.state /\ n'.job = m.job /\ n'.processedBatchCh = m.processedBatchCh
          /\ n'.submitted = m.submitted /\ n'.commits = m.commits /\ n'.round = m.round
          /\ n'.schedulerRank = m.schedulerRank /\ n'.poolRank = m.poolRank
      BY <2>5, <3>1, Zenon DEF Fields
    <3>3. Sound(n')
      BY <2>2, <3>2, Zenon DEF Sound, Channels, Unsubmitted, Recorded, Ranked
    <3>4. DiscrepancyFocus' /\ NoLostWakeup'
      BY <2>2, <3>2, WakeupIsAwake DEF DiscrepancyFocus
    <3> QED BY <2>1, <2>3, <3>3, <3>4 DEF EInv
  <2> QED BY <1>6, <2>4, <2>5 DEF StartRound
<1>7. CASE HandleEvent
  <2>1. PICK r \in Ranks : Turn(handleDiscrepancy(n, [rank |-> r, authoritative |-> TRUE]))
    BY <1>7, ZenonT(30) DEF HandleEvent
  <2> DEFINE ev == [rank |-> r, authoritative |-> TRUE]
             m == handleDiscrepancy(n, ev)
  <2>2. m = [n EXCEPT !.discrepancy = ev]
    BY <1>7 DEF HandleEvent, handleDiscrepancy
  <2>e. ev.rank \in Ranks
    OBVIOUS
  <2> HIDE DEF ev, m
  <2>3. /\ Agree(n, m, {"schedulerRank", "poolRank", "flush", "discrepancy", "predicted",
                        "missingTxCh", "fetch"})
        /\ m.schedulerRank = n.schedulerRank /\ m.poolRank = n.poolRank /\ m.discrepancy = ev
    BY <2>2, <1>1 DEF Agree, Fields
  <2>4. Sound(m)
    BY <1>1, <1>2, <2>3, <2>e, BoundsSound, Zenon
  <2> QED BY <1>3, <1>7, <2>1, <2>4 DEF HandleEvent, ev, m
<1>8. CASE HandleExecutorCommitment
  <2>1. PICK r \in Ranks : r < n.poolRank /\ Turn(estimatePoolRank(n, r))
    BY <1>8 DEF HandleExecutorCommitment
  <2> DEFINE m == estimatePoolRank(n, r)
  <2>2. m = [n EXCEPT !.poolRank = Min({@, r})]
    BY DEF estimatePoolRank
  <2> HIDE DEF m
  <2>3. /\ Agree(n, m, {"schedulerRank", "poolRank", "flush", "discrepancy", "predicted",
                        "missingTxCh", "fetch"})
        /\ m.schedulerRank = n.schedulerRank /\ m.poolRank = Min({n.poolRank, r})
        /\ m.discrepancy = n.discrepancy
    BY <2>2, <1>1 DEF Agree, Fields
  <2>4. Min({n.poolRank, r}) \in Nat
    BY <1>2, RankType DEF Min
  <2>5. Sound(m)
    BY <1>1, <1>2, <2>3, <2>4, BoundsSound
  <2> QED BY <1>3, <1>8, <2>1, <2>5 DEF HandleExecutorCommitment, m
<1>9. CASE PredictDiscrepancy
  <2> DEFINE o == [n EXCEPT !.predicted = TRUE]
  <2>1. PICK r \in Ranks : Turn(handleDiscrepancy(o, [rank |-> r, authoritative |-> FALSE]))
    BY <1>9, ZenonT(30) DEF PredictDiscrepancy
  <2> DEFINE ev == [rank |-> r, authoritative |-> FALSE]
             m == handleDiscrepancy(o, ev)
  <2>2. m = o \/ m = [o EXCEPT !.discrepancy = ev]
    BY DEF handleDiscrepancy
  <2>e. ev.rank \in Ranks
    OBVIOUS
  <2>o. /\ Agree(n, o, {"predicted"}) /\ o.schedulerRank = n.schedulerRank
        /\ o.poolRank = n.poolRank /\ o.discrepancy = n.discrepancy
    BY <1>1 DEF Agree, Fields
  <2> HIDE DEF ev, m, o
  <2>3. /\ Agree(n, m, {"schedulerRank", "poolRank", "flush", "discrepancy", "predicted",
                        "missingTxCh", "fetch"})
        /\ m.schedulerRank = n.schedulerRank /\ m.poolRank = n.poolRank
        /\ m.discrepancy = ev \/ m.discrepancy = n.discrepancy
    BY <2>2, <2>o, <1>1 DEF Agree, Fields
  <2>4. Sound(m)
    BY <1>1, <1>2, <2>3, <2>e, BoundsSound
  <2> QED BY <1>3, <1>9, <2>1, <2>4 DEF PredictDiscrepancy, ev, m, o
<1>10. CASE HandleNewCheckedTransactions
  <2>1. CASE n.working
    <3>1. Turn(ReceiveTxs(n, txCh))
      BY <1>10, <2>1 DEF HandleNewCheckedTransactions
    <3> QED BY <1>1, <1>3, <1>10, <3>1, ReceiveTxsSound DEF HandleNewCheckedTransactions
  <2>2. CASE ~n.working
    BY <1>1, <1>5, <1>10, <2>2 DEF HandleNewCheckedTransactions
  <2> QED BY <2>1, <2>2
<1>11. CASE HandleMissingTransactions
  <2> DEFINE o == [n EXCEPT !.missingTxCh = <<>>]
  <2>1. Turn(ReceiveTxs(o, Head(n.missingTxCh)))
    BY <1>11 DEF HandleMissingTransactions
  <2>2. /\ Agree(n, o, {"schedulerRank", "poolRank", "flush", "discrepancy", "predicted",
                        "missingTxCh", "fetch"})
        /\ o.schedulerRank = n.schedulerRank /\ o.poolRank = n.poolRank
        /\ o.discrepancy = n.discrepancy
    BY <1>1 DEF Agree, Fields
  <2> HIDE DEF o
  <2>3. Sound(o)
    BY <1>1, <1>2, <2>2, BoundsSound
  <2> QED BY <1>3, <1>11, <2>1, <2>3, ReceiveTxsSound DEF HandleMissingTransactions
<1>12. CASE HandleProcessedBatch
  <2> DEFINE o == [n EXCEPT !.processedBatchCh = Tail(@)]
             b == Head(n.processedBatchCh)
  <2>1. PICK m \in handleProcessedBatch(o, b) : Turn(m)
    BY <1>12 DEF HandleProcessedBatch
  <2>2. Agree(n, o, {"processedBatchCh"}) /\ o.processedBatchCh = Tail(n.processedBatchCh)
    BY <1>1 DEF Agree, Fields
  <2> HIDE DEF o
  <2>3. n.processedBatchCh # <<>>
    BY <1>12 DEF HandleProcessedBatch
  <2>4. /\ Sound(o) /\ o.job = nil /\ o.processedBatchCh = <<>>
        /\ o.state.name = "ProcessingBatch" /\ o.state = n.state
    BY <1>1, <2>2, <2>3, TakenSound, ZenonT(90)
  <2>5. b # nil => b.rank = o.state.rank
    BY <1>1, <2>3, <2>4, ZenonT(40) DEF Sound, Channels
  <2> HIDE DEF b
  <2>6. Sound(m)
    BY <2>1, <2>4, <2>5, HandleProcessedBatchSound
  <2> QED BY <1>3, <1>12, <2>1, <2>6 DEF HandleProcessedBatch
<1>13. CASE SchedulerRankTick
  <2> DEFINE m == [n EXCEPT !.schedulerRank = @ + 1]
  <2>1. Turn(m)
    BY <1>13 DEF SchedulerRankTick
  <2>2. /\ Agree(n, m, {"schedulerRank", "poolRank", "flush", "discrepancy", "predicted",
                        "missingTxCh", "fetch"})
        /\ m.schedulerRank = n.schedulerRank + 1 /\ m.poolRank = n.poolRank
        /\ m.discrepancy = n.discrepancy
    BY <1>1 DEF Agree, Fields
  <2> HIDE DEF m
  <2>3. Sound(m)
    BY <1>1, <1>2, <2>2, BoundsSound
  <2> QED BY <1>3, <1>13, <2>1, <2>3 DEF SchedulerRankTick
<1>14. CASE FlushTimer
  <2> DEFINE m == [n EXCEPT !.flush = TRUE]
  <2>1. Turn(m)
    BY <1>14 DEF FlushTimer
  <2>2. /\ Agree(n, m, {"schedulerRank", "poolRank", "flush", "discrepancy", "predicted",
                        "missingTxCh", "fetch"})
        /\ m.schedulerRank = n.schedulerRank /\ m.poolRank = n.poolRank
        /\ m.discrepancy = n.discrepancy
    BY <1>1, Zenon DEF Agree, Fields
  <2> HIDE DEF m
  <2>3. Sound(m)
    BY <1>1, <1>2, <2>2, BoundsSound
  <2> QED BY <1>3, <1>14, <2>1, <2>3 DEF FlushTimer
<1>15. CASE Reselect
  <2>1. CASE n.working
    <3>1. Turn(n)
      BY <1>15, <2>1 DEF Reselect
    <3> QED BY <1>1, <1>3, <1>15, <3>1 DEF Reselect
  <2>2. CASE ~n.working
    <3>1. n' = n /\ proposals' = proposals /\ blockInfoCh' = blockInfoCh
      BY <1>15, <2>2, Zenon DEF Reselect
    <3>2. Sound(n') /\ Queue' /\ DiscrepancyFocus'
      BY <1>1, <3>1 DEF EInv, Queue, DiscrepancyFocus
    <3>3. NoLostWakeup'
      BY <2>2, <3>1, WakeupIsAwake, ZenonT(40)
    <3> QED BY <1>1, <3>1, <3>2, <3>3 DEF EInv
  <2> QED BY <2>1, <2>2
<1>16. CASE JobDone
  <2>1. n.job # nil /\ n.processedBatchCh = <<>> /\ n.state.name = "ProcessingBatch"
        /\ n.job.rank = n.state.rank
    BY <1>1, <1>16, ZenonT(30) DEF JobDone, Sound, Channels
  <2>2. PICK f, b : /\ f = n \/ f \in Faulted(n)
                    /\ b = nil \/ b.rank = n.state.rank
                    /\ n' = [f EXCEPT !.job = nil, !.processedBatchCh = Append(@, b)]
    <3>1. CASE n' = [n EXCEPT !.job = nil, !.processedBatchCh =
                       Append(@, [rank |-> n.job.rank, computed |-> TRUE])]
      <4> DEFINE b == [rank |-> n.job.rank, computed |-> TRUE]
      <4>1. b.rank = n.state.rank
        BY <2>1
      <4>2. n' = [n EXCEPT !.job = nil, !.processedBatchCh = Append(@, b)]
        BY <3>1, ZenonT(40)
      <4> HIDE DEF b
      <4> QED BY <4>1, <4>2, ZenonT(30)
    <3>2. CASE \E f \in Faulted(n) :
                 n' = [f EXCEPT !.job = nil, !.processedBatchCh = Append(@, nil)]
      BY <3>2, ZenonT(30)
    <3> QED BY <1>16, <3>1, <3>2, ZenonT(30) DEF JobDone
  <2>3. Agree(n, f, {"faults"}) /\ Sound(f)
    BY <1>1, <2>2, FaultKeeps, AgreeRefl
  <2>4. /\ Agree(f, n', {"job", "processedBatchCh"}) /\ n'.job = nil
        /\ n'.processedBatchCh = Append(f.processedBatchCh, b)
    BY <2>2, <2>3, ZenonT(30) DEF Agree, Fields
  <2>5. f.processedBatchCh = <<>> /\ f.state = n.state /\ f.submitted = n.submitted
    BY <2>1, <2>3, Zenon DEF Agree, Fields
  <2>6. n'.processedBatchCh = <<b>> /\ Head(n'.processedBatchCh) = b
    BY <2>4, <2>5
  <2>7. /\ Agree(n, n', Work)
        /\ Agree(n, n', {"job", "processedBatchCh", "fetch", "missingTxCh", "faults"})
        /\ n'.state = n.state /\ n'.submitted = n.submitted
    BY <2>3, <2>4, <2>5, Zenon DEF Agree, Fields, Work
  <2>8. StateOK(n'.state) /\ Unsubmitted(n')
    BY <1>1, <2>7 DEF Sound, Unsubmitted
  <2>9. Channels(n')
    BY <2>1, <2>2, <2>4, <2>6, <2>7, Zenon DEF Channels
  <2>10. Sound(n')
    BY <1>1, <2>7, <2>8, <2>9, SoundKept
  <2> QED BY <1>1, <1>4, <1>16, <2>7, <2>10, ZenonT(30) DEF JobDone
<1>17. CASE FetchTxs
  <2>1. PICK f : n' = [n EXCEPT !.fetch = f]
    BY <1>17, <1>1, ZenonT(30) DEF FetchTxs
  <2>2. /\ Agree(n, n', {"fetch"}) /\ n'.schedulerRank = n.schedulerRank
        /\ n'.poolRank = n.poolRank /\ n'.discrepancy = n.discrepancy
    BY <2>1, <1>1, Zenon DEF Agree, Fields
  <2>3. Sound(n')
    <3>1. Agree(n, n', {"schedulerRank", "poolRank", "flush", "discrepancy", "predicted",
                        "missingTxCh", "fetch"})
      BY <2>2, Zenon DEF Agree
    <3> QED BY <1>1, <1>2, <2>2, <3>1, BoundsSound, Zenon
  <2>4. Agree(n, n', {"job", "processedBatchCh", "fetch", "missingTxCh", "faults"})
    BY <2>2 DEF Agree
  <2> QED BY <1>1, <1>4, <1>17, <2>3, <2>4 DEF FetchTxs
<1>18. CASE FetchDone
  <2>1. n' = [n EXCEPT !.fetch = nil, !.missingTxCh = <<n.fetch.txs>>]
    BY <1>18 DEF FetchDone
  <2>2. /\ Agree(n, n', {"fetch", "missingTxCh"}) /\ n'.schedulerRank = n.schedulerRank
        /\ n'.poolRank = n.poolRank /\ n'.discrepancy = n.discrepancy
    BY <2>1, <1>1, ZenonT(30) DEF Agree, Fields
  <2>3. Sound(n')
    <3>1. Agree(n, n', {"schedulerRank", "poolRank", "flush", "discrepancy", "predicted",
                        "missingTxCh", "fetch"})
      BY <2>2, Zenon DEF Agree
    <3> QED BY <1>1, <1>2, <2>2, <3>1, BoundsSound, Zenon
  <2>4. Agree(n, n', {"job", "processedBatchCh", "fetch", "missingTxCh", "faults"})
    BY <2>2, Zenon DEF Agree
  <2> QED BY <1>1, <1>4, <1>18, <2>3, <2>4 DEF FetchDone
<1>19. CASE ReceiveProposal
  <2>1. PICK p \in Proposals \ proposals.q : HandleMessage(p)
    BY <1>19 DEF ReceiveProposal
  <2>2. Queue' /\ (~reselectCh' => ~reselectCh /\ proposals'.q = proposals.q)
    BY <1>1, <2>1, QueueKept, Zenon
  <2>3. n' = n /\ blockInfoCh' = blockInfoCh
    BY <1>19 DEF ReceiveProposal
  <2>4. Sound(n') /\ DiscrepancyFocus'
    BY <1>1, <2>3, Zenon DEF EInv, DiscrepancyFocus
  <2>5. NoLostWakeup'
    BY <2>2, <2>3, WakeupIsAwake, Zenon DEF EInv
  <2> QED BY <1>1, <2>2, <2>3, <2>4, <2>5, Zenon DEF EInv
<1>20. CASE HandleNewBlock
  <2>1. blockInfoCh' \in FirstRound..LastRound
    BY <1>1, <1>2, <1>20, NodeAssumption, SMTT(40) DEF HandleNewBlock
  <2> QED BY <1>5, <1>20, <2>1, Zenon DEF HandleNewBlock
<1>21. CASE TxChecked
  BY <1>1, <1>5, <1>21 DEF TxChecked
<1>22. CASE UNCHANGED vars
  BY <1>1, <1>5, <1>22 DEF vars
<1> QED
  BY <1>6, <1>7, <1>8, <1>9, <1>10, <1>11, <1>12, <1>13, <1>14, <1>15, <1>16, <1>17,
     <1>18, <1>19, <1>20, <1>21, <1>22, Zenon DEF Next

LEMMA CommitmentsAreUniqueIf == ASSUME SetFacts PROVE
  Spec => [](OneCommitmentPerRank /\ ResultsBelong /\ NoInvalidTransition)
<1>1. EInv => OneCommitmentPerRank
  BY Zenon DEF EInv, Sound, Recorded, OneCommitmentPerRank
<1>2. EInv => ResultsBelong
  BY DEF EInv, Sound, Channels, ResultsBelong
<1>3. EInv => NoInvalidTransition
  <2>1. EInv => n.state.name # "panic"
    BY StateFacts DEF EInv, Sound
  <2> QED BY <2>1 DEF NoInvalidTransition, Panicked
<1> QED BY <1>1, <1>2, <1>3, EInvInit, EInvStep, PTL DEF Spec

LEMMA DiscrepancyIsFollowedIf == ASSUME SetFacts PROVE Spec => []DiscrepancyFocus
<1>1. EInv => DiscrepancyFocus
  BY DEF EInv
<1> QED BY <1>1, EInvInit, EInvStep, PTL DEF Spec

LEMMA WakeupsAreKeptIf == ASSUME SetFacts PROVE Spec => []NoLostWakeup
<1>1. EInv => NoLostWakeup
  BY DEF EInv
<1> QED BY <1>1, EInvInit, EInvStep, PTL DEF Spec

-----------------------------------------------------------------------------
(* The facts hold, and with them the theorems of the parts above.               *)
INSTANCE FiniteSetTheorems

LEMMA SetFactsHold == SetFacts
<1>1. CardinalityFact
  BY FS_CardinalityType, ZenonT(40) DEF CardinalityFact
<1>2. EmptySetFact
  BY FS_EmptySet, ZenonT(40) DEF EmptySetFact
<1>3. SubsetFact
  BY FS_Subset, ZenonT(40) DEF SubsetFact
<1>4. AddFact
  BY FS_AddElement, ZenonT(40) DEF AddFact
<1>5. RemoveFact
  BY FS_RemoveElement, ZenonT(40) DEF RemoveFact
<1>6. DifferenceFact
  BY FS_Difference, ZenonT(40) DEF DifferenceFact
<1>7. LeastFact
  <2> SUFFICES ASSUME NEW T \in SUBSET Nat, T # {} PROVE \E x \in T : \A y \in T : x <= y
    BY DEF LeastFact
  <2> DEFINE R == OpToRel(<, Nat)
  <2>1. IsWellFoundedOn(R, Nat)
    BY NatLessThanWellFounded, ZenonT(40)
  <2>2. \A x, y \in Nat : x < y => <<x, y>> \in R
    BY DEF OpToRel
  <2> HIDE DEF R
  <2>3. PICK x \in T : \A y \in T : ~(<<y, x>> \in R)
    BY <2>1, WFMin, ZenonT(40)
  <2>4. \A y \in T : ~(y < x)
    BY <2>2, <2>3, ZenonT(40)
  <2>5. \A y \in T : x <= y
    BY <2>4
  <2> QED BY <2>5
<1> QED BY <1>1, <1>2, <1>3, <1>4, <1>5, <1>6, <1>7, Zenon DEF SetFacts

\* In one round an executor node submits at most one commitment for a
\* scheduler, however batches are aborted, retried, fail or are replaced
\* (node.go, n.submitted); every result that waits belongs to the batch that
\* is being processed, and no state transition is invalid.
THEOREM CommitmentsAreUnique ==
  Spec => [](OneCommitmentPerRank /\ ResultsBelong /\ NoInvalidTransition)
BY SetFactsHold, CommitmentsAreUniqueIf

\* Once a discrepancy is known, from the consensus layer or predicted, the
\* node works on the discrepant rank only (node.go, handleDiscrepancy and the
\* top of roundWorker's loop).
THEOREM DiscrepancyIsFollowed == Spec => []DiscrepancyFocus
BY SetFactsHold, DiscrepancyIsFollowedIf

\* A proposal that reaches the queue is never overlooked: the node is about to
\* reselect, works on something at least as good, or cannot use the proposal
\* (proposals.go, Add, and the reselect channel of node.go).
THEOREM WakeupsAreKept == Spec => []NoLostWakeup
BY SetFactsHold, WakeupsAreKeptIf
=============================================================================
