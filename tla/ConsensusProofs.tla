--------------------------- MODULE ConsensusProofs ---------------------------
(***************************************************************************)
(* What the consensus layer's rules promise.  Committee and CommitmentPool, *)
(* for every committee, number of stragglers and set of faulty nodes: the   *)
(* scheduling order is a bijection between workers and ranks, and a pool    *)
(* finalizes only valid results.  The staking ledger, for any delegators,   *)
(* funds and epochs: it adds up, and only slashing lowers what a share of   *)
(* an escrow account is worth.  What is withdrawn from a vault, for any     *)
(* actions, amounts and heights: it respects the limit of its interval of   *)
(* blocks.                                                                  *)
(***************************************************************************)
EXTENDS CommitmentPool, FiniteSets, TLAPS

(* What is used of finite sets and natural numbers.  It follows from           *)
(* FiniteSetTheorems, which slow the provers down wherever they are in scope:  *)
(* the lemmas take these facts as a hypothesis, and the module ends with the   *)
(* proof that they hold.                                                       *)
Onto(f, S, T) == f \in [S -> T] /\ \A t \in T : \E s \in S : f[s] = t
CardinalityFact == \A S : IsFiniteSet(S) => Cardinality(S) \in Nat
EmptySetFact ==
    /\ IsFiniteSet({}) /\ Cardinality({}) = 0
    /\ \A S : IsFiniteSet(S) => (Cardinality(S) = 0 <=> S = {})
SingletonFact == \A x : IsFiniteSet({x}) /\ Cardinality({x}) = 1
IntervalFact ==
    \A a, b \in Int : IsFiniteSet(a .. b) /\ Cardinality(a .. b) = IF a > b THEN 0 ELSE b - a + 1
SubsetFact ==
    \A S : IsFiniteSet(S) => \A T \in SUBSET S :
        IsFiniteSet(T) /\ Cardinality(T) <= Cardinality(S) /\ (Cardinality(S) = Cardinality(T) => S = T)
UnionFact ==
    \A S, T : IsFiniteSet(S) /\ IsFiniteSet(T) =>
        /\ IsFiniteSet(S \cup T)
        /\ Cardinality(S \cup T) = Cardinality(S) + Cardinality(T) - Cardinality(S \cap T)
DifferenceFact ==
    \A S, T : IsFiniteSet(S) =>
        IsFiniteSet(S \ T) /\ Cardinality(S \ T) = Cardinality(S) - Cardinality(S \cap T)
ProductFact ==
    \A S, T : IsFiniteSet(S) /\ IsFiniteSet(T) =>
        IsFiniteSet(S \X T) /\ Cardinality(S \X T) = Cardinality(S) * Cardinality(T)
UnionsFact == \A S : IsFiniteSet(S) /\ (\A T \in S : IsFiniteSet(T)) => IsFiniteSet(UNION S)
ImageFact ==
    \A S, T, f : IsFiniteSet(S) /\ Onto(f, S, T) => IsFiniteSet(T) /\ Cardinality(T) <= Cardinality(S)
SetFacts ==
    /\ CardinalityFact /\ EmptySetFact /\ SingletonFact /\ IntervalFact /\ SubsetFact
    /\ UnionFact /\ DifferenceFact /\ ProductFact /\ UnionsFact /\ ImageFact

LEMMA CardinalityIsNat == ASSUME SetFacts, NEW S, IsFiniteSet(S) PROVE Cardinality(S) \in Nat
BY DEF SetFacts, CardinalityFact
LEMMA EmptySetIsFinite ==
  ASSUME SetFacts
  PROVE  /\ IsFiniteSet({}) /\ Cardinality({}) = 0
         /\ \A S : IsFiniteSet(S) => (Cardinality(S) = 0 <=> S = {})
BY DEF SetFacts, EmptySetFact
LEMMA SingletonIsFinite == ASSUME SetFacts PROVE \A x : IsFiniteSet({x}) /\ Cardinality({x}) = 1
BY Zenon DEF SetFacts, SingletonFact
LEMMA IntervalIsFinite ==
  ASSUME SetFacts, NEW a \in Int, NEW b \in Int
  PROVE  IsFiniteSet(a .. b) /\ Cardinality(a .. b) = IF a > b THEN 0 ELSE b - a + 1
BY DEF SetFacts, IntervalFact
LEMMA SubsetIsFinite ==
  ASSUME SetFacts, NEW S, IsFiniteSet(S), NEW T \in SUBSET S
  PROVE  IsFiniteSet(T) /\ Cardinality(T) <= Cardinality(S) /\ (Cardinality(S) = Cardinality(T) => S = T)
BY DEF SetFacts, SubsetFact
LEMMA UnionIsFinite ==
  ASSUME SetFacts, NEW S, IsFiniteSet(S), NEW T, IsFiniteSet(T)
  PROVE  /\ IsFiniteSet(S \cup T)
         /\ Cardinality(S \cup T) = Cardinality(S) + Cardinality(T) - Cardinality(S \cap T)
BY DEF SetFacts, UnionFact
LEMMA DifferenceIsFinite ==
  ASSUME SetFacts, NEW S, NEW T, IsFiniteSet(S)
  PROVE  IsFiniteSet(S \ T) /\ Cardinality(S \ T) = Cardinality(S) - Cardinality(S \cap T)
BY Zenon DEF SetFacts, DifferenceFact
LEMMA ProductIsFinite ==
  ASSUME SetFacts, NEW S, IsFiniteSet(S), NEW T, IsFiniteSet(T)
  PROVE  IsFiniteSet(S \X T) /\ Cardinality(S \X T) = Cardinality(S) * Cardinality(T)
BY DEF SetFacts, ProductFact
LEMMA UnionsAreFinite ==
  ASSUME SetFacts, NEW S, IsFiniteSet(S), \A T \in S : IsFiniteSet(T)
  PROVE  IsFiniteSet(UNION S)
BY DEF SetFacts, UnionsFact
LEMMA ImageIsFinite ==
  ASSUME SetFacts, NEW S, NEW T, NEW f, IsFiniteSet(S), Onto(f, S, T)
  PROVE  IsFiniteSet(T) /\ Cardinality(T) <= Cardinality(S)
BY DEF SetFacts, ImageFact


\* Division with remainder.
LEMMA DivMod ==
  ASSUME NEW a \in Nat, NEW n \in Nat, n > 0
  PROVE  /\ a \div n \in Nat
         /\ a % n \in 0..(n - 1)
         /\ a = n * (a \div n) + (a % n)
  OBVIOUS

\* Different multiples of n are at least n apart.
LEMMA MultipleGap ==
  ASSUME NEW n \in Nat, n > 0, NEW p \in Int, NEW q \in Int, p > q
  PROVE  n * p >= n * q + n
<1>1. p - q >= 1
  OBVIOUS
<1>2. n * (p - q) >= n * 1
  BY <1>1
<1>3. n * (p - q) = n * p - n * q
  OBVIOUS
<1> QED BY <1>2, <1>3

\* The remainder is unique.
LEMMA ModUnique ==
  ASSUME NEW n \in Nat, n > 0, NEW p \in Int, NEW q \in Int,
         NEW r \in 0..(n - 1), NEW s \in 0..(n - 1),
         n * p + r = n * q + s
  PROVE  r = s
<1>1. CASE p = q
  BY <1>1
<1>2. CASE p > q
  BY <1>2, MultipleGap
<1>3. CASE q > p
  BY <1>3, MultipleGap
<1> QED BY <1>1, <1>2, <1>3

\* A worker's index is a position at which the list of workers has it.
LEMMA WorkerIdxFacts ==
  ASSUME NEW w \in Workers
  PROVE  /\ WorkerIdx(w) \in Ranks
         /\ WorkerList[WorkerIdx(w) + 1] = w
<1>1. \E i \in 1..Len(WorkerList) : WorkerList[i] = w
  BY DEF Workers
<1>2. PICK i \in 1..Len(WorkerList) :
         i = CHOOSE j \in 1..Len(WorkerList) : WorkerList[j] = w
  BY <1>1
<1>3. WorkerList[i] = w
  BY <1>1, <1>2
<1>4. WorkerIdx(w) = i - 1
  BY <1>2 DEF WorkerIdx
<1> QED BY <1>2, <1>3, <1>4, CommitteeAssumption DEF Ranks

\* Every worker has a rank in every round (committee.go, SchedulerRank).
LEMMA SchedulerRankType ==
  ASSUME NEW w \in Workers, NEW round \in Nat
  PROVE  SchedulerRank(round, w) \in Ranks
<1> DEFINE n == Len(WorkerList)
<1>1. n \in Nat /\ n > 0
  BY CommitteeAssumption
<1>2. round + WorkerIdx(w) \in Nat
  BY WorkerIdxFacts, <1>1 DEF Ranks
<1> QED BY <1>1, <1>2, DivMod DEF SchedulerRank, Ranks

\* Two workers never share a rank: SchedulerRank gives every worker of the
\* committee its own place in the scheduling order of a round.
THEOREM RankInjective ==
  ASSUME NEW v \in Workers, NEW w \in Workers, NEW round \in Nat,
         SchedulerRank(round, v) = SchedulerRank(round, w)
  PROVE  v = w
<1> DEFINE n == Len(WorkerList)
           i == WorkerIdx(v)
           j == WorkerIdx(w)
<1>1. n \in Nat /\ n > 0
  BY CommitteeAssumption
<1>2. i \in 0..(n - 1) /\ j \in 0..(n - 1)
  BY WorkerIdxFacts DEF Ranks
<1>3. (round + i) % n = (round + j) % n
  BY DEF SchedulerRank
<1> HIDE DEF n, i, j
<1>4. round + i = n * ((round + i) \div n) + ((round + i) % n)
  BY <1>1, <1>2, DivMod
<1>5. round + j = n * ((round + j) \div n) + ((round + j) % n)
  BY <1>1, <1>2, DivMod
<1>6. /\ (round + i) \div n \in Int
      /\ (round + j) \div n \in Int
      /\ (round + i) % n \in 0..(n - 1)
  BY <1>1, <1>2, DivMod
<1>7. PICK p \in Int, q \in Int, r \in 0..(n - 1) :
         round + i = n * p + r /\ round + j = n * q + r
  BY <1>3, <1>4, <1>5, <1>6
<1>8. n * p + j = n * q + i
  BY <1>1, <1>2, <1>7
<1>9. i = j
  BY <1>1, <1>2, <1>8, ModUnique
<1> QED BY <1>9, WorkerIdxFacts DEF i, j

\* Scheduler(round, rank) is the worker that SchedulerRank maps to that rank,
\* so the two functions agree on who schedules when.
THEOREM SchedulerHasRank ==
  ASSUME NEW round \in Nat, NEW rank \in Ranks
  PROVE  /\ Scheduler(round, rank) \in Workers
         /\ SchedulerRank(round, Scheduler(round, rank)) = rank
<1> DEFINE n == Len(WorkerList)
           m == round % n
           i == SchedulerIdx(round, rank)
           w == Scheduler(round, rank)
<1>1. n \in Nat /\ n > 0 /\ rank \in 0..(n - 1)
  BY CommitteeAssumption DEF Ranks
<1>2. m \in 0..(n - 1) /\ round = n * (round \div n) + m /\ round \div n \in Nat
  BY <1>1, DivMod
<1>3. rank + n - m \in Nat
  BY <1>1, <1>2
<1>4. i \in 0..(n - 1) /\ rank + n - m = n * ((rank + n - m) \div n) + i
      /\ (rank + n - m) \div n \in Nat
  BY <1>1, <1>3, DivMod DEF SchedulerIdx
<1>5. w = WorkerList[i + 1] /\ w \in Workers
  <2>1. w = WorkerList[i + 1]
    BY DEF Scheduler
  <2>2. i \in 0..(n - 1) /\ n \in Nat
    BY <1>1, <1>4
  <2> HIDE DEF w, i, m
  <2>3. i + 1 \in 1..n
    BY <2>2
  <2> QED BY <2>1, <2>3 DEF Workers
<1>6. WorkerIdx(w) = i
  <2>0. i \in 0..(n - 1) /\ n \in Nat
    BY <1>1, <1>4
  <2> HIDE DEF w, i, m
  <2>1. /\ WorkerIdx(w) \in 0..(n - 1)
        /\ WorkerList[WorkerIdx(w) + 1] = WorkerList[i + 1]
    BY <1>5, WorkerIdxFacts DEF Ranks
  <2>2. WorkerIdx(w) + 1 \in 1..n /\ i + 1 \in 1..n
    BY <2>0, <2>1
  <2>3. WorkerIdx(w) + 1 = i + 1
    BY <2>1, <2>2, CommitteeAssumption
  <2> QED BY <2>0, <2>1, <2>3
<1>7. SchedulerRank(round, w) = (round + i) % n
  BY <1>6 DEF SchedulerRank
<1> HIDE DEF n, m, i, w
<1>8. PICK p \in Int : round = n * p + m
  BY <1>2
<1>9. PICK q \in Int : rank + n - m = n * q + i
  BY <1>4
<1>10. PICK k \in Int, r \in 0..(n - 1) :
          round + i = n * k + r /\ (round + i) % n = r
  <2>1. round + i \in Nat
    BY <1>1, <1>4
  <2>2. PICK a \in Nat : a = round + i
    BY <2>1
  <2>3. a \div n \in Int /\ a % n \in 0..(n - 1) /\ a = n * (a \div n) + (a % n)
    BY <1>1, DivMod
  <2> QED BY <2>2, <2>3
<1>11. n * (p + 1) + rank = n * (q + k) + r
  <2>1. n * (p + 1) = n * p + n /\ n * (q + k) = n * q + n * k
    BY <1>1
  <2> QED BY <2>1, <1>1, <1>2, <1>4, <1>8, <1>9, <1>10
<1>12. rank = r
  BY <1>1, <1>11, ModUnique
<1> QED BY <1>5, <1>7, <1>10, <1>12 DEF w

----------------------------------------------------------------------------
\* What a node that is not faulty voted is what it computed, or a failure.
HonestVotes ==
  \A r \in Ranks : \A n \in Nodes \ Faulty :
    votes[r][n] \in Valid \union {Failure, NoVote}

\* A scheduler's commitment carries the messages of its header.
CommitmentsVerified ==
  \A r \in Ranks :
    commitment[r] # NoCommitment => commitment[r].messages = Emits[commitment[r].vote]

\* The inductive invariant.
IInv == TypeOK /\ PoolInv /\ HonestVotes /\ CommitmentsVerified

\* What the proofs need of the committee: ranks are small, distinct and below
\* the initial rank of the pool (math.MaxUint64).
LEMMA RankFacts ==
  /\ \A w \in Workers : SchedulerRank(Round, w) \in Ranks
  /\ \A v, w \in Workers : SchedulerRank(Round, v) = SchedulerRank(Round, w) => v = w
  /\ MaxRank \notin Ranks /\ MaxRank \in Nat
  /\ \A r \in Ranks : r \in Nat /\ r < MaxRank
  /\ Workers \subseteq Nodes /\ BackupWorkers \subseteq Nodes
<1>1. Round \in Nat
  BY PoolAssumption
<1>2. \A w \in Workers : SchedulerRank(Round, w) \in Ranks
  BY <1>1, SchedulerRankType
<1>3. \A v, w \in Workers : SchedulerRank(Round, v) = SchedulerRank(Round, w) => v = w
  BY <1>1, RankInjective
<1>4. MaxRank \notin Ranks /\ MaxRank \in Nat /\ \A r \in Ranks : r \in Nat /\ r < MaxRank
  BY PoolAssumption, CommitteeAssumption DEF Ranks
<1>5. Workers \subseteq Nodes /\ BackupWorkers \subseteq Nodes
  BY CommitteeAssumption DEF Workers, BackupWorkers
<1> QED BY <1>2, <1>3, <1>4, <1>5

\* NewPool establishes the invariant.
LEMMA InitIInv == Init => IInv
<1> SUFFICES ASSUME Init PROVE IInv
  OBVIOUS
<1>1. NoVotes \in [Nodes -> Votes \union {NoVote}] /\ \A n \in Nodes : NoVotes[n] = NoVote
  BY DEF NoVotes
<1>2. TypeOK
  BY <1>1, ZenonT(40) DEF Init, TypeOK, Pending
<1>3. PoolInv
  BY <1>1, RankFacts DEF Init, PoolInv, SchedulerCommitted, BetterRanksWait, OthersDropped
<1>4. HonestVotes /\ CommitmentsVerified
  BY <1>1 DEF Init, HonestVotes, CommitmentsVerified
<1> QED BY <1>2, <1>3, <1>4 DEF IInv

\* AddVerifiedExecutorCommitment keeps it.
LEMMA AddIInv ==
  ASSUME IInv, NEW ec \in ExecutorCommitment, AddVerifiedExecutorCommitment(ec)
  PROVE  IInv'
<1> DEFINE rank == SchedulerRank(Round, ec.scheduler)
           takes == rank < highestRank /\ ec.node = ec.scheduler
<1>1. /\ TypeOK /\ PoolInv /\ HonestVotes /\ CommitmentsVerified
      /\ ec.node \in Nodes /\ ec.scheduler \in Nodes /\ ec.vote \in Votes
      /\ ec.messages \in Messages
  BY DEF IInv, ExecutorCommitment
<1>2. ec.scheduler \in Workers /\ rank \in Ranks /\ rank <= highestRank
  BY RankFacts DEF AddVerifiedExecutorCommitment, RankAllowed, IsWorker
<1>3. highestRank \in Nat /\ highestRank \in Ranks \union {MaxRank}
  BY <1>1, RankFacts DEF TypeOK
<1>4. /\ highestRank' = IF takes THEN rank ELSE highestRank
      /\ \A r \in Ranks : votes'[r] =
            IF takes /\ r > rank THEN NoVotes
            ELSE IF r = rank /\ votes[r][ec.node] = NoVote
                 THEN [votes[r] EXCEPT ![ec.node] = ec.vote]
                 ELSE votes[r]
      /\ \A r \in Ranks : commitment'[r] =
            IF takes /\ r > rank THEN NoCommitment
            ELSE IF r = rank /\ votes[r][ec.node] = NoVote /\ ec.node = ec.scheduler
                 THEN ec
                 ELSE commitment[r]
      /\ discrepancy' = discrepancy /\ verdict' = verdict
  BY DEF AddVerifiedExecutorCommitment, Takeover
<1>5. NoVotes \in [Nodes -> Votes \union {NoVote}] /\ \A n \in Nodes : NoVotes[n] = NoVote
  BY DEF NoVotes
<1>6. TypeOK'
  <2>1. votes' \in [Ranks -> [Nodes -> Votes \union {NoVote}]]
    BY <1>1, <1>5 DEF AddVerifiedExecutorCommitment, Takeover, TypeOK
  <2>2. commitment' \in [Ranks -> ExecutorCommitment \union {NoCommitment}]
    BY <1>1 DEF AddVerifiedExecutorCommitment, Takeover, TypeOK
  <2> QED BY <1>1, <1>2, <1>4, <2>1, <2>2 DEF TypeOK
<1>7. HonestVotes'
  <2> SUFFICES ASSUME NEW r \in Ranks, NEW n \in Nodes \ Faulty
               PROVE  votes'[r][n] \in Valid \union {Failure, NoVote}
    BY DEF HonestVotes
  <2>1. votes[r] \in [Nodes -> Votes \union {NoVote}]
    BY <1>1 DEF TypeOK
  <2>2. ec.node = n => ec.vote \in Valid \union {Failure}
    BY DEF AddVerifiedExecutorCommitment
  <2>3. votes[r][n] \in Valid \union {Failure, NoVote}
    BY <1>1 DEF HonestVotes
  <2>4. \/ votes'[r] = NoVotes
        \/ votes'[r] = votes[r]
        \/ votes'[r] = [votes[r] EXCEPT ![ec.node] = ec.vote]
    BY <1>4
  <2>5. CASE votes'[r] = NoVotes
    BY <1>5, <2>5
  <2>6. CASE votes'[r] = votes[r]
    BY <2>3, <2>6
  <2>7. CASE votes'[r] = [votes[r] EXCEPT ![ec.node] = ec.vote]
    <3>1. votes'[r][n] = IF n = ec.node THEN ec.vote ELSE votes[r][n]
      BY <2>1, <2>7
    <3> QED BY <2>2, <2>3, <3>1
  <2> QED BY <2>4, <2>5, <2>6, <2>7
<1>8. ec.node = ec.scheduler => ec.vote # Failure /\ ec.messages = Emits[ec.vote]
  BY DEF AddVerifiedExecutorCommitment, VerifyExecutorCommitment
<1>9. CommitmentsVerified'
  <2> SUFFICES ASSUME NEW r \in Ranks, commitment'[r] # NoCommitment
               PROVE  commitment'[r].messages = Emits[commitment'[r].vote]
    BY DEF CommitmentsVerified
  <2>1. CASE commitment'[r] = ec /\ ec.node = ec.scheduler
    BY <2>1, <1>8
  <2>2. CASE commitment'[r] = commitment[r]
    BY <2>2, <1>1 DEF CommitmentsVerified
  <2> QED BY <1>4, <2>1, <2>2
<1>10. ASSUME ec.node = ec.scheduler, rank < highestRank
       PROVE  votes[rank][ec.node] = NoVote
  BY <1>1, <1>2, <1>10 DEF PoolInv, BetterRanksWait
<1>11. rank \in Nat
  BY <1>2, RankFacts
<1>12. ASSUME takes PROVE PoolInv'
  <2>1. highestRank' = rank /\ rank # MaxRank /\ ~discrepancy
    BY <1>12, <1>3, <1>4, <1>11, RankFacts DEF AddVerifiedExecutorCommitment, RankAllowed
  <2>2. commitment'[rank] = ec /\ votes'[rank] = [votes[rank] EXCEPT ![ec.node] = ec.vote]
    BY <1>12, <1>2, <1>4, <1>10, <1>11
  <2>3. votes'[rank][ec.node] = ec.vote
    BY <2>2, <1>1, <1>2 DEF TypeOK
  <2>4. ec # NoCommitment
    BY NoCommitmentAssumption
  <2>5. SchedulerCommitted'
    BY <1>12, <2>1, <2>2, <2>3, <2>4, <1>2, <1>8 DEF SchedulerCommitted, IsWorker
  <2>6. BetterRanksWait'
    <3> SUFFICES ASSUME NEW r \in Ranks, r < rank
                 PROVE  /\ commitment'[r] = NoCommitment
                        /\ \A w \in Workers : SchedulerRank(Round, w) = r => votes'[r][w] = NoVote
      BY <2>1 DEF BetterRanksWait
    <3>1. r < highestRank /\ r # rank /\ ~(r > rank)
      BY <1>12, <1>11, <1>3, RankFacts
    <3>2. commitment'[r] = commitment[r] /\ votes'[r] = votes[r]
      BY <3>1, <1>4, ZenonT(40)
    <3> QED BY <3>1, <3>2, <1>1 DEF PoolInv, BetterRanksWait
  <2>7. OthersDropped'
    BY <1>12, <2>1, <1>4, ZenonT(40) DEF OthersDropped
  <2> QED BY <2>1, <2>5, <2>6, <2>7, <1>4, Zenon DEF PoolInv
<1>13. ASSUME ~takes PROVE PoolInv'
  <2>1. highestRank' = highestRank /\ discrepancy' = discrepancy
    BY <1>13, <1>4
  <2>2. \A r \in Ranks : r # rank => votes'[r] = votes[r] /\ commitment'[r] = commitment[r]
    BY <1>13, <1>4, ZenonT(40)
  <2>3. votes[rank] \in [Nodes -> Votes \union {NoVote}]
    BY <1>1, <1>2 DEF TypeOK
  <2>4. ASSUME NEW n \in Nodes, votes[rank][n] # NoVote
        PROVE  votes'[rank][n] = votes[rank][n]
    BY <1>13, <1>1, <1>2, <1>4, <2>3, <2>4, ZenonT(40)
  <2>5. OthersDropped'
    <3>1. ~(rank > highestRank) /\ ~(discrepancy /\ rank # highestRank)
      BY <1>2, <1>3, <1>11 DEF AddVerifiedExecutorCommitment, RankAllowed, rank
    <3> QED BY <2>1, <2>2, <3>1, <1>1 DEF PoolInv, OthersDropped
  <2>6. CASE rank = highestRank
    <3>1. PICK s \in Workers : /\ commitment[rank].node = s
                                /\ commitment[rank].scheduler = s
                                /\ commitment[rank].vote # Failure
                                /\ commitment[rank] # NoCommitment
                                /\ SchedulerRank(Round, s) = rank
                                /\ votes[rank][s] = commitment[rank].vote
      BY <2>6, <1>1, <1>2, RankFacts DEF PoolInv, SchedulerCommitted, IsWorker
    <3>2. commitment[rank].vote # NoVote
      BY <3>1, <1>1, <1>2, PoolAssumption DEF TypeOK, ExecutorCommitment, Votes
    <3>3. ec.node = ec.scheduler => ec.node = s
      BY <3>1, <1>2, RankFacts DEF rank
    <3>4. commitment'[rank] = commitment[rank]
      BY <1>13, <3>1, <3>2, <3>3, <1>2, <1>4, Zenon
    <3>5. votes'[rank][s] = votes[rank][s]
      BY <3>1, <3>2, <2>4, RankFacts
    <3>6. SchedulerCommitted'
      BY <2>1, <2>6, <3>1, <3>4, <3>5 DEF SchedulerCommitted, IsWorker
    <3>7. BetterRanksWait'
      <4>1. \A r \in Ranks : r < highestRank => r # rank
        BY <2>6, <1>3, RankFacts
      <4> QED BY <2>1, <2>2, <4>1, <1>1 DEF PoolInv, BetterRanksWait
    <3> QED BY <2>1, <2>5, <3>6, <3>7, <1>1 DEF PoolInv
  <2>7. CASE rank < highestRank
    <3>1. ec.node # ec.scheduler /\ rank # highestRank
      BY <1>13, <2>7, <1>11, <1>3
    <3>2. commitment'[rank] = commitment[rank]
      BY <3>1, <1>13, <1>2, <1>4
    <3>3. \A w \in Workers : SchedulerRank(Round, w) = rank => votes'[rank][w] = votes[rank][w]
      <4> SUFFICES ASSUME NEW w \in Workers, SchedulerRank(Round, w) = rank
                   PROVE  votes'[rank][w] = votes[rank][w]
        OBVIOUS
      <4>1. w = ec.scheduler
        BY <1>2, RankFacts DEF rank
      <4> QED BY <4>1, <2>3, <3>1, <1>13, <1>1, <1>2, <1>4, RankFacts, ZenonT(40)
    <3>4. SchedulerCommitted'
      <4>1. highestRank # MaxRank => highestRank \in Ranks /\ highestRank # rank
        BY <3>1, <1>3
      <4>2. highestRank # MaxRank =>
              votes'[highestRank] = votes[highestRank]
              /\ commitment'[highestRank] = commitment[highestRank]
        BY <4>1, <2>2
      <4> QED BY <2>1, <4>2, <1>1 DEF PoolInv, SchedulerCommitted
    <3>5. BetterRanksWait'
      <4> SUFFICES ASSUME NEW r \in Ranks, r < highestRank
                   PROVE  /\ commitment'[r] = NoCommitment
                          /\ \A w \in Workers : SchedulerRank(Round, w) = r => votes'[r][w] = NoVote
        BY <2>1 DEF BetterRanksWait
      <4>1. /\ commitment[r] = NoCommitment
            /\ \A w \in Workers : SchedulerRank(Round, w) = r => votes[r][w] = NoVote
        BY <1>1 DEF PoolInv, BetterRanksWait
      <4>2. CASE r = rank
        BY <4>1, <4>2, <3>2, <3>3
      <4>3. CASE r # rank
        BY <4>1, <4>3, <2>2
      <4> QED BY <4>2, <4>3
    <3> QED BY <2>1, <2>5, <3>4, <3>5, <1>1 DEF PoolInv
  <2>8. rank = highestRank \/ rank < highestRank
    BY <1>2, <1>3, <1>11
  <2> QED BY <2>6, <2>7, <2>8
<1> QED BY <1>6, <1>7, <1>9, <1>12, <1>13 DEF IInv

\* ProcessCommitments keeps it, on a timeout or not.
LEMMA ProcessIInv ==
  ASSUME IInv, NEW timeout \in BOOLEAN, ProcessCommitments(timeout)
  PROVE  IInv'
<1>1. TypeOK /\ PoolInv /\ HonestVotes /\ CommitmentsVerified
  BY DEF IInv
<1>2. PICK h \in Leaders : verdict' = processCommitments(timeout, h)
  BY DEF ProcessCommitments
<1>3. verdict' \in Pending \union Final
  BY <1>2 DEF processCommitments, Detection, Resolution, Pending, Final
<1>4. NoVotes \in [Nodes -> Votes \union {NoVote}] /\ \A n \in Nodes : NoVotes[n] = NoVote
  BY DEF NoVotes
<1>5. CASE verdict' = "ErrDiscrepancyDetected"
  <2>1. /\ highestRank' = highestRank /\ discrepancy' = TRUE
        /\ \A r \in Ranks : votes'[r] = IF r = highestRank THEN votes[r] ELSE NoVotes
        /\ \A r \in Ranks :
             commitment'[r] = IF r = highestRank THEN commitment[r] ELSE NoCommitment
    BY <1>5 DEF ProcessCommitments
  <2>2. highestRank # MaxRank
    <3>1. HasEntry(highestRank)
      BY <1>2, <1>5 DEF processCommitments
    <3> QED BY <3>1, RankFacts DEF HasEntry
  <2>3. TypeOK'
    BY <1>1, <1>3, <1>4, <1>5 DEF ProcessCommitments, TypeOK
  <2>4. PoolInv'
    <3>1. highestRank \in Ranks
      BY <1>1, <2>2 DEF TypeOK
    <3>2. /\ votes'[highestRank] = votes[highestRank]
          /\ commitment'[highestRank] = commitment[highestRank]
      BY <2>1, <3>1
    <3>3. SchedulerCommitted'
      BY <1>1, <2>1, <3>2 DEF PoolInv, SchedulerCommitted
    <3>4. BetterRanksWait' /\ OthersDropped'
      <4>1. \A r \in Ranks : r < highestRank \/ r > highestRank => r # highestRank
        BY RankFacts, <3>1
      <4>2. \A r \in Ranks : r # highestRank =>
               commitment'[r] = NoCommitment /\ votes'[r] = NoVotes
        BY <2>1
      <4> QED BY <4>1, <4>2, <1>4, <2>1, RankFacts DEF BetterRanksWait, OthersDropped
    <3> QED BY <2>1, <2>2, <3>3, <3>4 DEF PoolInv
  <2>5. HonestVotes' /\ CommitmentsVerified'
    BY <1>1, <1>4, <2>1, Zenon DEF HonestVotes, CommitmentsVerified
  <2> QED BY <2>3, <2>4, <2>5 DEF IInv
<1>6. CASE verdict' # "ErrDiscrepancyDetected"
  <2>1. UNCHANGED <<highestRank, discrepancy, votes, commitment>>
    BY <1>6 DEF ProcessCommitments
  <2> QED BY <1>1, <1>3, <2>1
          DEF IInv, TypeOK, PoolInv, SchedulerCommitted, BetterRanksWait, OthersDropped,
              HonestVotes, CommitmentsVerified
<1> QED BY <1>5, <1>6

\* Every step of the pool keeps it.
LEMMA NextIInv == IInv /\ [Next]_vars => IInv'
<1> SUFFICES ASSUME IInv, [Next]_vars PROVE IInv'
  OBVIOUS
<1>1. CASE Add
  BY <1>1, AddIInv DEF Add
<1>2. CASE Process
  BY <1>2, ProcessIInv, ZenonT(40) DEF Process
<1>3. CASE Timeout
  BY <1>3, ProcessIInv, ZenonT(40) DEF Timeout
<1>4. CASE UNCHANGED vars
  BY <1>4 DEF vars, IInv, TypeOK, PoolInv, SchedulerCommitted, BetterRanksWait,
              OthersDropped, HonestVotes, CommitmentsVerified
<1> QED BY <1>1, <1>2, <1>3, <1>4 DEF Next

\* The pool keeps the shape that processCommitments relies on, so it never
\* reads a scheduler commitment that is not there.
THEOREM PoolIsWellFormed == Spec => []IInv
<1>1. Init => IInv
  BY InitIInv
<1>2. IInv /\ [Next]_vars => IInv'
  BY NextIInv
<1> QED BY <1>1, <1>2, PTL DEF Spec

\* TypeOK and PoolInv for every committee.
THEOREM PoolInvariant == Spec => [](TypeOK /\ PoolInv)
<1>1. IInv => TypeOK /\ PoolInv
  BY Zenon DEF IInv
<1> QED BY <1>1, PoolIsWellFormed, PTL

----------------------------------------------------------------------------

(* Finalization.                                                            *)

\* The members of either role can be counted.
LEMMA CommitteeFinite == ASSUME SetFacts PROVE
  /\ IsFiniteSet(Workers) /\ Cardinality(Workers) \in Nat
  /\ IsFiniteSet(BackupWorkers) /\ Cardinality(BackupWorkers) \in Nat
<1>1. ASSUME NEW l \in Seq(Nodes)
      PROVE  IsFiniteSet({l[i] : i \in 1..Len(l)})
  <2>1. Len(l) \in Nat
    OBVIOUS
  <2>2. IsFiniteSet(1..Len(l))
    BY <2>1, IntervalIsFinite
  <2> DEFINE f == [i \in 1..Len(l) |-> l[i]]
             S == {l[i] : i \in 1..Len(l)}
  <2>3. Onto(f, 1..Len(l), S)
    BY DEF Onto
  <2> QED BY <2>2, <2>3, ImageIsFinite
<1> QED BY <1>1, CommitteeAssumption, CardinalityIsNat, Zenon DEF Workers, BackupWorkers

\* A set of voters larger than the faulty ones has an honest voter.
LEMMA HonestMember ==
  ASSUME SetFacts, NEW V, IsFiniteSet(V), NEW Q \in SUBSET V,
         Cardinality(V \intersect Faulty) < Cardinality(Q)
  PROVE  \E n \in Q : n \notin Faulty
<1> SUFFICES ASSUME Q \subseteq Faulty PROVE FALSE
  OBVIOUS
<1>1. Q \subseteq V \intersect Faulty
  OBVIOUS
<1>2. IsFiniteSet(V \intersect Faulty)
  BY SubsetIsFinite
<1>3. Cardinality(Q) <= Cardinality(V \intersect Faulty)
  BY <1>1, <1>2, SubsetIsFinite
<1>4. Cardinality(Q) \in Nat /\ Cardinality(V \intersect Faulty) \in Nat
  BY <1>1, <1>2, SubsetIsFinite, CardinalityIsNat
<1> QED BY <1>3, <1>4

\* When ProcessCommitments finalizes, an honest node is among the voters for
\* the scheduler's header: in detection as all but the stragglers agree, in
\* resolution as a majority of the backup workers does.
LEMMA FinalizeValid ==
  ASSUME SetFacts, IInv, HonestQuorums, NEW timeout \in BOOLEAN, NEW h \in Leaders,
         processCommitments(timeout, h) = "finalized"
  PROVE  commitment[highestRank].vote \in Valid
<1>1. TypeOK /\ PoolInv /\ HonestVotes
  BY DEF IInv
<1>2. highestRank \in Ranks
  BY DEF processCommitments, HasEntry
<1>3. \A n \in Nodes : VoteOf(n) = votes[highestRank][n]
  BY <1>2 DEF VoteOf
<1>4. ASSUME NEW n \in Nodes, n \notin Faulty, VoteOf(n) \in Hashes
      PROVE  VoteOf(n) \in Valid
  BY <1>1, <1>2, <1>3, <1>4, PoolAssumption DEF HonestVotes
<1>5. CASE ~discrepancy
  <2>1. Voters = Workers /\ Total = Cardinality(Workers)
    BY <1>5 DEF Voters, Total
  <2>2. ~Split /\ ~(Total - AllowedStragglers - Cardinality(Successes) > 0)
    BY <1>5, <1>2 DEF processCommitments, HasEntry, Detection
  <2>3. Successes \in SUBSET Workers
    BY <2>1 DEF Successes
  <2>4. /\ Cardinality(Successes) \in Nat /\ Cardinality(Workers) \in Nat
        /\ Cardinality(Workers \intersect Faulty) \in Nat
    BY <2>3, CommitteeFinite, SubsetIsFinite, CardinalityIsNat
  <2>5. Cardinality(Workers \intersect Faulty) < Cardinality(Successes)
    BY <2>1, <2>2, <2>4, PoolAssumption DEF HonestQuorums
  <2>6. PICK n \in Successes : n \notin Faulty
    BY <2>3, <2>5, HonestMember, CommitteeFinite
  <2>7. VoteOf(n) \in Valid
    BY <1>4, <2>3, <2>6, RankFacts DEF Successes
  <2>8. PICK s \in Workers : VoteOf(s) = commitment[highestRank].vote
                              /\ commitment[highestRank].vote \in Hashes
    <3>1. highestRank # MaxRank
      BY <1>2, RankFacts
    <3>2. PICK s \in Workers : /\ votes[highestRank][s] = commitment[highestRank].vote
                                /\ commitment[highestRank].vote # Failure
                                /\ commitment[highestRank] # NoCommitment
      BY <3>1, <1>1 DEF PoolInv, SchedulerCommitted, IsWorker
    <3>3. commitment[highestRank].vote \in Votes
      BY <3>2, <1>1, <1>2 DEF TypeOK, ExecutorCommitment
    <3> QED BY <3>2, <3>3, <1>3, RankFacts DEF Votes
  <2>9. s \in Successes
    BY <2>1, <2>8 DEF Successes
  <2>10. VoteOf(s) = VoteOf(n)
    BY <2>2, <2>6, <2>9 DEF Split
  <2> QED BY <2>7, <2>8, <2>10
<1>6. CASE discrepancy
  <2>1. Voters = BackupWorkers /\ Total = Cardinality(BackupWorkers)
    BY <1>6 DEF Voters, Total
  <2>2. h = commitment[highestRank].vote /\ ~(Cardinality(VotesFor(h)) < Required)
    BY <1>6, <1>2 DEF processCommitments, HasEntry, Resolution
  <2>3. VotesFor(h) \in SUBSET BackupWorkers
    BY <2>1 DEF VotesFor
  <2>4. /\ Cardinality(VotesFor(h)) \in Nat /\ Cardinality(BackupWorkers) \in Nat
        /\ Cardinality(BackupWorkers \intersect Faulty) \in Nat
    BY <2>3, CommitteeFinite, SubsetIsFinite, CardinalityIsNat
  <2>5. Cardinality(BackupWorkers \intersect Faulty) < Cardinality(VotesFor(h))
    BY <2>1, <2>2, <2>4 DEF HonestQuorums, Required
  <2>6. PICK n \in VotesFor(h) : n \notin Faulty
    BY <2>3, <2>5, HonestMember, CommitteeFinite
  <2>7. VoteOf(n) = h /\ h \in Hashes /\ n \in Nodes
    BY <2>3, <2>6, RankFacts DEF VotesFor, Leaders
  <2> QED BY <2>2, <2>6, <2>7, <1>4
<1> QED BY <1>5, <1>6

LEMMA FinalizedIsValidIf == ASSUME SetFacts PROVE Spec => []FinalizedValid
<1>1. Init => FinalizedValid
  BY DEF Init, FinalizedValid
<1>2. IInv /\ FinalizedValid /\ [Next]_vars => FinalizedValid'
  <2> SUFFICES ASSUME IInv, FinalizedValid, [Next]_vars,
                      HonestQuorums', verdict' = "finalized"
               PROVE  commitment'[highestRank'].vote \in Valid
    BY DEF FinalizedValid
  <2>0. HonestQuorums
    BY DEF HonestQuorums
  <2>1. CASE Add
    <3>1. verdict \in Pending /\ verdict' = verdict
      BY <2>1 DEF Add, AddVerifiedExecutorCommitment
    <3> QED BY <3>1 DEF Pending
  <2>2. ASSUME NEW timeout \in BOOLEAN, ProcessCommitments(timeout)
        PROVE  commitment'[highestRank'].vote \in Valid
    <3>1. PICK h \in Leaders : processCommitments(timeout, h) = "finalized"
      BY <2>2 DEF ProcessCommitments
    <3>2. UNCHANGED <<highestRank, commitment>>
      BY <2>2 DEF ProcessCommitments
    <3>3. commitment[highestRank].vote \in Valid
      BY <2>0, <3>1, FinalizeValid
    <3> QED BY <3>2, <3>3
  <2>3. CASE UNCHANGED vars
    BY <2>0, <2>3 DEF vars, FinalizedValid
  <2> QED BY <2>1, <2>2, <2>3, ZenonT(40) DEF Next, Process, Timeout
<1> QED BY <1>1, <1>2, PoolIsWellFormed, PTL DEF Spec

\* The finalized commitment carries the messages of the header that was
\* voted on.
THEOREM FinalizedCarriesMessages == Spec => []FinalizedMessages
<1>1. Init => FinalizedMessages
  BY DEF Init, FinalizedMessages
<1>2. IInv /\ FinalizedMessages /\ [Next]_vars => FinalizedMessages'
  <2> SUFFICES ASSUME IInv, FinalizedMessages, [Next]_vars, verdict' = "finalized"
               PROVE  commitment'[highestRank'].messages = Emits[commitment'[highestRank'].vote]
    BY DEF FinalizedMessages
  <2>1. CASE Add
    <3>1. verdict \in Pending /\ verdict' = verdict
      BY <2>1 DEF Add, AddVerifiedExecutorCommitment
    <3> QED BY <3>1 DEF Pending
  <2>2. ASSUME NEW timeout \in BOOLEAN, ProcessCommitments(timeout)
        PROVE  commitment'[highestRank'].messages = Emits[commitment'[highestRank'].vote]
    <3>1. PICK h \in Leaders : processCommitments(timeout, h) = "finalized"
      BY <2>2 DEF ProcessCommitments
    <3>2. UNCHANGED <<highestRank, commitment>>
      BY <2>2 DEF ProcessCommitments
    <3>3. highestRank \in Ranks /\ highestRank # MaxRank
      BY <3>1, RankFacts DEF processCommitments, HasEntry
    <3> QED BY <3>2, <3>3 DEF IInv, PoolInv, SchedulerCommitted, CommitmentsVerified
  <2>3. CASE UNCHANGED vars
    BY <2>3 DEF vars, FinalizedMessages
  <2> QED BY <2>1, <2>2, <2>3, ZenonT(40) DEF Next, Process, Timeout
<1> QED BY <1>1, <1>2, PoolIsWellFormed, PTL DEF Spec

----------------------------------------------------------------------------
(* What a step may never do.                                                *)

\* HighestRank never gets worse, a discrepancy fixes it and stays.
THEOREM RankNeverWorsens == Spec => RankImproves
<1> DEFINE Improves == /\ highestRank' <= highestRank
                       /\ discrepancy => discrepancy' /\ highestRank' = highestRank
<1>1. IInv /\ [Next]_vars => [Improves]_vars
  <2> SUFFICES ASSUME IInv, Next PROVE Improves
    OBVIOUS
  <2>0. highestRank \in Nat
    BY RankFacts DEF IInv, TypeOK
  <2>1. CASE Add
    <3>1. PICK ec \in ExecutorCommitment : AddVerifiedExecutorCommitment(ec)
      BY <2>1 DEF Add
    <3>2. SchedulerRank(Round, ec.scheduler) \in Nat
      BY <3>1, RankFacts, Zenon DEF AddVerifiedExecutorCommitment, RankAllowed, IsWorker
    <3>3. /\ discrepancy' = discrepancy
          /\ discrepancy => SchedulerRank(Round, ec.scheduler) = highestRank
          /\ \/ highestRank' = highestRank
             \/ /\ highestRank' = SchedulerRank(Round, ec.scheduler)
                /\ SchedulerRank(Round, ec.scheduler) < highestRank
      BY <3>1 DEF AddVerifiedExecutorCommitment, RankAllowed, Takeover
    <3> QED BY <2>0, <3>2, <3>3
  <2>2. CASE Process \/ Timeout
    <3>1. PICK timeout \in BOOLEAN : ProcessCommitments(timeout)
      BY <2>2, ZenonT(40) DEF Process, Timeout
    <3>2. highestRank' = highestRank
      BY <3>1 DEF ProcessCommitments
    <3>3. discrepancy => discrepancy'
      <4>1. CASE verdict' = "ErrDiscrepancyDetected"
        BY <3>1, <4>1 DEF ProcessCommitments
      <4>2. CASE verdict' # "ErrDiscrepancyDetected"
        BY <3>1, <4>2 DEF ProcessCommitments
      <4> QED BY <4>1, <4>2
    <3> QED BY <2>0, <3>2, <3>3
  <2> QED BY <2>1, <2>2 DEF Next
<1> QED BY <1>1, PoolIsWellFormed, PTL DEF Spec, RankImproves

\* A recorded vote is never replaced, and is dropped only with its entry.
THEOREM VotesNeverChange == Spec => VotesStand
<1> DEFINE Stand ==
      \A r \in Ranks : \A n \in Nodes :
        votes[r][n] # NoVote /\ votes'[r][n] # votes[r][n]
          => /\ votes'[r] = NoVotes
             /\ r > highestRank' \/ (~discrepancy /\ discrepancy' /\ r # highestRank')
<1>1. IInv /\ [Next]_vars => [Stand]_vars
  <2> SUFFICES ASSUME IInv, Next, NEW r \in Ranks, NEW n \in Nodes,
                      votes[r][n] # NoVote, votes'[r][n] # votes[r][n]
               PROVE  /\ votes'[r] = NoVotes
                      /\ \/ r > highestRank'
                         \/ ~discrepancy /\ discrepancy' /\ r # highestRank'
    OBVIOUS
  <2>0. votes[r] \in [Nodes -> Votes \union {NoVote}]
    BY Zenon DEF IInv, TypeOK
  <2>1. CASE Add
    <3>1. PICK ec \in ExecutorCommitment : AddVerifiedExecutorCommitment(ec)
      BY <2>1, Zenon DEF Add
    <3> DEFINE rank == SchedulerRank(Round, ec.scheduler)
               takes == rank < highestRank /\ ec.node = ec.scheduler
    <3>2. /\ highestRank' = IF takes THEN rank ELSE highestRank
          /\ votes'[r] =
                IF takes /\ r > rank THEN NoVotes
                ELSE IF r = rank /\ votes[r][ec.node] = NoVote
                     THEN [votes[r] EXCEPT ![ec.node] = ec.vote]
                     ELSE votes[r]
      BY <3>1, Zenon DEF AddVerifiedExecutorCommitment, Takeover
    <3>3. takes /\ r > rank
      BY <2>0, <3>2
    <3> QED BY <3>2, <3>3
  <2>2. CASE Process \/ Timeout
    <3>1. PICK timeout \in BOOLEAN : ProcessCommitments(timeout)
      BY <2>2, ZenonT(40) DEF Process, Timeout
    <3>2. verdict' = "ErrDiscrepancyDetected" /\ r # highestRank /\ votes'[r] = NoVotes
      BY <3>1 DEF ProcessCommitments
    <3>3. highestRank' = highestRank /\ discrepancy'
      BY <3>1, <3>2 DEF ProcessCommitments
    <3>4. CASE discrepancy
      BY <3>2, <3>4, <2>0 DEF IInv, PoolInv, OthersDropped, NoVotes
    <3> QED BY <3>2, <3>3, <3>4
  <2> QED BY <2>1, <2>2 DEF Next
<1> QED BY <1>1, PoolIsWellFormed, PTL DEF Spec, VotesStand

-----------------------------------------------------------------------------
(* The staking ledger (go/staking/api/{api,sanity_check}.go).                  *)
CONSTANTS MaxEpoch, Delegators, Funds, StakingNodes, NodeRoles, Thresholds, MaxShares, MaxAmount, Amendments,
          Interval, Lead, MaxRates, MaxBounds, MinRates, Unity, LastEpoch
VARIABLES ledgerEpoch, general, common, active, debonding, delegations, debonds, claims,
          commissionEpoch, minRate, schedule

INSTANCE Staking WITH epoch <- ledgerEpoch, now <- commissionEpoch, Nodes <- StakingNodes

(* One holder's units are as many as the holder has.                           *)
LEMMA HoldersUnits == ASSUME SetFacts, NEW n \in Nat, NEW x
  PROVE IsFiniteSet({x} \X (1 .. n)) /\ Cardinality({x} \X (1 .. n)) = n
<1>1. IsFiniteSet(1 .. n) /\ Cardinality(1 .. n) = n
  BY IntervalIsFinite
<1>2. IsFiniteSet({x}) /\ Cardinality({x}) = 1
  BY SingletonIsFinite, Zenon
<1>3. IsFiniteSet({x} \X (1 .. n)) /\ Cardinality({x} \X (1 .. n)) = Cardinality({x}) * Cardinality(1 .. n)
  BY <1>1, <1>2, ProductIsFinite
<1>. QED
  BY <1>1, <1>2, <1>3

LEMMA HeldFinite == ASSUME SetFacts, NEW D, IsFiniteSet(D), NEW f \in [D -> Nat] PROVE IsFiniteSet(Held(f))
<1> DEFINE T == {{x} \X (1 .. f[x]) : x \in DOMAIN f}
           g == [x \in D |-> {x} \X (1 .. f[x])]
<1>1. Onto(g, D, T)
  BY ZenonT(40) DEF Onto
<1>2. IsFiniteSet(T)
  BY <1>1, ImageIsFinite
<1>3. \A t \in T : IsFiniteSet(t)
  BY HoldersUnits, ZenonT(40)
<1>. QED
  BY <1>2, <1>3, UnionsAreFinite, ZenonT(40) DEF Held

(* A sum over a finite set is a natural number that no summand exceeds, and    *)
(* changes as one summand does.                                                *)
LEMMA TotalChanges ==
  ASSUME SetFacts, NEW D, IsFiniteSet(D), NEW f \in [D -> Nat], NEW d \in D, NEW n \in Nat
  PROVE  /\ TotalOf(f) \in Nat /\ f[d] <= TotalOf(f)
         /\ TotalOf([f EXCEPT ![d] = n]) = TotalOf(f) - f[d] + n
<1> DEFINE g == [f EXCEPT ![d] = n]
           A == {d} \X (1 .. f[d])
           B == {d} \X (1 .. n)
           R == Held(f) \ A
<1>0. g \in [D -> Nat]
  OBVIOUS
<1>1. IsFiniteSet(Held(f)) /\ IsFiniteSet(R)
  BY HeldFinite, DifferenceIsFinite, ZenonT(40)
<1>2. IsFiniteSet(A) /\ Cardinality(A) = f[d] /\ IsFiniteSet(B) /\ Cardinality(B) = n
  BY HoldersUnits, ZenonT(40)
<1>3. A \subseteq Held(f)
  BY DEF Held
<1>4. R = UNION {{c} \X (1 .. f[c]) : c \in D \ {d}}
  BY DEF Held
<1>5. R = UNION {{c} \X (1 .. g[c]) : c \in D \ {d}}
  <2>1. \A c \in D \ {d} : g[c] = f[c]
    BY <1>0
  <2> HIDE DEF g, R
  <2>. QED
    BY <1>4, <2>1
<1>6. Held(g) = R \cup B
  <2>1. Held(g) = UNION {{c} \X (1 .. g[c]) : c \in D}
    BY <1>0 DEF Held
  <2>2. g[d] = n
    OBVIOUS
  <2> HIDE DEF g, R
  <2>. QED
    BY <1>5, <2>1, <2>2
<1>7. Held(f) = R \cup A /\ R \cap A = {} /\ R \cap B = {}
  BY <1>3, <1>4
<1>. HIDE DEF A, B, R
<1>8. Cardinality(Held(f)) = Cardinality(R) + Cardinality(A) - Cardinality(R \cap A)
  BY <1>1, <1>2, <1>7, UnionIsFinite
<1>9. Cardinality(Held(g)) = Cardinality(R) + Cardinality(B) - Cardinality(R \cap B)
  BY <1>1, <1>2, <1>6, UnionIsFinite, ZenonT(40)
<1>10. Cardinality(R) \in Nat /\ Cardinality(R \cap A) = 0 /\ Cardinality(R \cap B) = 0
  BY <1>1, <1>7, CardinalityIsNat, EmptySetIsFinite, ZenonT(40)
<1>. QED
  BY <1>2, <1>8, <1>9, <1>10 DEF TotalOf

LEMMA TotalIsNat == ASSUME SetFacts, NEW D, IsFiniteSet(D), NEW f \in [D -> Nat] PROVE TotalOf(f) \in Nat
BY HeldFinite, CardinalityIsNat DEF TotalOf

(* The sum of a constant function.                                             *)
LEMMA TotalConstant == ASSUME SetFacts, NEW D, IsFiniteSet(D), NEW n \in Nat
  PROVE TotalOf([x \in D |-> n]) = Cardinality(D) * n
<1>1. Held([x \in D |-> n]) = D \X (1 .. n)
  BY DEF Held
<1>2. IsFiniteSet(1 .. n) /\ Cardinality(1 .. n) = n
  BY IntervalIsFinite
<1>. QED
  BY <1>1, <1>2, ProductIsFinite, ZenonT(40) DEF TotalOf

LEMMA TotalZero == ASSUME SetFacts, NEW D PROVE TotalOf([x \in D |-> 0]) = 0
<1>1. Held([x \in D |-> 0]) = {}
  BY DEF Held
<1>. QED
  BY <1>1, EmptySetIsFinite DEF TotalOf

-----------------------------------------------------------------------------
(* SharePool.                                                                  *)
Pools == [balance : Nat, shares : Nat]
Sound(p) == p \in Pools /\ (p.shares = 0 => p.balance = 0)
(* What a share is worth has not fallen from p to q.                           *)
NotDiluted(p, q) == q.shares > 0 => q.balance * p.shares >= p.balance * q.shares

LEMMA Quotient == ASSUME NEW a \in Nat, NEW b \in Nat, b > 0
  PROVE a \div b \in Nat /\ b * (a \div b) <= a /\ a < b * (a \div b) + b
BY Z3
LEMMA WholeQuotient == ASSUME NEW n \in Nat, NEW b \in Nat, n > 0 PROVE (n * b) \div n = b
BY Z3
LEMMA PartQuotient == ASSUME NEW n \in Nat, NEW b \in Nat, NEW s \in Nat, n <= s, s > 0
  PROVE (n * b) \div s <= b
BY Z3

LEMMA DepositsAreSound ==
  ASSUME NEW p, Sound(p), Depositable(p), NEW amount \in Nat
  PROVE  /\ Sound(Deposit(p, amount)) /\ SharesForStake(p, amount) \in Nat
         /\ NotDiluted(p, Deposit(p, amount))
<1> DEFINE n == SharesForStake(p, amount)
<1>0. p.balance \in Nat /\ p.shares \in Nat /\ amount * p.shares \in Nat
  BY DEF Sound, Pools
<1>1. CASE p.shares = 0
  BY <1>0, <1>1 DEF Sound, Pools, SharesForStake, Deposit, NotDiluted
<1>2. CASE p.shares # 0
  <2>1. p.balance > 0
    BY <1>0, <1>2 DEF Depositable
  <2>2. n = (amount * p.shares) \div p.balance
    BY <1>2 DEF SharesForStake
  <2>3. n \in Nat /\ p.balance * n <= amount * p.shares
    BY <1>0, <2>1, <2>2, Quotient
  <2>4. (p.balance + amount) * p.shares >= p.balance * (p.shares + n)
    <3> HIDE DEF n
    <3>. QED
      BY <1>0, <2>3, Z3
  <2>5. /\ Deposit(p, amount).balance = p.balance + amount
        /\ Deposit(p, amount).shares = p.shares + n /\ Deposit(p, amount) \in Pools
    BY <1>0, <2>3 DEF Deposit, Pools
  <2> HIDE DEF n
  <2>. QED
    BY <1>0, <1>2, <2>3, <2>4, <2>5 DEF Sound, NotDiluted, n
<1>. QED
  BY <1>1, <1>2

LEMMA WithdrawalsAreSound ==
  ASSUME NEW p, Sound(p), NEW n \in Nat, n <= p.shares
  PROVE  /\ Sound(Withdraw(p, n)) /\ StakeForShares(p, n) \in Nat
         /\ StakeForShares(p, n) <= p.balance
         /\ NotDiluted(p, Withdraw(p, n))
<1> DEFINE u == StakeForShares(p, n)
<1>0. p.balance \in Nat /\ p.shares \in Nat /\ n * p.balance \in Nat
  BY DEF Sound, Pools
<1>1. u \in Nat /\ u <= p.balance /\ p.shares * u <= n * p.balance
  <2>1. CASE n = 0 \/ p.balance = 0 \/ p.shares = 0
    BY <1>0, <2>1 DEF StakeForShares
  <2>2. CASE ~(n = 0 \/ p.balance = 0 \/ p.shares = 0)
    <3>1. u = (n * p.balance) \div p.shares /\ p.shares > 0
      BY <1>0, <2>2 DEF StakeForShares
    <3>. QED
      BY <1>0, <3>1, Quotient, PartQuotient
  <2>. QED
    BY <2>1, <2>2
<1>2. n = p.shares => u = p.balance
  <2>1. CASE n = p.shares /\ n > 0 /\ p.balance > 0
    BY <1>0, <2>1, WholeQuotient DEF StakeForShares
  <2>2. CASE n = 0 /\ p.shares = 0
    BY <1>0, <1>1, <2>2 DEF Sound
  <2>3. CASE p.balance = 0
    BY <1>1, <2>3
  <2>. QED
    BY <1>0, <2>1, <2>2, <2>3
<1>3. (p.balance - u) * p.shares >= p.balance * (p.shares - n)
  <2> HIDE DEF u
  <2>. QED
    BY <1>0, <1>1, Z3
<1>4. /\ Withdraw(p, n).balance = p.balance - u /\ Withdraw(p, n).shares = p.shares - n
      /\ Withdraw(p, n) \in Pools
  BY <1>0, <1>1 DEF Withdraw, Pools
<1>. HIDE DEF u
<1>5. Withdraw(p, n).shares = 0 => Withdraw(p, n).balance = 0
  <2>1. p.balance \in Nat /\ p.shares \in Nat
    BY <1>0
  <2>2. p.shares - n = 0 => n = p.shares
    BY <2>1
  <2>3. p.shares - n = 0 => p.balance - u = 0
    BY <1>2, <2>1, <2>2
  <2>. QED
    BY <1>4, <2>3
<1>. QED
  BY <1>0, <1>1, <1>3, <1>4, <1>5 DEF NotDiluted, Sound, u

-----------------------------------------------------------------------------
LedgerAssumption == IsFiniteSet(Delegators) /\ Funds \in Nat /\ MaxEpoch \in Nat

SharesOf(f) == [d \in Delegators |-> TotalOf(f[d])]
Debondings == [Delegators -> [Ends -> Nat]]

LEMMA DebondingChanges ==
  ASSUME SetFacts, LedgerAssumption, NEW f \in Debondings, NEW d \in Delegators, NEW e \in Ends, NEW n \in Nat
  PROVE  /\ TotalOf(SharesOf(f)) \in Nat /\ f[d][e] <= TotalOf(SharesOf(f))
         /\ [f EXCEPT ![d][e] = n] \in Debondings
         /\ TotalOf(SharesOf([f EXCEPT ![d][e] = n])) = TotalOf(SharesOf(f)) - f[d][e] + n
<1> DEFINE g == [f EXCEPT ![d][e] = n]
           h == [f[d] EXCEPT ![e] = n]
<1>1. IsFiniteSet(Ends) /\ IsFiniteSet(Delegators)
  BY IntervalIsFinite DEF LedgerAssumption, Ends
<1>2. f[d] \in [Ends -> Nat] /\ h \in [Ends -> Nat] /\ f[d][e] \in Nat
  BY DEF Debondings
<1>3. TotalOf(f[d]) \in Nat /\ f[d][e] <= TotalOf(f[d]) /\ TotalOf(h) = TotalOf(f[d]) - f[d][e] + n
  BY <1>1, <1>2, TotalChanges
<1>4. SharesOf(f) \in [Delegators -> Nat]
  <2>1. \A c \in Delegators : f[c] \in [Ends -> Nat]
    BY DEF Debondings
  <2>2. \A c \in Delegators : TotalOf(f[c]) \in Nat
    BY <1>1, <2>1, TotalIsNat, Zenon
  <2>. QED
    BY <2>2 DEF SharesOf
<1>5. TotalOf(h) \in Nat
  BY <1>1, <1>2, TotalIsNat
<1>6. SharesOf(g) = [SharesOf(f) EXCEPT ![d] = TotalOf(h)]
  <2>1. g[d] = h /\ \A c \in Delegators \ {d} : g[c] = f[c]
    BY DEF Debondings
  <2> HIDE DEF g, h
  <2>. QED
    BY <2>1, ZenonT(40) DEF SharesOf
<1>7. /\ TotalOf(SharesOf(f)) \in Nat /\ SharesOf(f)[d] <= TotalOf(SharesOf(f))
      /\ TotalOf(SharesOf(g)) = TotalOf(SharesOf(f)) - SharesOf(f)[d] + TotalOf(h)
  <2> DEFINE F == SharesOf(f)
             k == TotalOf(h)
  <2>1. F \in [Delegators -> Nat] /\ k \in Nat
    BY <1>4, <1>5
  <2> HIDE DEF F, k
  <2>2. /\ TotalOf(F) \in Nat /\ F[d] <= TotalOf(F)
        /\ TotalOf([F EXCEPT ![d] = k]) = TotalOf(F) - F[d] + k
    BY <1>1, <2>1, TotalChanges, ZenonT(40)
  <2>. QED
    BY <1>6, <2>2 DEF F, k
<1>8. SharesOf(f)[d] = TotalOf(f[d])
  BY DEF SharesOf
<1>9. g \in Debondings
  BY DEF Debondings
<1> HIDE DEF g, h
<1>. QED
  BY <1>2, <1>3, <1>5, <1>7, <1>8, <1>9 DEF g

(* The inductive invariant of the ledger.  A pool without shares is empty, so  *)
(* that the first deposit starts afresh; and the pools have exactly the shares *)
(* of the delegations, so that nobody can take out more than is there.         *)
LedgerTyped ==
    /\ ledgerEpoch \in Nat /\ general \in [Delegators -> Nat] /\ common \in Nat
    /\ delegations \in [Delegators -> Nat] /\ debonds \in Debondings
LedgerInv ==
    /\ LedgerTyped
    /\ Sound(active) /\ active.shares = TotalOf(delegations)
    /\ Sound(debonding) /\ debonding.shares = TotalOf(SharesOf(debonds))
    /\ SanityCheckAccount + common = TotalSupply

LEMMA LedgerInitially == ASSUME SetFacts, LedgerAssumption PROVE InitLedger => LedgerInv
<1> SUFFICES ASSUME InitLedger PROVE LedgerInv
  OBVIOUS
<1>1. LedgerTyped
  BY DEF InitLedger, LedgerTyped, LedgerAssumption, Debondings
<1>2. Sound(active) /\ Sound(debonding) /\ active.shares = 0 /\ debonding.shares = 0
      /\ active.balance = 0 /\ debonding.balance = 0
  BY DEF InitLedger, EmptyPool, Sound, Pools
<1>3. IsFiniteSet(Ends) /\ IsFiniteSet(Delegators) /\ Cardinality(Delegators) \in Nat
  BY IntervalIsFinite, CardinalityIsNat DEF LedgerAssumption, Ends
<1>4. TotalOf(delegations) = 0
  BY TotalZero DEF InitLedger
<1>5. TotalOf(SharesOf(debonds)) = 0
  <2>1. TotalOf([e \in Ends |-> 0]) = 0
    BY TotalZero
  <2>2. SharesOf(debonds) = [d \in Delegators |-> 0]
    BY <2>1 DEF InitLedger, SharesOf
  <2>. QED
    BY <2>2, TotalZero
<1>6. TotalOf(general) = Cardinality(Delegators) * Funds
  BY <1>3, TotalConstant, ZenonT(40) DEF InitLedger, LedgerAssumption
<1>7. SanityCheckAccount + common = TotalSupply
  <2>1. common = Funds /\ Funds \in Nat
    BY DEF InitLedger, LedgerAssumption
  <2>2. Cardinality(Delegators) * Funds + 0 + 0 + Funds = Funds * (Cardinality(Delegators) + 1)
    BY <1>3, <2>1, Z3
  <2>. QED
    BY <1>2, <1>6, <2>1, <2>2 DEF SanityCheckAccount, TotalSupply
<1>. QED
  BY <1>1, <1>2, <1>4, <1>5, <1>7 DEF LedgerInv

(* The step of ShareValueKept.                                                 *)
ValueKept ==
    \/ common' > common
    \/ NotDiluted(active, active') /\ NotDiluted(debonding, debonding')

LEMMA SameIsKept == ASSUME NEW p, Sound(p) PROVE NotDiluted(p, p)
<1>1. p.balance \in Nat /\ p.shares \in Nat
  BY DEF Sound, Pools
<1>. QED
  BY <1>1, Z3 DEF NotDiluted

LEMMA LedgerFacts ==
  ASSUME SetFacts, LedgerAssumption, LedgerInv
  PROVE  /\ active.balance \in Nat /\ active.shares \in Nat
         /\ debonding.balance \in Nat /\ debonding.shares \in Nat
         /\ TotalOf(general) \in Nat /\ common \in Nat
         /\ TotalOf(general) + active.balance + debonding.balance + common = TotalSupply
<1>1. TotalOf(general) \in Nat
  BY TotalIsNat, Zenon DEF LedgerAssumption, LedgerInv, LedgerTyped
<1>. QED
  BY <1>1 DEF LedgerInv, LedgerTyped, Sound, Pools, SanityCheckAccount

LEMMA EscrowStep ==
  ASSUME SetFacts, LedgerAssumption, LedgerInv, NEW d \in Delegators, NEW amount \in 1 .. general[d], Escrow(d, amount)
  PROVE  LedgerInv' /\ ValueKept
<1> DEFINE n == SharesForStake(active, amount)
<1>1. /\ general[d] \in Nat /\ delegations[d] \in Nat /\ amount \in Nat /\ amount <= general[d]
      /\ general \in [Delegators -> Nat] /\ delegations \in [Delegators -> Nat]
  BY DEF LedgerInv, LedgerTyped
<1>2. Sound(active') /\ n \in Nat /\ NotDiluted(active, active')
  BY <1>1, DepositsAreSound, Zenon DEF Escrow, LedgerInv
<1>3. active'.balance = active.balance + amount /\ active'.shares = active.shares + n
  BY DEF Escrow, Deposit
<1>4. /\ delegations' = [delegations EXCEPT ![d] = delegations[d] + n]
      /\ general' = [general EXCEPT ![d] = general[d] - amount]
      /\ debonding' = debonding /\ debonds' = debonds /\ common' = common /\ ledgerEpoch' = ledgerEpoch
  BY DEF Escrow
<1> HIDE DEF n
<1>5. delegations[d] + n \in Nat /\ general[d] - amount \in Nat
  BY <1>1, <1>2
<1>6. LedgerTyped'
  BY <1>1, <1>4, <1>5 DEF LedgerInv, LedgerTyped
<1>7. TotalOf(delegations') = TotalOf(delegations) - delegations[d] + (delegations[d] + n) /\ TotalOf(delegations) \in Nat
  BY <1>1, <1>4, <1>5, TotalChanges, ZenonT(40) DEF LedgerAssumption
<1>8. TotalOf(general') = TotalOf(general) - general[d] + (general[d] - amount)
  BY <1>1, <1>4, <1>5, TotalChanges, ZenonT(40) DEF LedgerAssumption
<1>9. active'.shares = TotalOf(delegations')
  BY <1>1, <1>2, <1>3, <1>7 DEF LedgerInv
<1>10. (SanityCheckAccount + common = TotalSupply)'
  BY <1>1, <1>3, <1>4, <1>8, LedgerFacts DEF SanityCheckAccount, TotalSupply
<1>11. Sound(debonding') /\ debonding'.shares = TotalOf(SharesOf(debonds)') /\ NotDiluted(debonding, debonding')
  BY <1>4, SameIsKept, Zenon DEF LedgerInv, SharesOf
<1>. QED
  BY <1>2, <1>6, <1>9, <1>10, <1>11, Zenon DEF LedgerInv, ValueKept

LEMMA ReclaimStep ==
  ASSUME SetFacts, LedgerAssumption, LedgerInv, NEW d \in Delegators, NEW n \in 1 .. delegations[d], Reclaim(d, n)
  PROVE  LedgerInv' /\ ValueKept
<1> DEFINE units == StakeForShares(active, n)
           m == SharesForStake(debonding, units)
           end == ledgerEpoch + 1
<1>1. /\ delegations[d] \in Nat /\ n \in Nat /\ n <= delegations[d] /\ ledgerEpoch \in Nat
      /\ delegations \in [Delegators -> Nat] /\ debonds \in Debondings
  BY DEF LedgerInv, LedgerTyped
<1>2. TotalOf(delegations) \in Nat /\ delegations[d] <= TotalOf(delegations)
  BY <1>1, TotalChanges DEF LedgerAssumption
<1>3. n <= active.shares
  BY <1>1, <1>2 DEF LedgerInv
<1>4. Sound(active') /\ units \in Nat /\ units <= active.balance /\ NotDiluted(active, active')
  BY <1>1, <1>3, WithdrawalsAreSound, Zenon DEF Reclaim, LedgerInv
<1>5. Sound(debonding') /\ m \in Nat /\ NotDiluted(debonding, debonding')
  <2>1. Depositable(debonding) /\ debonding' = Deposit(debonding, units) /\ Sound(debonding)
    BY Zenon DEF Reclaim, LedgerInv
  <2> HIDE DEF units
  <2>. QED
    BY <1>4, <2>1, DepositsAreSound, Zenon
<1>6. /\ active'.balance = active.balance - units /\ active'.shares = active.shares - n
      /\ debonding'.balance = debonding.balance + units /\ debonding'.shares = debonding.shares + m
  BY DEF Reclaim, Withdraw, Deposit
<1>7. /\ delegations' = [delegations EXCEPT ![d] = delegations[d] - n]
      /\ debonds' = [debonds EXCEPT ![d][end] = debonds[d][end] + m]
      /\ general' = general /\ common' = common /\ ledgerEpoch' = ledgerEpoch
  BY DEF Reclaim, Merge
<1>8. end \in Ends
  BY <1>1 DEF Reclaim, Ends, LedgerAssumption
<1> HIDE DEF units, m, end
<1>9. delegations[d] - n \in Nat /\ debonds[d][end] \in Nat /\ debonds[d][end] + m \in Nat
  BY <1>1, <1>5, <1>8 DEF Debondings
<1>10. /\ TotalOf(SharesOf(debonds)) \in Nat /\ debonds' \in Debondings
       /\ TotalOf(SharesOf(debonds')) = TotalOf(SharesOf(debonds)) - debonds[d][end] + (debonds[d][end] + m)
  BY <1>1, <1>7, <1>8, <1>9, DebondingChanges, ZenonT(40)
<1>11. LedgerTyped'
  BY <1>1, <1>7, <1>9, <1>10 DEF LedgerInv, LedgerTyped
<1>12. TotalOf(delegations') = TotalOf(delegations) - delegations[d] + (delegations[d] - n)
  BY <1>1, <1>7, <1>9, TotalChanges, ZenonT(90) DEF LedgerAssumption
<1>13. active'.shares = TotalOf(delegations')
  BY <1>1, <1>2, <1>6, <1>12 DEF LedgerInv
<1>14. debonding'.shares = TotalOf(SharesOf(debonds'))
  BY <1>5, <1>6, <1>9, <1>10 DEF LedgerInv
<1>15. (SanityCheckAccount + common = TotalSupply)'
  BY <1>4, <1>6, <1>7, LedgerFacts DEF SanityCheckAccount, TotalSupply
<1>. QED
  BY <1>4, <1>5, <1>11, <1>13, <1>14, <1>15, Zenon DEF LedgerInv, ValueKept, SharesOf

LEMMA DebondStep ==
  ASSUME SetFacts, LedgerAssumption, LedgerInv, NEW d \in Delegators, Debond(d)
  PROVE  LedgerInv' /\ ValueKept
<1> DEFINE n == debonds[d][ledgerEpoch]
           units == StakeForShares(debonding, n)
<1>1. /\ ledgerEpoch \in Ends /\ debonds \in Debondings /\ n \in Nat
      /\ general \in [Delegators -> Nat] /\ general[d] \in Nat
  BY Zenon DEF LedgerInv, LedgerTyped, Debond, Debondings
<1>2. /\ debonding' = Withdraw(debonding, n) /\ general' = [general EXCEPT ![d] = general[d] + units]
      /\ debonds' = [debonds EXCEPT ![d][ledgerEpoch] = 0]
      /\ active' = active /\ delegations' = delegations /\ common' = common /\ ledgerEpoch' = ledgerEpoch
  BY DEF Debond
<1>3. /\ TotalOf(SharesOf(debonds)) \in Nat /\ n <= TotalOf(SharesOf(debonds)) /\ debonds' \in Debondings
      /\ TotalOf(SharesOf(debonds')) = TotalOf(SharesOf(debonds)) - n + 0
  BY <1>1, <1>2, DebondingChanges, ZenonT(40)
<1> HIDE DEF n
<1>4. n <= debonding.shares
  BY <1>3 DEF LedgerInv
<1>5. Sound(debonding') /\ units \in Nat /\ units <= debonding.balance /\ NotDiluted(debonding, debonding')
  BY <1>1, <1>2, <1>4, WithdrawalsAreSound, Zenon DEF LedgerInv
<1>6. debonding'.balance = debonding.balance - units /\ debonding'.shares = debonding.shares - n
  BY <1>2 DEF Withdraw
<1> HIDE DEF units
<1>7. general[d] + units \in Nat
  BY <1>1, <1>5
<1>8. LedgerTyped'
  BY <1>1, <1>2, <1>3, <1>7 DEF LedgerInv, LedgerTyped
<1>9. TotalOf(general') = TotalOf(general) - general[d] + (general[d] + units)
  BY <1>1, <1>2, <1>7, TotalChanges, ZenonT(40) DEF LedgerAssumption
<1>10. debonding'.shares = TotalOf(SharesOf(debonds'))
  BY <1>1, <1>3, <1>6 DEF LedgerInv
<1>11. (SanityCheckAccount + common = TotalSupply)'
  BY <1>1, <1>2, <1>5, <1>6, <1>9, LedgerFacts DEF SanityCheckAccount, TotalSupply
<1>12. Sound(active') /\ active'.shares = TotalOf(delegations') /\ NotDiluted(active, active')
  BY <1>2, SameIsKept, Zenon DEF LedgerInv
<1>. QED
  BY <1>5, <1>8, <1>10, <1>11, <1>12, ZenonT(40) DEF LedgerInv, ValueKept, SharesOf

LEMMA RewardStep ==
  ASSUME SetFacts, LedgerAssumption, LedgerInv, NEW amount \in Nat, Reward(amount)
  PROVE  LedgerInv' /\ ValueKept
<1>1. /\ active' = [active EXCEPT !.balance = active.balance + amount] /\ active.shares > 0
      /\ common' = common - amount /\ amount <= common
      /\ general' = general /\ debonding' = debonding /\ delegations' = delegations
      /\ debonds' = debonds /\ ledgerEpoch' = ledgerEpoch
  BY DEF Reward
<1>2. /\ active.balance \in Nat /\ active.shares \in Nat /\ common \in Nat
      /\ active'.balance = active.balance + amount /\ active'.shares = active.shares /\ active' \in Pools
  BY <1>1 DEF LedgerInv, LedgerTyped, Sound, Pools
<1>3. Sound(active') /\ active'.shares = TotalOf(delegations')
  BY <1>1, <1>2 DEF Sound, LedgerInv
<1>4. NotDiluted(active, active')
  BY <1>2, Z3 DEF NotDiluted
<1>5. LedgerTyped'
  BY <1>1, <1>2 DEF LedgerInv, LedgerTyped
<1>6. (SanityCheckAccount + common = TotalSupply)'
  BY <1>1, <1>2, LedgerFacts DEF SanityCheckAccount, TotalSupply
<1>7. Sound(debonding') /\ debonding'.shares = TotalOf(SharesOf(debonds)') /\ NotDiluted(debonding, debonding')
  BY <1>1, SameIsKept, Zenon DEF LedgerInv, SharesOf
<1>. QED
  BY <1>3, <1>4, <1>5, <1>6, <1>7, Zenon DEF LedgerInv, ValueKept

LEMMA SlashStep ==
  ASSUME SetFacts, LedgerAssumption, LedgerInv, NEW amount \in Nat, amount > 0, Slash(amount)
  PROVE  LedgerInv' /\ ValueKept
<1> DEFINE total == active.balance + debonding.balance
           a == (active.balance * amount) \div total
           b == (debonding.balance * amount) \div total
<1>1. /\ amount <= total /\ active' = [active EXCEPT !.balance = active.balance - a]
      /\ debonding' = [debonding EXCEPT !.balance = debonding.balance - b]
      /\ common' = common + a + b
      /\ general' = general /\ delegations' = delegations /\ debonds' = debonds /\ ledgerEpoch' = ledgerEpoch
  BY DEF Slash
<1>2. /\ active.balance \in Nat /\ debonding.balance \in Nat /\ common \in Nat /\ TotalOf(general) \in Nat
      /\ TotalOf(general) + active.balance + debonding.balance + common = TotalSupply
  BY LedgerFacts
<1>3. total \in Nat /\ total > 0
  BY <1>1, <1>2
<1>4. a \in Nat /\ a <= active.balance /\ b \in Nat /\ b <= debonding.balance
  <2>1. active.balance * amount = amount * active.balance /\ debonding.balance * amount = amount * debonding.balance
    BY <1>2
  <2>2. amount * active.balance \in Nat /\ amount * debonding.balance \in Nat
    BY <1>2
  <2> HIDE DEF total
  <2>. QED
    BY <1>1, <1>2, <1>3, <2>1, <2>2, Quotient, PartQuotient, ZenonT(40)
<1> HIDE DEF a, b
<1>5. /\ active'.balance = active.balance - a /\ active'.shares = active.shares /\ active' \in Pools
      /\ debonding'.balance = debonding.balance - b /\ debonding'.shares = debonding.shares /\ debonding' \in Pools
      /\ active \in Pools /\ debonding \in Pools
  BY <1>1, <1>2, <1>4 DEF LedgerInv, Sound, Pools
<1>6. Sound(active') /\ Sound(debonding')
  BY <1>4, <1>5 DEF Sound, LedgerInv
<1>7. ValueKept
  <2>1. CASE a + b > 0
    BY <1>1, <1>2, <1>4, <2>1 DEF ValueKept
  <2>2. CASE a = 0 /\ b = 0
    <3>1. active' = active /\ debonding' = debonding
      BY <1>2, <1>5, <2>2 DEF Pools
    <3>. QED
      BY <3>1, SameIsKept, Zenon DEF ValueKept, LedgerInv
  <2>. QED
    BY <1>4, <2>1, <2>2
<1>8. LedgerTyped'
  BY <1>1, <1>2, <1>4 DEF LedgerInv, LedgerTyped
<1>9. (SanityCheckAccount + common = TotalSupply)'
  BY <1>1, <1>2, <1>4, <1>5 DEF SanityCheckAccount, TotalSupply
<1>10. active'.shares = TotalOf(delegations') /\ debonding'.shares = TotalOf(SharesOf(debonds)')
  BY <1>1, <1>5, Zenon DEF LedgerInv, SharesOf
<1>. QED
  BY <1>6, <1>7, <1>8, <1>9, <1>10, Zenon DEF LedgerInv

(* The other steps change no balance and no share.                             *)
LEMMA BalancesSame ==
  ASSUME LedgerAssumption, LedgerInv, ledgerEpoch' \in Nat,
         UNCHANGED <<general, common, active, debonding, delegations, debonds>>
  PROVE  LedgerInv' /\ ValueKept
<1>1. LedgerTyped'
  BY Zenon DEF LedgerInv, LedgerTyped
<1>2. (SanityCheckAccount + common = TotalSupply)'
  BY DEF LedgerInv, SanityCheckAccount, TotalSupply
<1>3. NotDiluted(active, active') /\ NotDiluted(debonding, debonding')
  BY SameIsKept, Zenon DEF LedgerInv
<1>4. /\ Sound(active') /\ active'.shares = TotalOf(delegations')
      /\ Sound(debonding') /\ debonding'.shares = TotalOf(SharesOf(debonds)')
  BY Zenon DEF LedgerInv, SharesOf
<1>. QED
  BY <1>1, <1>2, <1>3, <1>4, Zenon DEF LedgerInv, ValueKept

LEMMA LedgerSteps ==
  ASSUME SetFacts, LedgerAssumption, LedgerInv, [NextLedger]_svars
  PROVE  LedgerInv' /\ [ValueKept]_svars
<1>0. ledgerEpoch \in Nat
  BY DEF LedgerInv, LedgerTyped
<1>1. ASSUME NEW d \in Delegators, Takes(d) PROVE LedgerInv' /\ ValueKept
  BY <1>1, ReclaimStep DEF Takes
<1>2. ASSUME NEW d \in Delegators, Debond(d) PROVE LedgerInv' /\ ValueKept
  BY <1>2, DebondStep
<1>3. ASSUME NEW d \in Delegators, NEW amount \in 1 .. general[d], Escrow(d, amount) PROVE LedgerInv' /\ ValueKept
  BY <1>3, EscrowStep
<1>4. ASSUME NEW amount \in 1 .. MaxAmount, Reward(amount) PROVE LedgerInv' /\ ValueKept
  BY <1>4, RewardStep
<1>5. ASSUME NEW amount \in 1 .. MaxAmount, Slash(amount) PROVE LedgerInv' /\ ValueKept
  BY <1>5, SlashStep
<1>6. CASE LedgerEpoch
  BY <1>0, <1>6, BalancesSame DEF LedgerEpoch
<1>7. ASSUME NEW c, NEW ts, AddStakeClaim(c, ts) PROVE LedgerInv' /\ ValueKept
  BY <1>0, <1>7, BalancesSame, Zenon DEF AddStakeClaim
<1>8. ASSUME NEW c, RemoveStakeClaim(c) PROVE LedgerInv' /\ ValueKept
  BY <1>0, <1>8, BalancesSame, Zenon DEF RemoveStakeClaim
<1>9. CASE UNCHANGED svars
  BY <1>0, <1>9, BalancesSame, Zenon DEF svars
<1>. QED
  BY <1>1, <1>2, <1>3, <1>4, <1>5, <1>6, <1>7, <1>8, <1>9, Zenon DEF NextLedger

LEMMA InvIsAccepted == ASSUME SetFacts, LedgerAssumption, LedgerInv PROVE GenesisAccepted
<1>1. (\A d \in Delegators : delegations[d] = 0) => active.balance = 0
  <2> SUFFICES ASSUME \A d \in Delegators : delegations[d] = 0 PROVE active.balance = 0
    OBVIOUS
  <2>1. delegations = [d \in Delegators |-> 0]
    BY Zenon DEF LedgerInv, LedgerTyped
  <2>. QED
    BY <2>1, TotalZero DEF LedgerInv, Sound
<1>2. (\A d \in Delegators, e \in Ends : debonds[d][e] = 0) => debonding.balance = 0
  <2> SUFFICES ASSUME \A d \in Delegators, e \in Ends : debonds[d][e] = 0 PROVE debonding.balance = 0
    OBVIOUS
  <2>1. \A d \in Delegators : debonds[d] = [e \in Ends |-> 0]
    BY Zenon DEF LedgerInv, LedgerTyped, Debondings
  <2>2. SharesOf(debonds) = [d \in Delegators |-> 0]
    BY <2>1, TotalZero DEF SharesOf
  <2>. QED
    BY <2>2, TotalZero, Zenon DEF LedgerInv, Sound
<1>. QED
  BY <1>1, <1>2, Zenon DEF LedgerInv, GenesisAccepted, SanityCheck, SanityCheckDelegations,
     SanityCheckDebondingDelegations, SharesOf

LEMMA LedgerIsSaneIf == ASSUME SetFacts, LedgerAssumption PROVE LedgerSpec => []GenesisAccepted
<1>1. InitLedger => LedgerInv
  BY LedgerInitially
<1>2. LedgerInv /\ [NextLedger]_svars => LedgerInv'
  BY LedgerSteps
<1>3. LedgerInv => GenesisAccepted
  BY InvIsAccepted
<1>. QED
  BY <1>1, <1>2, <1>3, PTL DEF LedgerSpec

LEMMA SharesKeepValueIf == ASSUME SetFacts, LedgerAssumption PROVE LedgerSpec => ShareValueKept
<1>1. InitLedger => LedgerInv
  BY LedgerInitially
<1>2. LedgerInv /\ [NextLedger]_svars => LedgerInv' /\ [ValueKept]_svars
  BY LedgerSteps
<1>3. LedgerSpec => [][ValueKept]_svars
  BY <1>1, <1>2, PTL DEF LedgerSpec
<1>4. [ValueKept]_svars =>
        [\/ common' > common
         \/ /\ active'.shares > 0 => active'.balance * active.shares >= active.balance * active'.shares
            /\ debonding'.shares > 0 =>
                 debonding'.balance * debonding.shares >= debonding.balance * debonding'.shares]_svars
  BY DEF ValueKept, NotDiluted
<1>. QED
  BY <1>3, <1>4, PTL DEF ShareValueKept

-----------------------------------------------------------------------------
(* Vaults (go/vault/api/{policy,methods}.go).                                  *)
CONSTANTS Addresses, MaxAddresses, Actions, Initial, Amounts, MaxNonce, MaxHeight
VARIABLES height, vault, pending, address, executed, taken

INSTANCE Vault

WithdrawPolicies == [limit : Nat, interval : Nat]
VaultAssumption ==
    /\ MaxHeight \in Nat /\ Amounts \subseteq Nat /\ Initial.policy \in WithdrawPolicies
    /\ \A act \in Actions : act.kind = "policy" => act.policy \in WithdrawPolicies

(* The blocks of the interval that h belongs to.                               *)
Heights == 0 .. MaxHeight
BlocksOf(p, h) == {x \in Heights : Bucket(p, x) = Bucket(p, h)}

(* The inductive invariant: the account's amount is what was withdrawn in the  *)
(* current interval if its bucket is the current one, and nothing was if not.  *)
Used == IF address.bucket = Bucket(address.policy, height) THEN address.amount ELSE 0
VaultTyped ==
    /\ height \in Heights /\ taken \in [Heights -> Nat]
    /\ address \in [policy : WithdrawPolicies, bucket : Nat, amount : Nat]
VaultInv ==
    /\ VaultTyped
    /\ \A h \in Heights : h > height => taken[h] = 0
    /\ address.policy.interval > 0 =>
         /\ address.bucket <= Bucket(address.policy, height)
         /\ Withdrawn(taken, BlocksOf(address.policy, height)) = Used

LEMMA QuotientGrows == ASSUME NEW x \in Nat, NEW y \in Nat, NEW b \in Nat, b > 0, x <= y PROVE x \div b <= y \div b
BY Z3

LEMMA QuotientIsNat == ASSUME NEW a \in Nat, NEW b \in Nat, b > 0 PROVE a \div b \in Nat
BY Z3

LEMMA HeightsFinite == ASSUME SetFacts, VaultAssumption, NEW S \in SUBSET Heights PROVE IsFiniteSet(S)
<1>1. IsFiniteSet(Heights)
  BY IntervalIsFinite DEF VaultAssumption, Heights
<1>. QED
  BY <1>1, SubsetIsFinite, Zenon

LEMMA NothingWithdrawn == ASSUME SetFacts, NEW S, NEW t, \A h \in S : t[h] = 0 PROVE Withdrawn(t, S) = 0
<1>1. UNION {{h} \X (1 .. t[h]) : h \in S} = {}
  OBVIOUS
<1>. QED
  BY <1>1, EmptySetIsFinite, Zenon DEF Withdrawn

(* The units taken in a block come on top of the ones that were taken before.  *)
LEMMA MoreWithdrawn ==
  ASSUME SetFacts, VaultAssumption, NEW S \in SUBSET Heights, NEW t \in [Heights -> Nat], NEW h \in S, NEW n \in Nat
  PROVE  /\ Withdrawn(t, S) \in Nat
         /\ Withdrawn([t EXCEPT ![h] = t[h] + n], S) = Withdrawn(t, S) + n
<1> DEFINE u == [t EXCEPT ![h] = t[h] + n]
           Units(f, x) == {x} \X (1 .. f[x])
           T == {Units(t, x) : x \in S}
           A == UNION T
           B == {h} \X (t[h] + 1 .. t[h] + n)
<1>1. IsFiniteSet(T)
  <2>1. Onto([x \in S |-> Units(t, x)], S, T)
    BY ZenonT(40) DEF Onto
  <2>. QED
    BY <2>1, HeightsFinite, ImageIsFinite
<1>2. ASSUME NEW x \in S PROVE IsFiniteSet(Units(t, x))
  <2>0. t[x] \in Int /\ 1 \in Int
    OBVIOUS
  <2>1. IsFiniteSet(1 .. t[x]) /\ IsFiniteSet({x})
    BY <2>0, IntervalIsFinite, SingletonIsFinite, ZenonT(40)
  <2>. QED
    BY <2>1, ProductIsFinite, Zenon
<1>3. IsFiniteSet(A)
  BY <1>1, <1>2, UnionsAreFinite, ZenonT(40)
<1>4. IsFiniteSet(B) /\ Cardinality(B) = n
  <2> DEFINE a == t[h] + 1
             b == t[h] + n
  <2>1. a \in Int /\ b \in Int /\ (a > b => n = 0) /\ b - a + 1 = n
    OBVIOUS
  <2>2. IsFiniteSet(a .. b) /\ Cardinality(a .. b) = n
    <3> HIDE DEF a, b
    <3>. QED
      BY <2>1, IntervalIsFinite, Zenon
  <2>3. IsFiniteSet({h}) /\ Cardinality({h}) = 1
    BY SingletonIsFinite, Zenon
  <2>4. IsFiniteSet(B) /\ Cardinality(B) = 1 * n
    BY <2>2, <2>3, ProductIsFinite, SMTT(40)
  <2>. QED
    BY <2>4
<1>5. UNION {Units(u, x) : x \in S} = A \cup B
  <2>1. u[h] = t[h] + n /\ t[h] \in Nat /\ \A x \in S \ {h} : u[x] = t[x]
    BY Zenon
  <2>2. 1 .. u[h] = (1 .. t[h]) \cup (t[h] + 1 .. t[h] + n)
    BY <2>1
  <2>3. Units(u, h) = Units(t, h) \cup B /\ \A x \in S \ {h} : Units(u, x) = Units(t, x)
    BY <2>1, <2>2, Zenon
  <2> HIDE DEF Units, B, u
  <2>. QED
    BY <2>3, Zenon
<1>6. A \cap B = {}
  OBVIOUS
<1> HIDE DEF A, B
<1>7. Cardinality(A \cup B) = Cardinality(A) + Cardinality(B) - Cardinality({})
  BY <1>3, <1>4, <1>6, UnionIsFinite, Zenon
<1>8. Cardinality(A) \in Nat /\ Cardinality({}) = 0
  BY <1>3, CardinalityIsNat, EmptySetIsFinite, Zenon
<1>9. Withdrawn(t, S) = Cardinality(A) /\ Withdrawn(u, S) = Cardinality(A \cup B)
  BY <1>5, Zenon DEF Withdrawn, A
<1>. QED
  BY <1>4, <1>7, <1>8, <1>9

LEMMA VaultInitially == ASSUME SetFacts, VaultAssumption PROVE InitVault => VaultInv
<1> SUFFICES ASSUME InitVault PROVE VaultInv
  OBVIOUS
<1>1. /\ height = 0 /\ address = [policy |-> Initial.policy, bucket |-> 0, amount |-> 0]
      /\ taken = [h \in Heights |-> 0]
  BY Zenon DEF InitVault, Heights
<1>2. VaultTyped
  BY <1>1 DEF VaultTyped, VaultAssumption, Heights
<1>3. Withdrawn(taken, BlocksOf(address.policy, height)) = 0
  BY <1>1, NothingWithdrawn, Zenon DEF BlocksOf
<1>4. Used = 0
  BY <1>1, Zenon DEF Used
<1>5. address.policy.interval > 0 => address.bucket <= Bucket(address.policy, height)
  <2>1. address.policy.interval \in Nat /\ address.bucket = 0 /\ height \in Nat
    BY <1>1, Zenon DEF VaultAssumption, WithdrawPolicies
  <2>. QED
    BY <2>1, QuotientIsNat DEF Bucket
<1>. QED
  BY <1>1, <1>2, <1>3, <1>4, <1>5, Zenon DEF VaultInv

(* The step of WithdrawalLimited.                                              *)
Limited ==
    taken'[height] > taken[height] =>
        Withdrawn(taken', {h \in DOMAIN taken : Bucket(address.policy, h) = Bucket(address.policy, height)})
            <= address.policy.limit

LEMMA WithdrawalStep ==
  ASSUME SetFacts, VaultAssumption, VaultInv, NEW amount \in Amounts, AuthorizeWithdrawal(amount)
  PROVE  VaultInv' /\ Limited
<1> DEFINE p == address.policy
           S == BlocksOf(p, height)
<1>1. /\ amount \in Nat /\ p \in WithdrawPolicies /\ p.interval \in Nat /\ p.limit \in Nat /\ p.interval > 0
      /\ height \in Heights /\ height \in Nat /\ taken \in [Heights -> Nat] /\ address.amount \in Nat
  BY DEF VaultAssumption, VaultInv, VaultTyped, AuthorizeWithdrawal, IsDisabled, WithdrawPolicies, Heights
<1>2. /\ address' = [address EXCEPT !.bucket = Bucket(p, height), !.amount = Used + amount]
      /\ taken' = [taken EXCEPT ![height] = taken[height] + amount] /\ height' = height
      /\ Used + amount <= p.limit
  BY Zenon DEF AuthorizeWithdrawal, Used
<1>3. Used \in Nat /\ Bucket(p, height) \in Nat
  BY <1>1, QuotientIsNat DEF Used, Bucket
<1>4. address'.policy = p /\ address'.bucket = Bucket(p, height) /\ address'.amount = Used + amount
  BY <1>2, Zenon DEF VaultInv, VaultTyped
<1>5. Withdrawn(taken, S) = Used
  BY <1>1, Zenon DEF VaultInv
<1>6. S \in SUBSET Heights /\ height \in S
  BY <1>1 DEF BlocksOf
<1>7. Withdrawn(taken', S) = Used + amount
  BY <1>1, <1>2, <1>5, <1>6, MoreWithdrawn, ZenonT(40)
<1>8. S = {h \in DOMAIN taken : Bucket(p, h) = Bucket(p, height)}
  BY <1>1 DEF BlocksOf
<1>9. Limited
  BY <1>2, <1>7, <1>8, Zenon DEF Limited
<1>10. VaultTyped'
  <2>1. address' \in [policy : WithdrawPolicies, bucket : Nat, amount : Nat]
    <3> DEFINE b == Bucket(p, height)
               n == Used + amount
    <3>1. b \in Nat /\ n \in Nat /\ address' = [address EXCEPT !.bucket = b, !.amount = n]
      BY <1>1, <1>2, <1>3
    <3>2. address \in [policy : WithdrawPolicies, bucket : Nat, amount : Nat]
      BY DEF VaultInv, VaultTyped
    <3> HIDE DEF b, n
    <3>. QED
      BY <3>1, <3>2, ZenonT(40)
  <2>2. taken' \in [Heights -> Nat]
    BY <1>1, <1>2
  <2>. QED
    BY <1>1, <1>2, <2>1, <2>2, Zenon DEF VaultTyped, Heights
<1>11. \A h \in Heights : h > height' => taken'[h] = 0
  BY <1>1, <1>2 DEF VaultInv, Heights
<1>12. Used' = Used + amount
  BY <1>2, <1>4, Zenon DEF Used
<1>13. BlocksOf(p, height)' = S /\ Bucket(address.policy, height)' = Bucket(p, height)
  BY <1>2, <1>4 DEF BlocksOf, Bucket, Heights
<1>. QED
  BY <1>2, <1>3, <1>4, <1>7, <1>9, <1>10, <1>11, <1>12, <1>13 DEF VaultInv, BlocksOf, Bucket, Heights

LEMMA BlockStep == ASSUME SetFacts, VaultAssumption, VaultInv, NewBlock PROVE VaultInv' /\ Limited
<1> DEFINE p == address.policy
<1>1. /\ p.interval \in Nat /\ height \in Nat /\ height < MaxHeight /\ MaxHeight \in Nat
      /\ taken \in [Heights -> Nat] /\ address.bucket \in Nat /\ address.amount \in Nat
  BY DEF VaultAssumption, VaultInv, VaultTyped, WithdrawPolicies, Heights, NewBlock
<1>2. height' = height + 1 /\ address' = address /\ taken' = taken
  BY Zenon DEF NewBlock
<1>3. VaultTyped'
  BY <1>1, <1>2 DEF VaultInv, VaultTyped, Heights
<1>4. \A h \in Heights : h > height' => taken'[h] = 0
  BY <1>1, <1>2 DEF VaultInv, Heights
<1>5. taken'[height] = taken[height] /\ taken[height] \in Nat
  BY <1>1, <1>2 DEF Heights
<1>6. Limited
  BY <1>5 DEF Limited
<1>7. ASSUME p.interval > 0
      PROVE  /\ address.bucket <= Bucket(p, height + 1)
             /\ Withdrawn(taken, BlocksOf(p, height + 1)) =
                   IF address.bucket = Bucket(p, height + 1) THEN address.amount ELSE 0
  <2>1. /\ address.bucket <= Bucket(p, height) /\ Withdrawn(taken, BlocksOf(p, height)) = Used
    BY <1>7, Zenon DEF VaultInv
  <2>2. Bucket(p, height) \in Nat /\ Bucket(p, height + 1) \in Nat /\ Bucket(p, height) <= Bucket(p, height + 1)
    BY <1>1, <1>7, QuotientIsNat, QuotientGrows DEF Bucket
  <2>3. CASE Bucket(p, height) = Bucket(p, height + 1)
    BY <2>1, <2>3, Zenon DEF BlocksOf, Used
  <2>4. CASE Bucket(p, height) # Bucket(p, height + 1)
    <3>1. address.bucket < Bucket(p, height + 1)
      BY <1>1, <2>1, <2>2, <2>4
    <3>2. ASSUME NEW h \in BlocksOf(p, height + 1) PROVE taken[h] = 0
      <4>1. h \in Heights /\ h \in Nat /\ Bucket(p, h) = Bucket(p, height + 1)
        BY DEF BlocksOf, Heights
      <4>2. h <= height => Bucket(p, h) <= Bucket(p, height)
        BY <1>1, <1>7, <4>1, QuotientGrows, Zenon DEF Bucket
      <4>3. h > height
        BY <1>1, <2>2, <2>4, <4>1, <4>2
      <4>. QED
        BY <4>1, <4>3, Zenon DEF VaultInv
    <3>3. Withdrawn(taken, BlocksOf(p, height + 1)) = 0
      BY <3>2, NothingWithdrawn, Zenon
    <3>. QED
      BY <1>1, <2>2, <3>1, <3>3
  <2>. QED
    BY <2>3, <2>4, Zenon
<1>. QED
  BY <1>2, <1>3, <1>4, <1>6, <1>7, ZenonT(40) DEF VaultInv, Used, BlocksOf, Bucket, Heights

(* An executed policy change: accounting starts afresh with a new interval.    *)
LEMMA PolicyStep ==
  ASSUME SetFacts, VaultAssumption, VaultInv, height' = height, NEW policy \in WithdrawPolicies,
         address' = UpdateWithdrawPolicy(address, policy),
         taken' = IF policy.interval # address.policy.interval THEN [h \in DOMAIN taken |-> 0] ELSE taken
  PROVE  VaultInv' /\ Limited
<1>1. /\ height \in Nat /\ height \in Heights /\ taken \in [Heights -> Nat]
      /\ address \in [policy : WithdrawPolicies, bucket : Nat, amount : Nat]
      /\ policy.interval \in Nat
  BY DEF VaultInv, VaultTyped, Heights, WithdrawPolicies
<1>2. CASE policy.interval # address.policy.interval
  <2>1. taken' = [h \in Heights |-> 0] /\ address' = [policy |-> policy, bucket |-> 0, amount |-> 0]
    BY <1>1, <1>2, Zenon DEF UpdateWithdrawPolicy
  <2>2. VaultTyped'
    BY <1>1, <2>1 DEF VaultTyped, Heights
  <2>3. taken'[height] = 0 /\ taken[height] \in Nat
    BY <1>1, <2>1, Zenon
  <2>4. Limited
    BY <2>3 DEF Limited
  <2>5. Withdrawn(taken', BlocksOf(address'.policy, height')) = 0
    BY <2>1, NothingWithdrawn, Zenon DEF BlocksOf
  <2>6. policy.interval > 0 => 0 <= Bucket(policy, height)
    BY <1>1, QuotientIsNat DEF Bucket
  <2>7. Used' = 0
    BY <2>1 DEF Used
  <2>8. address'.policy = policy /\ address'.bucket = 0
    BY <2>1
  <2>9. \A h \in Heights : taken'[h] = 0
    BY <2>1
  <2>. QED
    BY <2>2, <2>4, <2>5, <2>6, <2>7, <2>8, <2>9, Zenon DEF VaultInv, BlocksOf, Bucket, Heights
<1>3. CASE policy.interval = address.policy.interval
  <2>1. taken' = taken /\ address' = [address EXCEPT !.policy = policy]
    BY <1>1, <1>3 DEF UpdateWithdrawPolicy
  <2>2. /\ address'.policy = policy /\ address'.bucket = address.bucket /\ address'.amount = address.amount
        /\ address' \in [policy : WithdrawPolicies, bucket : Nat, amount : Nat]
    BY <1>1, <2>1
  <2>3. VaultTyped'
    BY <1>1, <2>1, <2>2, Zenon DEF VaultTyped, Heights
  <2>4. \A h : Bucket(policy, h) = Bucket(address.policy, h)
    BY <1>3, Zenon DEF Bucket
  <2>5. Used' = Used
    BY <2>2, <2>4, Zenon DEF Used
  <2>6. BlocksOf(policy, height) = BlocksOf(address.policy, height)
    BY <2>4 DEF BlocksOf
  <2>7. taken'[height] = taken[height] /\ taken[height] \in Nat
    BY <1>1, <2>1, Zenon
  <2>8. Limited
    BY <2>7 DEF Limited
  <2>. QED
    BY <1>3, <2>1, <2>2, <2>3, <2>4, <2>5, <2>6, <2>8, Zenon DEF VaultInv, BlocksOf, Bucket, Heights
<1>. QED
  BY <1>2, <1>3, Zenon

LEMMA NothingTaken == ASSUME VaultAssumption, VaultInv, UNCHANGED <<height, address, taken>> PROVE VaultInv' /\ Limited
<1>1. height \in Heights /\ taken \in [Heights -> Nat]
  BY Zenon DEF VaultInv, VaultTyped
<1>2. Limited
  BY <1>1 DEF Limited
<1>3. VaultInv'
  BY Zenon DEF VaultInv, VaultTyped, Used, BlocksOf, Bucket, Heights
<1>. QED
  BY <1>2, <1>3, Zenon

LEMMA VaultSteps == ASSUME SetFacts, VaultAssumption, VaultInv, [NextVault]_vvars PROVE VaultInv' /\ [Limited]_vvars
<1>1. CASE NewBlock
  BY <1>1, BlockStep, Zenon
<1>2. ASSUME NEW amount \in Amounts, AuthorizeWithdrawal(amount) PROVE VaultInv' /\ Limited
  BY <1>2, WithdrawalStep
<1>3. ASSUME NEW addr \in Addresses, NEW n \in Nonces, NEW act \in Actions, AuthorizeAction(addr, n, act)
      PROVE  VaultInv' /\ Limited
  <2>0. height' = height
    BY <1>3 DEF AuthorizeAction
  <2>1. \/ UNCHANGED <<address, taken>>
        \/ /\ act.kind = "policy" /\ address' = UpdateWithdrawPolicy(address, act.policy)
           /\ taken' = IF act.policy.interval # address.policy.interval
                       THEN [h \in DOMAIN taken |-> 0] ELSE taken
    BY <1>3, Zenon DEF AuthorizeAction
  <2>2. CASE UNCHANGED <<address, taken>>
    BY <2>0, <2>2, NothingTaken, Zenon
  <2>3. CASE ~UNCHANGED <<address, taken>>
    <3>1. act.kind = "policy" => act.policy \in WithdrawPolicies
      BY Zenon DEF VaultAssumption
    <3>. QED
      BY <2>0, <2>1, <2>3, <3>1, PolicyStep, Zenon
  <2>. QED
    BY <2>2, <2>3, Zenon
<1>4. ASSUME NEW addr \in Addresses, NEW n \in Nonces, CancelAction(addr, n) PROVE VaultInv' /\ Limited
  BY <1>4, NothingTaken, Zenon DEF CancelAction
<1>5. CASE UNCHANGED vvars
  BY <1>5, NothingTaken DEF vvars
<1>. QED
  BY <1>1, <1>2, <1>3, <1>4, <1>5, Zenon DEF NextVault

LEMMA WithdrawalsStayLimitedIf == ASSUME SetFacts, VaultAssumption PROVE VaultSpec => WithdrawalLimited
<1>1. InitVault => VaultInv
  BY VaultInitially
<1>2. VaultInv /\ [NextVault]_vvars => VaultInv' /\ [Limited]_vvars
  BY VaultSteps
<1>3. VaultSpec => [][Limited]_vvars
  BY <1>1, <1>2, PTL DEF VaultSpec
<1>4. [Limited]_vvars =>
        [LET p == address.policy
             spent == Withdrawn(taken', {h \in DOMAIN taken : Bucket(p, h) = Bucket(p, height)})
         IN taken'[height] > taken[height] => spent <= p.limit]_vvars
  BY DEF Limited
<1>. QED
  BY <1>3, <1>4, PTL DEF WithdrawalLimited

-----------------------------------------------------------------------------
(* The facts hold, and with them the theorems of the parts above.               *)
INSTANCE FiniteSetTheorems

LEMMA SetFactsHold == SetFacts
<1>1. CardinalityFact
  BY FS_CardinalityType, ZenonT(40) DEF CardinalityFact
<1>2. EmptySetFact
  BY FS_EmptySet, ZenonT(40) DEF EmptySetFact
<1>3. SingletonFact
  BY FS_Singleton, ZenonT(40) DEF SingletonFact
<1>4. IntervalFact
  BY FS_Interval, ZenonT(40) DEF IntervalFact
<1>5. SubsetFact
  BY FS_Subset, ZenonT(40) DEF SubsetFact
<1>6. UnionFact
  BY FS_Union, ZenonT(40) DEF UnionFact
<1>7. DifferenceFact
  BY FS_Difference, ZenonT(40) DEF DifferenceFact
<1>8. ProductFact
  BY FS_Product, ZenonT(40) DEF ProductFact
<1>9. UnionsFact
  BY FS_UNION, ZenonT(40) DEF UnionsFact
<1>10. ImageFact
  <2>1. ASSUME NEW S, NEW T, NEW f, Onto(f, S, T) PROVE f \in Surjection(S, T)
    BY <2>1, Zenon DEF Onto, Surjection
  <2> QED BY <2>1, FS_Surjection, ZenonT(40) DEF ImageFact
<1> QED BY <1>1, <1>2, <1>3, <1>4, <1>5, <1>6, <1>7, <1>8, <1>9, <1>10, Zenon DEF SetFacts

\* With enough honest nodes a round is finalized only with a valid result,
\* for every committee, number of stragglers and behaviour of the others.
THEOREM FinalizedIsValid == Spec => []FinalizedValid
BY SetFactsHold, FinalizedIsValidIf, Zenon

(* However delegators deposit, reclaim and debond, are rewarded and slashed,   *)
(* and whatever is rounded on the way, the ledger passes the sanity checks of  *)
(* a genesis document (go/staking/api/sanity_check.go): for any finite number  *)
(* of delegators, any amounts and any number of epochs.                        *)
THEOREM LedgerIsSane == ASSUME LedgerAssumption PROVE LedgerSpec => []GenesisAccepted
BY SetFactsHold, LedgerIsSaneIf, Zenon

(* Only a penalty costs a delegator who does nothing: deposits and withdrawals *)
(* of others (SharePool.Deposit and Withdraw, which round against whoever      *)
(* moves) and rewards never lower what a share is worth.                       *)
THEOREM SharesKeepValue == ASSUME LedgerAssumption PROVE LedgerSpec => ShareValueKept
BY SetFactsHold, SharesKeepValueIf, Zenon

(* No withdrawal takes what left a vault in the blocks of one interval above   *)
(* the limit in force (AddressState.AuthorizeWithdrawal), however often the    *)
(* policy is updated in between: for any actions, amounts and heights.         *)
THEOREM WithdrawalsStayLimited == ASSUME VaultAssumption PROVE VaultSpec => WithdrawalLimited
BY SetFactsHold, WithdrawalsStayLimitedIf, Zenon
=============================================================================
