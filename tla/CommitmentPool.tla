---------------------------- MODULE CommitmentPool ----------------------------
(***************************************************************************)
(* The pool of executor commitments that decides one runtime round,         *)
(* go/roothash/api/commitment/pool.go and votes.go.                         *)
(*                                                                         *)
(* Pool.SchedulerCommitments is a map from ranks to SchedulerCommitment.    *)
(* It is a total function here: the code makes an entry together with its   *)
(* first vote, so a rank without votes is a rank without an entry.          *)
(***************************************************************************)
EXTENDS Committee, FiniteSets

CONSTANTS
  Round,              \* the round whose commitments are pooled
  MaxRank,            \* math.MaxUint64: no scheduler has committed yet
  AllowedStragglers,  \* rt.Executor.AllowedStragglers
  Hashes,             \* what ToVote can return for a successful commitment
  Messages,           \* lists of runtime messages
  NoMessages,         \* the empty list
  Emits,              \* Emits[h]: the messages that header h commits to
  Failure,            \* the nil vote of a commitment indicating failure
  NoVote, NoCommitment,
  Valid,              \* the hashes that a correct execution can produce
  Faulty              \* the nodes that may vote for anything

ASSUME PoolAssumption ==
  /\ Round \in Nat
  /\ MaxRank \in Nat /\ MaxRank >= Len(WorkerList)
  /\ AllowedStragglers \in Nat
  /\ Hashes # {} /\ Valid \subseteq Hashes
  /\ NoMessages \in Messages /\ Emits \in [Hashes -> Messages]
  /\ Failure \notin Hashes /\ NoVote \notin Hashes /\ Failure # NoVote

VARIABLES
  highestRank,  \* Pool.HighestRank
  votes,        \* votes[r][n]: SchedulerCommitments[r].Votes[n]
  commitment,   \* commitment[r]: SchedulerCommitments[r].Commitment
  discrepancy,  \* Pool.Discrepancy
  verdict       \* what the last ProcessCommitments call returned

vars == <<highestRank, votes, commitment, discrepancy, verdict>>

Votes == Hashes \union {Failure}

\* An executor commitment.  attested stands for the signature, the header
\* fields, the parent block and the RAK signature being right.
ExecutorCommitment ==
  [node : Nodes, scheduler : Nodes, vote : Votes, messages : Messages,
   attested : BOOLEAN]

ASSUME NoCommitmentAssumption == NoCommitment \notin ExecutorCommitment

Pending == {"none", "ErrStillWaiting", "ErrDiscrepancyDetected"}

Final == {"finalized", "ErrNoSchedulerCommitment", "ErrInsufficientVotes",
          "ErrBadSchedulerCommitment"}

\* Every variable has its type: the rank under consideration is that of a
\* worker or the initial maximum.
TypeOK ==
  /\ highestRank \in Ranks \union {MaxRank}
  /\ votes \in [Ranks -> [Nodes -> Votes \union {NoVote}]]
  /\ commitment \in [Ranks -> ExecutorCommitment \union {NoCommitment}]
  /\ discrepancy \in BOOLEAN
  /\ verdict \in Pending \union Final

NoVotes == [n \in Nodes |-> NoVote]

Init ==
  /\ highestRank = MaxRank
  /\ votes = [r \in Ranks |-> NoVotes]
  /\ commitment = [r \in Ranks |-> NoCommitment]
  /\ discrepancy = FALSE
  /\ verdict = "none"

----------------------------------------------------------------------------
(* VerifyExecutorCommitment: only the scheduler carries messages, exactly   *)
(* those its header commits to, and it may not vote for a failure.          *)

\* A commitment that indicates failure has no messages; what else a header
\* must or must not hold is part of attested.
ValidCommitment(ec) == ec.attested /\ (ec.vote = Failure => ec.messages = NoMessages)

\* Mutant: the scheduler's messages are not compared with its header.
MutVerify_Messages(ec) ==
  /\ ValidCommitment(ec)
  /\ ec.vote = Failure => ec.node # ec.scheduler
  /\ ec.node # ec.scheduler => ec.messages = NoMessages

VerifyExecutorCommitment(ec) ==
  /\ ValidCommitment(ec)
  /\ ec.vote = Failure => ec.node # ec.scheduler
  /\ ec.vote # Failure =>
       ec.messages = IF ec.node = ec.scheduler THEN Emits[ec.vote] ELSE NoMessages

----------------------------------------------------------------------------
(* AddVerifiedExecutorCommitment.                                           *)

\* Roles: any member before a discrepancy, only backup workers after it.
RoleAllowed(ec) ==
  IF discrepancy THEN IsBackupWorker(ec.node) ELSE IsMember(ec.node)

\* Mutant: a better rank is accepted during discrepancy resolution.
MutRankAllowed_Resolution(ec) ==
  /\ IsWorker(ec.scheduler)
  /\ SchedulerRank(Round, ec.scheduler) <= highestRank

\* The scheduler's rank may not be worse than the best committed one, and
\* may not differ from it during discrepancy resolution.
RankAllowed(ec) ==
  /\ IsWorker(ec.scheduler)
  /\ LET rank == SchedulerRank(Round, ec.scheduler)
     IN  /\ rank <= highestRank
         /\ discrepancy => rank = highestRank

\* Mutants of Takeover: the rank is off by one; anyone's vote takes over; a
\* second vote of a node replaces its first.
MutTakeover_OffByOne(ec) ==
  LET rank == SchedulerRank(Round, ec.scheduler)
      takes == rank < highestRank /\ ec.node = ec.scheduler
  IN  /\ highestRank' = IF takes THEN rank + 1 ELSE highestRank
      /\ votes' =
           [r \in Ranks |->
              IF takes /\ r > rank THEN NoVotes
              ELSE IF r = rank /\ votes[r][ec.node] = NoVote
                   THEN [votes[r] EXCEPT ![ec.node] = ec.vote]
                   ELSE votes[r]]
      /\ commitment' =
           [r \in Ranks |->
              IF takes /\ r > rank THEN NoCommitment
              ELSE IF r = rank /\ votes[r][ec.node] = NoVote /\ ec.node = ec.scheduler
                   THEN ec
                   ELSE commitment[r]]

MutTakeover_AnyVote(ec) ==
  LET rank == SchedulerRank(Round, ec.scheduler)
      takes == rank < highestRank
  IN  /\ highestRank' = IF takes THEN rank ELSE highestRank
      /\ votes' =
           [r \in Ranks |->
              IF takes /\ r > rank THEN NoVotes
              ELSE IF r = rank /\ votes[r][ec.node] = NoVote
                   THEN [votes[r] EXCEPT ![ec.node] = ec.vote]
                   ELSE votes[r]]
      /\ commitment' =
           [r \in Ranks |->
              IF takes /\ r > rank THEN NoCommitment
              ELSE IF r = rank /\ votes[r][ec.node] = NoVote /\ ec.node = ec.scheduler
                   THEN ec
                   ELSE commitment[r]]

MutTakeover_Replace(ec) ==
  LET rank == SchedulerRank(Round, ec.scheduler)
      takes == rank < highestRank /\ ec.node = ec.scheduler
  IN  /\ highestRank' = IF takes THEN rank ELSE highestRank
      /\ votes' =
           [r \in Ranks |->
              IF takes /\ r > rank THEN NoVotes
              ELSE IF r = rank
                   THEN [votes[r] EXCEPT ![ec.node] = ec.vote]
                   ELSE votes[r]]
      /\ commitment' =
           [r \in Ranks |->
              IF takes /\ r > rank THEN NoCommitment
              ELSE IF r = rank /\ votes[r][ec.node] = NoVote /\ ec.node = ec.scheduler
                   THEN ec
                   ELSE commitment[r]]

\* A scheduler's own commitment with a better rank takes over the pool and
\* drops the entries with worse ranks.
Takeover(ec) ==
  LET rank == SchedulerRank(Round, ec.scheduler)
      takes == rank < highestRank /\ ec.node = ec.scheduler
  IN  /\ highestRank' = IF takes THEN rank ELSE highestRank
      /\ votes' =
           [r \in Ranks |->
              IF takes /\ r > rank THEN NoVotes
              ELSE IF r = rank /\ votes[r][ec.node] = NoVote
                   THEN [votes[r] EXCEPT ![ec.node] = ec.vote]
                   ELSE votes[r]]
      /\ commitment' =
           [r \in Ranks |->
              IF takes /\ r > rank THEN NoCommitment
              ELSE IF r = rank /\ votes[r][ec.node] = NoVote /\ ec.node = ec.scheduler
                   THEN ec
                   ELSE commitment[r]]

\* Rejected commitments leave the pool as it is, so only accepted ones are
\* steps.  Honest nodes vote for what they computed, or for a failure.
AddVerifiedExecutorCommitment(ec) ==
  /\ verdict \in Pending
  /\ ec.node \notin Faulty => ec.vote \in Valid \union {Failure}
  /\ VerifyExecutorCommitment(ec)
  /\ RoleAllowed(ec)
  /\ RankAllowed(ec)
  /\ Takeover(ec)
  /\ UNCHANGED <<discrepancy, verdict>>

----------------------------------------------------------------------------
(* ProcessCommitments.  The loop over the members stops at the first vote   *)
(* that makes a discrepancy; its condition only grows along the loop, so it *)
(* is stated once for all the votes.                                        *)

\* The members whose votes count.
Voters == IF discrepancy THEN BackupWorkers ELSE Workers

HasEntry(r) == r \in Ranks /\ \E n \in Nodes : votes[r][n] # NoVote

\* What a node voted on the scheduler commitment with the highest rank.
VoteOf(n) == IF highestRank \in Ranks THEN votes[highestRank][n] ELSE NoVote

VotesFor(v) == {n \in Voters : VoteOf(n) = v}

Total == Cardinality(Voters)

Successes == {n \in Voters : VoteOf(n) \in Hashes}

\* More than one hash, or more failures than stragglers.
Split ==
  \/ \E m, n \in Successes : VoteOf(m) # VoteOf(n)
  \/ Cardinality(VotesFor(Failure)) > AllowedStragglers

\* Mutant: backup schedulers never reach a discrepancy.
MutDetection_NoTimeout(timeout) ==
  IF Split
  THEN IF highestRank > 0 THEN "ErrStillWaiting" ELSE "ErrDiscrepancyDetected"
  ELSE IF Total - AllowedStragglers - Cardinality(Successes) > 0
       THEN IF timeout THEN "ErrDiscrepancyDetected" ELSE "ErrStillWaiting"
       ELSE "finalized"

Detection(timeout) ==
  IF Split
  THEN IF highestRank > 0 /\ ~timeout
       THEN "ErrStillWaiting"    \* backup schedulers wait for the timeout
       ELSE "ErrDiscrepancyDetected"
  ELSE IF Total - AllowedStragglers - Cardinality(Successes) > 0
       THEN IF timeout THEN "ErrDiscrepancyDetected" ELSE "ErrStillWaiting"
       ELSE "finalized"

\* The hashes that the loop over the votes map can pick as the best one: its
\* iteration order is arbitrary, so every hash with the most votes is one.
Leaders ==
  {h \in Hashes : \A g \in Hashes : Cardinality(VotesFor(g)) <= Cardinality(VotesFor(h))}

\* Mutant: half of the votes are a majority.
MutRequired_Half == Total \div 2

Required == (Total \div 2) + 1

Remaining == Total - Cardinality(Successes) - Cardinality(VotesFor(Failure))

\* Mutant: the votes that just reach the majority count as insufficient.
MutResolution_Early(timeout, h) ==
  LET best == Cardinality(VotesFor(h))
  IN  IF best + Remaining <= Required THEN "ErrInsufficientVotes"
      ELSE IF best < Required
           THEN IF timeout THEN "ErrInsufficientVotes" ELSE "ErrStillWaiting"
           ELSE IF h # commitment[highestRank].vote THEN "ErrBadSchedulerCommitment"
                ELSE "finalized"

Resolution(timeout, h) ==
  LET best == Cardinality(VotesFor(h))
  IN  IF best + Remaining < Required THEN "ErrInsufficientVotes"
      ELSE IF best < Required
           THEN IF timeout THEN "ErrInsufficientVotes" ELSE "ErrStillWaiting"
           ELSE IF h # commitment[highestRank].vote THEN "ErrBadSchedulerCommitment"
                ELSE "finalized"

processCommitments(timeout, h) ==
  IF ~HasEntry(highestRank)
  THEN IF timeout THEN "ErrNoSchedulerCommitment" ELSE "ErrStillWaiting"
  ELSE IF discrepancy THEN Resolution(timeout, h) ELSE Detection(timeout)

ProcessCommitments(timeout) ==
  /\ verdict \in Pending
  /\ \E h \in Leaders : verdict' = processCommitments(timeout, h)
  /\ IF verdict' = "ErrDiscrepancyDetected"
     THEN /\ discrepancy' = TRUE
          /\ votes' = [r \in Ranks |-> IF r = highestRank THEN votes[r] ELSE NoVotes]
          /\ commitment' =
               [r \in Ranks |-> IF r = highestRank THEN commitment[r] ELSE NoCommitment]
     ELSE UNCHANGED <<discrepancy, votes, commitment>>
  /\ UNCHANGED highestRank

----------------------------------------------------------------------------
Add == \E ec \in ExecutorCommitment : AddVerifiedExecutorCommitment(ec)

Process == ProcessCommitments(FALSE)

\* The round timer of the consensus layer expired.
Timeout == ProcessCommitments(TRUE)

Next == Add \/ Process \/ Timeout

Spec == Init /\ [][Next]_vars

----------------------------------------------------------------------------
(* Properties.                                                              *)

\* The entry at HighestRank holds the commitment of the scheduler with that
\* rank, and the vote recorded for it.
SchedulerCommitted ==
  highestRank # MaxRank =>
    LET ec == commitment[highestRank]
    IN  /\ ec # NoCommitment
        /\ ec.node = ec.scheduler /\ ec.vote # Failure
        /\ IsWorker(ec.node) /\ SchedulerRank(Round, ec.node) = highestRank
        /\ votes[highestRank][ec.node] = ec.vote

\* Better-ranked entries still wait for their scheduler.
BetterRanksWait ==
  \A r \in Ranks : r < highestRank =>
    /\ commitment[r] = NoCommitment
    /\ \A w \in Workers : SchedulerRank(Round, w) = r => votes[r][w] = NoVote

\* Worse-ranked entries are gone, and so are all the others in a discrepancy.
OthersDropped ==
  \A r \in Ranks : r > highestRank \/ (discrepancy /\ r # highestRank) =>
    commitment[r] = NoCommitment /\ votes[r] = NoVotes

\* The shape of the pool that processCommitments relies on when it reads
\* sc.Commitment and sc.Votes at HighestRank: once a scheduler has committed,
\* the entry at HighestRank holds its commitment; a better-ranked entry is
\* still waiting for its scheduler, a worse-ranked one is gone, and during
\* discrepancy resolution there is no other entry.
PoolInv ==
  /\ SchedulerCommitted
  /\ BetterRanksWait
  /\ OthersDropped
  /\ discrepancy => highestRank # MaxRank

\* Fewer faulty workers than the votes needed for a unanimous round, and
\* fewer faulty backup workers than the majority that resolves a discrepancy.
HonestQuorums ==
  /\ Cardinality(Workers \intersect Faulty) < Cardinality(Workers) - AllowedStragglers
  /\ Cardinality(BackupWorkers \intersect Faulty) < (Cardinality(BackupWorkers) \div 2) + 1

\* A round is finalized only with a result that a correct execution produced,
\* both in discrepancy detection and in discrepancy resolution, whatever the
\* faulty nodes vote and whichever scheduler's commitment is considered.
FinalizedValid ==
  HonestQuorums /\ verdict = "finalized" => commitment[highestRank].vote \in Valid

\* The messages of the finalized commitment are those its header commits to,
\* although only the scheduler submitted them and the others voted by hash.
FinalizedMessages ==
  verdict = "finalized" =>
    LET ec == commitment[highestRank] IN ec.messages = Emits[ec.vote]

\* The verdict does not depend on the iteration order of the votes map, which
\* differs between the nodes that must all reach the same verdict.
Deterministic ==
  \A timeout \in BOOLEAN : \A g, h \in Leaders :
    processCommitments(timeout, g) = processCommitments(timeout, h)

\* A recorded vote is never changed.  It is only dropped, with all the entry,
\* when a better scheduler takes over or a discrepancy fixes another rank.
VotesStand ==
  [][\A r \in Ranks : \A n \in Nodes :
       votes[r][n] # NoVote /\ votes'[r][n] # votes[r][n]
         => /\ votes'[r] = NoVotes
            /\ r > highestRank' \/ (~discrepancy /\ discrepancy' /\ r # highestRank')]_vars

\* The scheduler under consideration only gets better, is fixed by a
\* discrepancy, and a discrepancy is never withdrawn.
RankImproves ==
  [][/\ highestRank' <= highestRank
     /\ discrepancy => discrepancy' /\ highestRank' = highestRank]_vars

\* Resolution ends as early as it can and never too early: a final verdict
\* reached before all the backup workers voted stands whatever the others
\* still vote.
ResolutionStable ==
  [][\A h \in Leaders :
       discrepancy /\ processCommitments(FALSE, h) \in Final
         => \A g \in Leaders' : processCommitments(FALSE, g)' = processCommitments(FALSE, h)]_vars

\* While the round timer keeps expiring the pool never waits forever: the
\* round is finalized or failed.
RoundDecided == <>(verdict \in Final)

\* The consensus layer re-arms the round timer while the round is open.
FairSpec == Spec /\ WF_vars(Timeout)
=============================================================================
