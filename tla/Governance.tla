------------------------------ MODULE Governance ------------------------------
(* Governance proposals (go/governance/api/{api,proposal,sanity_check}.go):    *)
(* submission, votes, tallying at the closing epoch, and the pending upgrades  *)
(* that have to be recoverable from the proposals alone when the state is      *)
(* exported as a genesis document.  The consensus application that calls the   *)
(* API is external.                                                            *)
EXTENDS Naturals, FiniteSets, FiniteSetsExt

CONSTANTS
    Params,          \* parameter sets: [voting, minDiff, cancelDiff]
    StakeThreshold,  \* percentage of yes votes
    Stake,           \* voter -> escrowed stake
    MaxProposals, MaxEpoch   \* bounds

VARIABLES
    epoch, params,
    proposals,   \* id -> [state, content, created, closes, yes]
    pending,     \* ids of the proposals whose upgrade is pending
    deposits     \* the governance deposits of the staking ledger

gvars == <<epoch, params, proposals, pending, deposits>>

Ids == DOMAIN proposals
Voters == DOMAIN Stake
TotalStake == MapThenSumSet(LAMBDA v : Stake[v], Voters)
YesStake(p) == MapThenSumSet(LAMBDA v : Stake[v], p.yes)
Diff(a, b) == IF a < b THEN b - a ELSE a - b

(* ConsensusParameters.SanityCheck.                                            *)
SanityCheck(p) == p.voting < p.minDiff /\ p.voting < p.cancelDiff

(* CloseProposal: the percentage of yes votes of all voting power, rounded     *)
(* down, decides.                                                              *)
CloseProposal(p) ==
    IF p.yes # {} /\ (YesStake(p) * 100) \div TotalStake >= StakeThreshold
    THEN [p EXCEPT !.state = "passed"] ELSE [p EXCEPT !.state = "rejected"]

(* PendingUpgradesFromProposals: passed upgrades not in the past, without the  *)
(* ones that a passed proposal cancels.                                        *)
CancelledByAny(ps, e) ==
    {i \in DOMAIN ps : ps[i].state = "passed" /\ ps[i].content.kind = "upgrade" /\ ps[i].content.epoch >= e}
    \ {ps[j].content.target : j \in {x \in DOMAIN ps : ps[x].state # "active" /\ ps[x].content.kind = "cancel"}}

PendingUpgradesFromProposals(ps, e) ==
    {i \in DOMAIN ps : ps[i].state = "passed" /\ ps[i].content.kind = "upgrade" /\ ps[i].content.epoch >= e}
    \ {ps[j].content.target : j \in {x \in DOMAIN ps : ps[x].state = "passed" /\ ps[x].content.kind = "cancel"}}

SanityCheckProposals ==
    /\ \A i \in Ids : LET p == proposals[i] IN
         /\ p.created <= epoch
         /\ IF p.state = "active"
            THEN p.closes >= epoch /\ (p.content.kind = "upgrade" => p.content.epoch >= epoch)
            ELSE p.closes <= epoch
    /\ deposits = Cardinality({i \in Ids : proposals[i].state = "active"})

SanityCheckPendingUpgrades(ids) ==
    \A i, j \in ids : i # j => Diff(proposals[i].content.epoch, proposals[j].content.epoch) >= params.minDiff

(* Genesis.SanityCheck, of the state exported as a genesis document.           *)
GenesisSanityCheck ==
    /\ SanityCheck(params) /\ SanityCheckProposals
    /\ SanityCheckPendingUpgrades(PendingUpgradesFromProposals(proposals, epoch))

-----------------------------------------------------------------------------
Init ==
    /\ epoch = 1
    /\ params \in {p \in Params : SanityCheck(p)}
    /\ proposals = << >>
    /\ pending = {} /\ deposits = 0

(* What a proposal may ask for: ProposalContent.ValidateBasic admits exactly   *)
(* one kind, and the epochs keep their distance.                               *)
Contents ==
    [kind : {"upgrade"}, epoch : epoch + params.minDiff .. MaxEpoch]
    \cup [kind : {"cancel"}, target : {i \in pending : proposals[i].content.epoch >= epoch + params.cancelDiff}]
    \cup [kind : {"change"}, params : Params \ {params}]

SubmitProposal(c) ==
    /\ Cardinality(Ids) < MaxProposals
    /\ LET id == Cardinality(Ids) + 1
           p == [state |-> "active", content |-> c, created |-> epoch,
                 closes |-> epoch + params.voting, yes |-> {}]
       IN proposals' = [i \in Ids \cup {id} |-> IF i = id THEN p ELSE proposals[i]]
    /\ deposits' = deposits + 1
    /\ UNCHANGED <<epoch, params, pending>>

(* A vote for; a vote against or an abstention has no effect on the outcome.   *)
CastVote(v, i) ==
    /\ proposals[i].state = "active" /\ v \notin proposals[i].yes
    /\ proposals' = [proposals EXCEPT ![i].yes = @ \cup {v}]
    /\ UNCHANGED <<epoch, params, pending, deposits>>

(* Executing a passed proposal on [ps, pending, params]; it fails when another *)
(* upgrade is too close, or nothing is left to cancel, or the new parameters   *)
(* are not sane.                                                               *)
Execute(s, i) ==
    LET c == s.ps[i].content
        failed == [s EXCEPT !.ps[i].state = "failed"]
    IN CASE c.kind = "upgrade" ->
              IF \A j \in s.pending : Diff(s.ps[j].content.epoch, c.epoch) >= s.params.minDiff
              THEN [s EXCEPT !.pending = @ \cup {i}] ELSE failed
         [] c.kind = "cancel" ->
              IF c.target \in s.pending THEN [s EXCEPT !.pending = @ \ {c.target}] ELSE failed
         [] c.kind = "change" ->
              IF SanityCheck(c.params) THEN [s EXCEPT !.params = c.params] ELSE failed

(* An epoch transition: upgrades due in the last epoch are gone, and the       *)
(* proposals that close are tallied and executed in order.                     *)
Close(s, i) ==
    LET closed == [s EXCEPT !.ps[i] = CloseProposal(@)]
    IN IF closed.ps[i].state = "passed" THEN Execute(closed, i) ELSE closed

EpochTransition ==
    LET due == {i \in Ids : proposals[i].state = "active" /\ proposals[i].closes = epoch + 1}
        start == [ps |-> proposals, params |-> params,
                  pending |-> {i \in pending : proposals[i].content.epoch >= epoch + 1}]
        step[n \in 0 .. MaxProposals] ==
            IF n = 0 THEN start ELSE IF n \in due THEN Close(step[n - 1], n) ELSE step[n - 1]
        end == step[MaxProposals]
    IN /\ epoch < MaxEpoch
       /\ epoch' = epoch + 1
       /\ proposals' = end.ps /\ pending' = end.pending /\ params' = end.params
       /\ deposits' = deposits - Cardinality(due)

Next ==
    \/ EpochTransition
    \/ \E c \in Contents : SubmitProposal(c)
    \/ \E v \in Voters, i \in Ids : CastVote(v, i)

Spec == Init /\ [][Next]_gvars

-----------------------------------------------------------------------------
(* INVARIANT.  Genesis does not carry the pending upgrades: at any time those  *)
(* computed from the proposals are exactly the pending ones, the proposals and *)
(* upgrades pass the sanity checks, and no active proposal has been overtaken  *)
(* by the epoch of its own upgrade.                                            *)
PendingRecovered ==
    /\ PendingUpgradesFromProposals(proposals, epoch) = pending
    /\ GenesisSanityCheck
=============================================================================
