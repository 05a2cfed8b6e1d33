-------------------------------- MODULE Staking --------------------------------
(* A staking account.  First its escrow (go/staking/api/{api,sanity_check}.go): *)
(* the two share pools, the delegations that hold their shares, and the stake  *)
(* claims the balance has to cover (go/registry/api).  The transactions that   *)
(* call these operations belong to the consensus application: external.        *)
(* Then its commission schedule (go/staking/api/commission.go), which shares   *)
(* nothing with the escrow and has an initial state and steps of its own.      *)
EXTENDS Integers, Sequences, FiniteSetsExt

CONSTANTS
    Delegators,    \* accounts that delegate to the entity
    Funds,         \* initial balance of a delegator and of the common pool
    Nodes,         \* nodes the entity may register
    NodeRoles,     \* roles a node descriptor may ask for: sets of roles
    Thresholds,    \* global thresholds: kind -> amount
    MaxEpoch,      \* bound on epochs; debonding takes one
    MaxShares,     \* bound on the shares of a pool
    MaxAmount,     \* bound on rewards and penalties
    Amendments,             \* schedules that may be submitted: [rates, bounds]
    Interval, Lead,         \* RateChangeInterval, RateBoundLead
    MaxRates, MaxBounds,    \* MaxRateSteps, MaxBoundSteps
    MinRates,               \* values governance may give MinCommissionRate
    Unity,                  \* CommissionRateDenominator
    LastEpoch               \* bound on the epochs of a schedule

VARIABLES
    epoch,
    general,              \* delegator -> General.Balance
    common,               \* common pool: pays rewards and receives what is slashed
    active, debonding,    \* share pools: [balance, shares]
    delegations,          \* delegator -> shares of the active pool
    debonds,              \* delegator -> end of debonding -> shares of the debonding pool
    claims,               \* claim -> kind -> how often the claim lists the threshold
    now, minRate, schedule     \* the epoch, MinCommissionRate and the commission schedule

svars == <<epoch, general, common, active, debonding, delegations, debonds, claims>>
scheduleVars == <<now, minRate, schedule>>

EmptyPool == [balance |-> 0, shares |-> 0]
Ends == 1 .. MaxEpoch + 1
Entity == "entity"
Kinds == DOMAIN Thresholds
NoClaim == [k \in Kinds |-> 0]
TotalSupply == Funds * (Cardinality(Delegators) + 1)

-----------------------------------------------------------------------------
(* SharePool.                                                                  *)
Depositable(p) == p.shares = 0 \/ p.balance > 0
RoundedUp(p, amount) ==
    IF p.shares = 0 THEN amount ELSE (amount * p.shares + p.balance - 1) \div p.balance
SharesForStake(p, amount) == IF p.shares = 0 THEN amount ELSE (amount * p.shares) \div p.balance
StakeForShares(p, n) ==
    IF n = 0 \/ p.balance = 0 \/ p.shares = 0 THEN 0 ELSE (n * p.balance) \div p.shares

Deposit(p, amount) == [balance |-> p.balance + amount, shares |-> p.shares + SharesForStake(p, amount)]
RemainderLost(p, n) == [balance |-> p.balance - n, shares |-> p.shares - n]
Withdraw(p, n) == [balance |-> p.balance - StakeForShares(p, n), shares |-> p.shares - n]

-----------------------------------------------------------------------------
(* StakeAccumulator.                                                           *)
Value(ts) == MapThenSumSet(LAMBDA k : ts[k] * Thresholds[k], Kinds)
TotalClaims(exclude) == MapThenSumSet(LAMBDA c : Value(claims[c]), DOMAIN claims \ exclude)
CheckStakeClaims == active.balance >= TotalClaims({})

AddClaimUnchecked(c, ts) == [claims EXCEPT ![c] = ts]
RemoveClaim(c) == [claims EXCEPT ![c] = NoClaim]

(* StakeThresholdsForNode, for a node with one runtime.                        *)
ForNode(roles) == [k \in Kinds |-> IF k \in roles THEN 1 ELSE 0]
ForEntity == [k \in Kinds |-> IF k = Entity THEN 1 ELSE 0]

(* AddStakeClaim: an existing claim is replaced, so it is not counted twice.   *)
OnlyNew(c, ts) ==
    /\ active.balance >= Value(ts)
    /\ claims' = AddClaimUnchecked(c, ts)
    /\ UNCHANGED <<epoch, general, common, active, debonding, delegations, debonds>>

AddStakeClaim(c, ts) ==
    /\ active.balance >= TotalClaims({c}) + Value(ts)
    /\ claims' = AddClaimUnchecked(c, ts)
    /\ UNCHANGED <<epoch, general, common, active, debonding, delegations, debonds>>

RemoveStakeClaim(c) ==
    /\ claims[c] # NoClaim
    /\ claims' = RemoveClaim(c)
    /\ UNCHANGED <<epoch, general, common, active, debonding, delegations, debonds>>

-----------------------------------------------------------------------------
InitLedger ==
    /\ epoch = 0 /\ common = Funds /\ general = [d \in Delegators |-> Funds]
    /\ active = EmptyPool /\ debonding = EmptyPool
    /\ delegations = [d \in Delegators |-> 0]
    /\ debonds = [d \in Delegators |-> [e \in Ends |-> 0]]
    /\ claims = [c \in {Entity} \cup Nodes |-> NoClaim]

(* AddEscrow: a delegator deposits base units.                                 *)
Escrow(d, amount) ==
    /\ amount <= general[d] /\ Depositable(active)
    /\ active' = Deposit(active, amount)
    /\ active'.shares <= MaxShares
    /\ delegations' = [delegations EXCEPT ![d] = @ + SharesForStake(active, amount)]
    /\ general' = [general EXCEPT ![d] = @ - amount]
    /\ UNCHANGED <<epoch, common, debonding, debonds, claims>>

(* DebondingDelegation.Merge: delegations that end together become one.        *)
Merge(d, end, shares) == [debonds EXCEPT ![d][end] = @ + shares]

(* ReclaimEscrow: shares turn into base units that are deposited in the        *)
(* debonding pool.                                                             *)
Reclaim(d, n) ==
    LET units == StakeForShares(active, n)
    IN /\ n <= delegations[d] /\ Depositable(debonding) /\ epoch < MaxEpoch
       /\ active' = Withdraw(active, n)
       /\ delegations' = [delegations EXCEPT ![d] = @ - n]
       /\ debonding' = Deposit(debonding, units)
       /\ debonding'.shares <= MaxShares
       /\ debonds' = Merge(d, epoch + 1, SharesForStake(debonding, units))
       /\ UNCHANGED <<epoch, general, common, claims>>

(* The epoch in which debonding delegations end waits for all of them.         *)
Debond(d) ==
    LET n == debonds[d][epoch]
    IN /\ epoch \in Ends /\ n > 0
       /\ debonding' = Withdraw(debonding, n)
       /\ debonds' = [debonds EXCEPT ![d][epoch] = 0]
       /\ general' = [general EXCEPT ![d] = @ + StakeForShares(debonding, n)]
       /\ UNCHANGED <<epoch, common, active, delegations, claims>>

LedgerEpoch ==
    /\ epoch < MaxEpoch
    /\ epoch \in Ends => \A d \in Delegators : debonds[d][epoch] = 0
    /\ epoch' = epoch + 1
    /\ UNCHANGED <<general, common, active, debonding, delegations, debonds, claims>>

(* A reward raises the balance and not the shares; a penalty lowers both       *)
(* pools' balances in proportion.                                              *)
Reward(amount) ==
    /\ active.shares > 0 /\ amount <= common
    /\ active' = [active EXCEPT !.balance = @ + amount]
    /\ common' = common - amount
    /\ UNCHANGED <<epoch, general, debonding, delegations, debonds, claims>>

Slash(amount) ==
    LET total == active.balance + debonding.balance
        part(p) == (p.balance * amount) \div total
    IN /\ amount <= total
       /\ active' = [active EXCEPT !.balance = @ - part(active)]
       /\ debonding' = [debonding EXCEPT !.balance = @ - part(debonding)]
       /\ common' = common + part(active) + part(debonding)
       /\ UNCHANGED <<epoch, general, delegations, debonds, claims>>

Takes(d) == \E n \in 1 .. delegations[d] : Reclaim(d, n)

NextLedger ==
    \/ LedgerEpoch
    \/ \E d \in Delegators : Takes(d) \/ Debond(d) \/ \E amount \in 1 .. general[d] : Escrow(d, amount)
    \/ \E amount \in 1 .. MaxAmount : Reward(amount)
    \/ \E amount \in 1 .. MaxAmount : Slash(amount)
    \/ AddStakeClaim(Entity, ForEntity)
    \/ \E c \in Nodes, roles \in NodeRoles : AddStakeClaim(c, ForNode(roles))
    \/ \E c \in DOMAIN claims : RemoveStakeClaim(c)

LedgerSpec == InitLedger /\ [][NextLedger]_svars

-----------------------------------------------------------------------------
(* The sum of a function, as the number of units it gives out: a sum in a form *)
(* the theorems on cardinalities apply to.                                     *)
Held(f) == UNION {{x} \X (1 .. f[x]) : x \in DOMAIN f}
TotalOf(f) == Cardinality(Held(f))

(* The sanity checks of a genesis document, on the state it is exported from.  *)
SanityCheckAccount == TotalOf(general) + active.balance + debonding.balance
SanityCheckDelegations ==
    /\ active.shares = TotalOf(delegations)
    /\ (\A d \in Delegators : delegations[d] = 0) => active.balance = 0
SanityCheckDebondingDelegations ==
    /\ debonding.shares = TotalOf([d \in Delegators |-> TotalOf(debonds[d])])
    /\ (\A d \in Delegators, e \in Ends : debonds[d][e] = 0) => debonding.balance = 0
SanityCheck ==
    /\ SanityCheckAccount + common = TotalSupply
    /\ SanityCheckDelegations /\ SanityCheckDebondingDelegations

(* INVARIANT.  The ledger passes the sanity checks of a genesis document:      *)
(* balances add up to the supply, shares to those of the delegations, and a    *)
(* pool nobody holds a share of is empty, whatever was rounded on the way.     *)
GenesisAccepted == SanityCheck

(* ACTION PROPERTY.  Only a penalty costs a delegator who does nothing: no     *)
(* deposit or withdrawal of others lowers what their shares are worth.         *)
ShareValueKept ==
    [][\/ common' > common
       \/ /\ active'.shares > 0 => active'.balance * active.shares >= active.balance * active'.shares
          /\ debonding'.shares > 0 =>
               debonding'.balance * debonding.shares >= debonding.balance * debonding'.shares]_svars

(* ACTION PROPERTY.  Claims the active balance covers stay covered until stake *)
(* is slashed or reclaimed: no sequence of registrations overbooks it.         *)
NeverOverbooked ==
    [][CheckStakeClaims => CheckStakeClaims' \/ common' > common \/ \E d \in Delegators : delegations'[d] < delegations[d]]_svars

-----------------------------------------------------------------------------
(* Commission schedules: amendments splice steps into a schedule whose rate    *)
(* has to respect the bound in effect in every epoch, and bounds are announced *)
(* in advance.                                                                 *)

(* A rate step is [start, rate], a bound step [start, min, max].               *)
Empty == [rates |-> <<>>, bounds |-> <<>>]

-----------------------------------------------------------------------------
ValidateComplexity(cs) == Len(cs.rates) <= MaxRates /\ Len(cs.bounds) <= MaxBounds

Aligned(steps) ==
    /\ \A i \in 1 .. Len(steps) : steps[i].start % Interval = 0
    /\ \A i \in 2 .. Len(steps) : steps[i].start > steps[i - 1].start

ValidateNondegenerate(cs) ==
    /\ Aligned(cs.rates) /\ Aligned(cs.bounds)
    /\ \A i \in 1 .. Len(cs.rates) : cs.rates[i].rate \in minRate .. Unity
    /\ \A i \in 1 .. Len(cs.bounds) :
         LET b == cs.bounds[i] IN b.min \in minRate .. Unity /\ b.max \in b.min .. Unity

(* Bounds change at least Lead epochs ahead, unless there are none yet.        *)
AcceptableAnyTime(cs, initial) ==
    /\ cs.rates # <<>> => cs.rates[1].start > now
    /\ cs.bounds # <<>> => cs.bounds[1].start > now

ValidateAmendmentAcceptable(cs, initial) ==
    /\ cs.rates # <<>> => cs.rates[1].start > now
    /\ cs.bounds # <<>> => cs.bounds[1].start >= now + 1 + (IF initial THEN 0 ELSE Lead)

(* What has started but the latest is dropped; the rest is kept.               *)
PruneSteps(steps) ==
    LET started == {i \in 2 .. Len(steps) : \A j \in 2 .. i : steps[j].start <= now}
        first == IF started = {} THEN 1 ELSE CHOOSE i \in started : \A j \in started : j <= i
    IN SubSeq(steps, first, Len(steps))

Prune(cs) == [rates |-> PruneSteps(cs.rates), bounds |-> PruneSteps(cs.bounds)]

(* The steps an amendment covers are replaced by it.                           *)
Splice(steps, new) ==
    IF new = <<>> THEN steps
    ELSE SelectSeq(steps, LAMBDA s : s.start < new[1].start) \o new

Amend(cs, new) == [rates |-> Splice(cs.rates, new.rates), bounds |-> Splice(cs.bounds, new.bounds)]

(* The merge loop of validateWithinBound at rate step i and bound step j.      *)
WithinBound(cs) ==
    LET within[i \in 1 .. Len(cs.rates), j \in 1 .. Len(cs.bounds)] ==
          LET moreRates == i < Len(cs.rates)
              moreBounds == j < Len(cs.bounds)
              rateNext == moreRates /\ (moreBounds => cs.rates[i + 1].start <= cs.bounds[j + 1].start)
              boundNext == moreBounds /\ (moreRates => cs.bounds[j + 1].start <= cs.rates[i + 1].start)
          IN /\ cs.rates[i].rate \in cs.bounds[j].min .. cs.bounds[j].max
             /\ moreRates \/ moreBounds => within[IF rateNext THEN i + 1 ELSE i, IF boundNext THEN j + 1 ELSE j]
    IN within[1, 1]

(* Without the comparison of the two starts.                                   *)
UnsynchronizedBound(cs) ==
    cs = Empty \/ (cs.rates # <<>> /\ cs.bounds # <<>> /\ WithinBound(cs))

ValidateWithinBound(cs) ==
    \/ cs = Empty
    \/ /\ cs.rates # <<>> /\ cs.bounds # <<>>
       /\ cs.rates[1].start > now \/ cs.bounds[1].start > now => cs.rates[1].start = cs.bounds[1].start
       /\ WithinBound(cs)

(* Run on every account of a genesis document and in the sanity checks.        *)
PruneAndValidate(cs) ==
    /\ ValidateComplexity(cs)
    /\ ValidateNondegenerate(cs)
    /\ ValidateWithinBound(Prune(cs))

(* The latest started step, which is nil before the first one starts.          *)
Started(steps, e) == {i \in 1 .. Len(steps) : steps[i].start <= e}
InEffect(steps, e) == {steps[i] : i \in {x \in Started(steps, e) : \A y \in Started(steps, e) : y <= x}}
CurrentRate(cs, e) == {s.rate : s \in InEffect(cs.rates, e)}

-----------------------------------------------------------------------------
InitSchedule == now = 0 /\ minRate \in MinRates /\ schedule = Empty

(* An AmendCommissionSchedule transaction that AmendAndPruneAndValidate        *)
(* accepts; a rejected one leaves the account as it was.                       *)
AmendAndPruneAndValidate(new) ==
    LET amended == Amend(Prune(schedule), new)
    IN /\ ValidateComplexity(new) /\ ValidateNondegenerate(new)
       /\ ValidateAmendmentAcceptable(new, schedule.bounds = <<>>)
       /\ ValidateComplexity(amended) /\ ValidateWithinBound(amended)
       /\ schedule' = amended
       /\ UNCHANGED <<now, minRate>>

ScheduleEpoch == now < LastEpoch /\ now' = now + 1 /\ UNCHANGED <<minRate, schedule>>

(* ConsensusParameterChanges.Apply.                                            *)
ApplyMinRate(r) == r # minRate /\ minRate' = r /\ UNCHANGED <<now, schedule>>

NextSchedule == ScheduleEpoch \/ \E new \in Amendments : AmendAndPruneAndValidate(new)
NextScheduleWithChanges == NextSchedule \/ \E r \in MinRates : ApplyMinRate(r)
ScheduleSpec == InitSchedule /\ [][NextSchedule]_scheduleVars
ScheduleSpecWithChanges == InitSchedule /\ [][NextScheduleWithChanges]_scheduleVars

-----------------------------------------------------------------------------
(* INVARIANT.  From now on, in every epoch with a rate in effect there is a    *)
(* bound in effect and the rate lies within it: what the merge loop of         *)
(* validateWithinBound checks step by step, stated epoch by epoch.             *)
RateWithinBound ==
    \A e \in now .. LastEpoch + Lead + Interval : \A r \in CurrentRate(schedule, e) :
        \E b \in InEffect(schedule.bounds, e) : r \in b.min .. b.max

(* INVARIANT.  A schedule that was accepted passes the sanity checks of every  *)
(* later epoch: accounts in the state are accepted as a genesis document.      *)
ScheduleStaysValid == PruneAndValidate(schedule)

(* ACTION PROPERTY.  Delegators have notice: an amendment changes neither the  *)
(* rate of the current epoch nor a bound in effect in the next Lead epochs.    *)
BoundsAnnounced ==
    [][/\ CurrentRate(schedule', now) = CurrentRate(schedule, now) \/ now' # now
       /\ \A e \in now' .. now + Lead :
            InEffect(schedule.bounds, e) # {} => InEffect(schedule'.bounds, e) = InEffect(schedule.bounds, e)]_scheduleVars
=============================================================================
