--------------------------- MODULE RegistryRuntimes ---------------------------
(* Runtime descriptors in the registry (go/registry/api/{api,runtime}.go): the *)
(* validity checks a descriptor passes when it is registered or updated, and   *)
(* the deployments it schedules as epochs pass.                                *)
EXTENDS Naturals, FiniteSets

CONSTANTS
    Computes, KeyManagers,   \* runtime identifiers without and with the key manager flag
    Descriptors,             \* descriptors that may be submitted
    MaxEpoch,                \* bound on epochs
    Limits                   \* values governance may give MaxRuntimeDeployments

VARIABLES
    now,       \* current epoch
    limit,     \* params.MaxRuntimeDeployments
    runtimes,  \* identifier -> registered descriptor or NoRuntime
    past       \* identifier -> deployments that have been active, with their epoch

rvars == <<now, limit, runtimes, past>>

Absent == "none"
NoRuntime == [kind |-> Absent]
NoDeployment == [version |-> 0]
Ids == Computes \cup KeyManagers
Epochs == 0 .. MaxEpoch

-----------------------------------------------------------------------------
(* A deployment is [version, from, tee]; a descriptor's deployments are a set. *)
ActiveDeployment(rt, e) ==
    LET due == {d \in rt.deployments : d.from <= e}
    IN IF due = {} THEN NoDeployment ELSE CHOOSE d \in due : \A x \in due : x.from <= d.from

(* The TEE constraints of a deployment match the hardware of the runtime.      *)
TEEMatches(rt, d) == d.tee = IF rt.tee = "sgx" THEN "enclaves" ELSE Absent

(* ValidateDeployments: sorted by version, validity must strictly increase.    *)
Increasing(ds) == \A d, x \in ds : d # x => d.version # x.version /\ (d.version < x.version <=> d.from < x.from)

ValidatePast(rt, e, max) ==
    /\ rt.deployments # {} /\ Increasing(rt.deployments)
    /\ Cardinality({d \in rt.deployments : d.from <= e}) <= 1

ValidateDeployments(rt, e, max) ==
    /\ rt.deployments # {}
    /\ Cardinality(rt.deployments) <= (IF max > 2 THEN max ELSE 2)
    /\ Increasing(rt.deployments)
    /\ \A d \in rt.deployments : TEEMatches(rt, d)
    /\ Cardinality({d \in rt.deployments : d.from > e}) <= 1

(* Runtime.ValidateBasic.                                                      *)
ValidateBasic(rt) ==
    /\ CASE rt.kind = "compute" -> rt.id \notin KeyManagers /\ rt.km # rt.id
         [] rt.kind = "keymanager" -> rt.id \in KeyManagers /\ rt.km = Absent /\ rt.tee = "sgx"
    /\ rt.deployments # {}

(* VerifyRuntime.                                                              *)
VerifyRuntime(rt, e, max) ==
    /\ ValidateBasic(rt)
    /\ ValidateDeployments(rt, e, max)
    /\ rt.governance = "runtime" => rt.kind = "compute"

(* VerifyRegisterComputeRuntimeArgs.                                           *)
VerifyCompute(rt) ==
    rt.km # Absent =>
        /\ rt.km \in Ids /\ runtimes[rt.km].kind = "keymanager"
        /\ rt.tee = "sgx"

(* VerifyRuntimeNew: no immediate deployment.                                  *)
VerifyRuntimeNew(rt) == ActiveDeployment(rt, now) = NoDeployment

(* VerifyRuntimeUpdate up to its deployments.                                  *)
SameIdentity(cur, new) ==
    /\ cur.id = new.id /\ cur.kind = new.kind
    /\ cur.km # Absent => new.km = cur.km
    /\ cur.governance # new.governance => cur.governance = "entity" /\ new.governance = "runtime"
    /\ new.governance = "runtime" => new.kind = "compute"

(* The deployments of VerifyRuntimeUpdate: what is due may not change, and     *)
(* what is new must lie in the future.                                         *)
ForgetfulUpdate(cur, new) ==
    /\ ValidateDeployments(new, now, limit)
    /\ \A d \in new.deployments \ cur.deployments : d.from > now

DeploymentsUpdate(cur, new) ==
    /\ ValidateDeployments(new, now, limit)
    /\ \A d \in new.deployments \ cur.deployments : d.from > now
    /\ ActiveDeployment(new, now) = ActiveDeployment(cur, now)

VerifyRuntimeUpdate(cur, new) == SameIdentity(cur, new) /\ DeploymentsUpdate(cur, new)

-----------------------------------------------------------------------------
(* The state of the consensus application that calls these checks.             *)
Due(rts, e) == [i \in Ids |->
    IF rts[i] = NoRuntime \/ ActiveDeployment(rts[i], e) = NoDeployment THEN {}
    ELSE {<<e, ActiveDeployment(rts[i], e)>>}]

InitRuntimes ==
    /\ now = 1
    /\ limit \in Limits
    /\ runtimes = [i \in Ids |-> NoRuntime]
    /\ past = [i \in Ids |-> {}]

(* An accepted RegisterRuntime transaction.                                    *)
RegisterRuntime(rt) ==
    /\ VerifyRuntime(rt, now, limit)
    /\ rt.kind = "compute" => VerifyCompute(rt)
    /\ IF runtimes[rt.id] = NoRuntime THEN VerifyRuntimeNew(rt)
       ELSE VerifyRuntimeUpdate(runtimes[rt.id], rt)
    /\ runtimes' = [runtimes EXCEPT ![rt.id] = rt]
    /\ past' = [past EXCEPT ![rt.id] = @ \cup Due(runtimes', now)[rt.id]]
    /\ UNCHANGED <<now, limit>>

RuntimesEpoch ==
    /\ now < MaxEpoch
    /\ now' = now + 1
    /\ past' = [i \in Ids |-> past[i] \cup Due(runtimes, now')[i]]
    /\ UNCHANGED <<limit, runtimes>>

(* ConsensusParameterChanges.Apply of an accepted proposal.                    *)
Apply(max) ==
    /\ limit' = max
    /\ limit' # limit
    /\ UNCHANGED <<now, runtimes, past>>

NextRuntimes == RuntimesEpoch \/ \E rt \in Descriptors : RegisterRuntime(rt)
NextWithChanges == NextRuntimes \/ \E max \in Limits : Apply(max)

RuntimesSpec == InitRuntimes /\ [][NextRuntimes]_rvars
SpecWithChanges == InitRuntimes /\ [][NextWithChanges]_rvars

-----------------------------------------------------------------------------
(* INVARIANT.  The deployments in the state are valid whenever an update looks *)
(* at them: VerifyRuntimeUpdate panics otherwise ("this should NEVER happen"). *)
NeverMalformed ==
    \A i \in Ids : runtimes[i] # NoRuntime => ValidateDeployments(runtimes[i], now, limit)

(* INVARIANT.  Deployments are not rewritten: what was active in an epoch      *)
(* stays the only version ever active in it, and versions go up over time.     *)
HistoryStands ==
    \A i \in Ids : \A p, q \in past[i] :
        /\ p[1] = q[1] => p[2] = q[2]
        /\ p[1] < q[1] => p[2].version <= q[2].version
=============================================================================
