-------------------------- MODULE KeyManagerSecrets --------------------------
(* The master and ephemeral secrets worker of a key manager node               *)
(* (go/worker/keymanager/secrets.go): one select loop over consensus           *)
(* subscriptions and the results of the tasks it runs in the background        *)
(* (enclave initialization, secret generation), beside a hosted enclave that   *)
(* may restart at any time with a new attestation key.                         *)
EXTENDS Naturals, Sequences

CONSTANTS
    Kinds,         \* the secrets, "mst" (master) and "eph" (ephemeral)
    MaxEpoch,      \* bound on epochs
    MaxRetries,    \* generateSecretMaxRetries, loadSecretMaxRetries
    MaxRestarts,   \* bound on enclave restarts
    MaxPolicies,   \* bound on policy and committee updates
    Interval,      \* MasterSecretRotationInterval of the policies that allow rotation
    StatusFirst    \* TRUE: no secret is delivered before the first status

VARIABLES
    chain,   \* consensus: [epoch, status, mst, eph], the last secret of each kind
    news,    \* what the subscriptions still have to deliver
    enclave, \* hosted runtime: [up, rak, next], next = the proposal it has stored
    w,       \* the worker's fields and its background tasks
    reg,     \* the init response the node is registered with
    ready,   \* status.Worker.Status = StatusStateReady
    policies \* updates made so far

vars == <<chain, news, enclave, w, reg, ready, policies>>

Disarmed == MaxRetries + 2   \* math.MaxInt64
Never == MaxEpoch + 9        \* math.MaxUint64
NoStatus == [ver |-> 0]
NoSecret == [epoch |-> 0, gen |-> 0]
NoRsp == [ver |-> 0, rak |-> 0, next |-> 0]
IdleTask == [phase |-> "idle"]

-----------------------------------------------------------------------------
(* Status.VerifyRotationEpoch; next is NextGeneration.                         *)
RotationAllowed(s, epoch) ==
    s.next = 0 \/ (s.ivl > 0 /\ epoch >= s.rot + s.ivl)

(* What the consensus layer accepts for kind k.                                *)
Accepted(k, epoch, gen) ==
    /\ epoch = chain.epoch + 1
    /\ chain[k].epoch # epoch
    /\ k = "mst" => gen = chain.status.next /\ RotationAllowed(chain.status, epoch)

Published(k, epoch, gen) ==
    LET s == [epoch |-> epoch, gen |-> gen]
    IN /\ chain' = [chain EXCEPT ![k] = s]
       /\ news' = [news EXCEPT ![k] = Append(@, s)]

StatusUpdated(s) ==
    /\ chain' = [chain EXCEPT !.status = s]
    /\ news' = [news EXCEPT !.status = Append(@, s)]

(* Another key manager publishes first.                                        *)
OtherPublish(k) ==
    /\ Accepted(k, chain.epoch + 1, chain.status.next)
    /\ Published(k, chain.epoch + 1, chain.status.next)
    /\ UNCHANGED <<enclave, w, reg, ready, policies>>

(* The epoch advances; a proposal for it may have been replicated widely       *)
(* enough to become the next generation.                                       *)
EpochTransition(rotate) ==
    /\ chain.epoch < MaxEpoch
    /\ rotate => chain.mst.epoch = chain.epoch + 1
    /\ LET e == chain.epoch + 1
           s == [chain.status EXCEPT !.ver = @ + 1, !.next = @ + 1, !.rot = e]
       IN /\ chain' = [chain EXCEPT !.epoch = e, !.status = IF rotate THEN s ELSE @]
          /\ news' = [news EXCEPT !.epoch = TRUE,
                                  !.status = IF rotate THEN Append(@, s) ELSE @]
    /\ UNCHANGED <<enclave, w, reg, ready, policies>>

(* A policy update changes the rotation interval or the committee.             *)
PolicyUpdate(ivl, member) ==
    /\ policies < MaxPolicies
    /\ policies' = policies + 1
    /\ StatusUpdated([chain.status EXCEPT !.ver = @ + 1, !.ivl = ivl, !.member = member])
    /\ UNCHANGED <<enclave, w, reg, ready>>

EnclaveStop ==
    /\ enclave.up
    /\ enclave.rak <= MaxRestarts
    /\ enclave' = [enclave EXCEPT !.up = FALSE]
    /\ UNCHANGED <<chain, news, w, reg, ready, policies>>

EnclaveStart ==
    /\ ~enclave.up
    /\ enclave' = [enclave EXCEPT !.up = TRUE, !.rak = @ + 1]
    /\ news' = [news EXCEPT !.started = TRUE]
    /\ UNCHANGED <<chain, w, reg, ready, policies>>

-----------------------------------------------------------------------------
Init ==
    /\ chain = [epoch |-> 1, mst |-> NoSecret, eph |-> NoSecret,
                status |-> [ver |-> 1, next |-> 0, rot |-> 0, ivl |-> Interval, member |-> TRUE]]
    /\ news = [epoch |-> TRUE, started |-> TRUE, mst |-> << >>, eph |-> << >>,
               status |-> <<chain.status>>]
    /\ enclave = [up |-> TRUE, rak |-> 1, next |-> 0]
    /\ w = [epoch |-> 1, due |-> FALSE, status |-> NoStatus, required |-> FALSE,
            ticker |-> FALSE, init |-> IdleTask, mst |-> NoSecret, eph |-> NoSecret,
            load |-> [k \in Kinds |-> 0], retry |-> [k \in Kinds |-> 0],
            gen |-> [k \in Kinds |-> IdleTask], genEpoch |-> Never, panic |-> FALSE]
    /\ reg = NoRsp
    /\ ready = FALSE
    /\ policies = 0

-----------------------------------------------------------------------------
(* The handlers, as functions of the worker's state.                           *)

ForgetfulInit(x) ==
    IF x.status = NoStatus \/ x.init # IdleTask THEN x
    ELSE [x EXCEPT !.required = FALSE, !.init = [phase |-> "call", status |-> x.status]]

(* handleInitEnclave: one initialization at a time, another one when needed.   *)
HandleInitEnclave(x) ==
    IF x.status = NoStatus THEN x
    ELSE IF x.init # IdleTask THEN [x EXCEPT !.required = TRUE]
    ELSE [x EXCEPT !.required = FALSE, !.init = [phase |-> "call", status |-> x.status]]

(* updateGenerateMasterSecretEpoch, which reads the status without a check.    *)
UpdateGenEpoch(x) ==
    IF x.status = NoStatus THEN [x EXCEPT !.panic = TRUE]
    ELSE LET rotation == IF x.status.next = 0 THEN 0
                         ELSE IF x.status.ivl = 0 THEN Never
                         ELSE x.status.rot + x.status.ivl - 1
         IN [x EXCEPT !.genEpoch = IF x.mst # NoSecret /\ rotation < x.mst.epoch
                                   THEN x.mst.epoch ELSE rotation]

(* handleGenerateEphemeralSecret's conditions, which the handler of master     *)
(* secrets shares and adds the epoch of the next rotation to.                  *)
MayGenerate(x, k) ==
    x.status # NoStatus /\ x.gen[k] = IdleTask /\ x.retry[k] <= MaxRetries /\ x.due

HandleGenerate(x, k) ==
    IF ~MayGenerate(x, k) \/ (k = "mst" /\ x.genEpoch > x.epoch) THEN x
    ELSE [x EXCEPT !.gen[k] = [phase |-> "check", epoch |-> x.epoch + 1,
                               gen |-> x.status.next, status |-> x.status],
                   !.retry[k] = @ + 1]

CanLoad(x, k) == x.status # NoStatus /\ x[k] # NoSecret /\ x.load[k] <= MaxRetries

(* handleLoadMasterSecret and handleLoadEphemeralSecret.                       *)
HandleLoad(x, k) ==
    IF ~CanLoad(x, k) THEN x
    ELSE IF ~enclave.up THEN [x EXCEPT !.load[k] = @ + 1]
    ELSE LET y == [x EXCEPT !.load[k] = Disarmed]
         IN IF k = "mst" THEN HandleInitEnclave(y) ELSE y

Loaded(x) == IF CanLoad(x, "mst") /\ enclave.up
             THEN [enclave EXCEPT !.next = x.mst.epoch] ELSE enclave

-----------------------------------------------------------------------------
(* The select loop of work: one case per channel.                              *)

HandleNewEpoch ==
    /\ news.epoch
    /\ news' = [news EXCEPT !.epoch = FALSE]
    /\ w' = [w EXCEPT !.epoch = chain.epoch, !.due = FALSE, !.retry = [k \in Kinds |-> 0]]
    /\ UNCHANGED <<chain, enclave, reg, ready, policies>>

(* Master secrets come first, then ephemeral ones.                             *)
ForEach(Handle(_, _), x) ==
    LET y == IF "mst" \in Kinds THEN Handle(x, "mst") ELSE x
    IN IF "eph" \in Kinds THEN Handle(y, "eph") ELSE y

(* A block, at or before the height chosen for this epoch.                     *)
HandleNewBlock(due) ==
    /\ w.due => due
    /\ LET x == ForEach(HandleGenerate, [w EXCEPT !.due = due])
       IN w' = ForEach(HandleLoad, x)
    /\ enclave' = IF "mst" \in Kinds THEN Loaded(w) ELSE enclave
    /\ UNCHANGED <<chain, news, reg, ready, policies>>

HandleRuntimeHostEvent ==
    /\ news.started
    /\ news' = [news EXCEPT !.started = FALSE]
    /\ w' = HandleInitEnclave(w)
    /\ UNCHANGED <<chain, enclave, reg, ready, policies>>

HandleStatusUpdate ==
    /\ news.status # << >>
    /\ news' = [news EXCEPT !.status = Tail(@)]
    /\ w' = UpdateGenEpoch(HandleInitEnclave([w EXCEPT !.status = Head(news.status)]))
    /\ UNCHANGED <<chain, enclave, reg, ready, policies>>

(* handleNewEphemeralSecret: the secret of the next epoch exists.              *)
NewEphemeral(x, s) == IF s.epoch = x.epoch + 1 THEN [x EXCEPT !.retry["eph"] = Disarmed] ELSE x

HandleNewSecret(k) ==
    /\ news[k] # << >>
    /\ StatusFirst => w.status # NoStatus
    /\ news' = [news EXCEPT ![k] = Tail(@)]
    /\ LET s == Head(news[k])
           x == [w EXCEPT ![k] = s, !.load[k] = 0]
           y == IF k = "mst" THEN UpdateGenEpoch(x) ELSE NewEphemeral(x, s)
       IN /\ w' = HandleLoad(y, k)
          /\ enclave' = IF k = "mst" THEN Loaded(y) ELSE enclave
    /\ UNCHANGED <<chain, reg, ready, policies>>

InitEnclaveRetry ==
    /\ w.ticker
    /\ w.init = IdleTask
    /\ w' = HandleInitEnclave(w)
    /\ UNCHANGED <<chain, news, enclave, reg, ready, policies>>

(* handleInitEnclaveDone, with registerNode: the node registers and the        *)
(* callback makes the worker ready.                                            *)
HandleInitEnclaveDone ==
    /\ w.init.phase = "done"
    /\ LET rsp == IF enclave.up THEN w.init.rsp ELSE NoRsp
           x == [w EXCEPT !.init = IdleTask,
                          !.ticker = IF rsp # NoRsp THEN FALSE
                                     ELSE w.ticker \/ ~w.required]
       IN IF w.required
          THEN w' = HandleInitEnclave(x) /\ UNCHANGED <<reg, ready>>
          ELSE /\ w' = x
               /\ reg' = IF rsp # NoRsp THEN rsp ELSE reg
               /\ ready' = (ready \/ rsp # NoRsp)
    /\ UNCHANGED <<chain, news, enclave, policies>>

StaleGenerateDone(k) ==
    /\ w.gen[k].phase = "done"
    /\ w' = [w EXCEPT !.gen[k] = IdleTask, !.retry[k] = IF w.gen[k].ok THEN Disarmed ELSE @]
    /\ UNCHANGED <<chain, news, enclave, reg, ready, policies>>

(* handleGenerate...SecretDone: disarmed if we are still in the same epoch.    *)
HandleGenerateDone(k) ==
    /\ w.gen[k].phase = "done"
    /\ w' = [w EXCEPT !.gen[k] = IdleTask,
                      !.retry[k] = IF w.gen[k].ok /\ @ > 0 THEN Disarmed ELSE @]
    /\ UNCHANGED <<chain, news, enclave, reg, ready, policies>>

-----------------------------------------------------------------------------
(* initEnclave, in the background: the enclave answers, then the answer is     *)
(* verified with the attestation key the host reports at that time.            *)
InitCall ==
    /\ w.init.phase = "call"
    /\ w' = [w EXCEPT !.init =
                IF ~enclave.up THEN [phase |-> "done", rsp |-> NoRsp]
                ELSE [phase |-> "verify", rsp |-> [ver |-> w.init.status.ver,
                         rak |-> enclave.rak, next |-> enclave.next]]]
    /\ UNCHANGED <<chain, news, enclave, reg, ready, policies>>

InitVerify ==
    /\ w.init.phase = "verify"
    /\ w' = [w EXCEPT !.init = [phase |-> "done",
                rsp |-> IF enclave.up /\ w.init.rsp.rak = enclave.rak
                        THEN w.init.rsp ELSE NoRsp]]
    /\ UNCHANGED <<chain, news, enclave, reg, ready, policies>>

(* generateMasterSecret and generateEphemeralSecret: the checks against the    *)
(* last secret, then the transaction, which may come too late.                 *)
GenerateCheck(k) ==
    /\ w.gen[k].phase = "check"
    /\ LET t == w.gen[k]
           ok == /\ chain[k].epoch # t.epoch
                 /\ k = "mst" => RotationAllowed(t.status, t.epoch)
                 /\ t.status.member
                 /\ enclave.up
       IN w' = [w EXCEPT !.gen[k] = IF ok THEN [t EXCEPT !.phase = "publish"]
                                    ELSE [phase |-> "done", ok |-> FALSE]]
    /\ UNCHANGED <<chain, news, enclave, reg, ready, policies>>

GeneratePublish(k) ==
    /\ w.gen[k].phase = "publish"
    /\ LET t == w.gen[k]
           ok == Accepted(k, t.epoch, t.gen)
       IN /\ IF ok THEN Published(k, t.epoch, t.gen) ELSE UNCHANGED <<chain, news>>
          /\ w' = [w EXCEPT !.gen[k] = [phase |-> "done", ok |-> ok]]
    /\ UNCHANGED <<enclave, reg, ready, policies>>

-----------------------------------------------------------------------------
Consensus ==
    \/ \E k \in Kinds : OtherPublish(k)
    \/ \E rotate \in BOOLEAN : EpochTransition(rotate)
    \/ \E ivl \in {0, Interval}, member \in BOOLEAN : PolicyUpdate(ivl, member)

Loop ==
    \/ HandleNewEpoch \/ HandleRuntimeHostEvent \/ HandleStatusUpdate
    \/ InitEnclaveRetry \/ HandleInitEnclaveDone
    \/ \E k \in Kinds : HandleNewSecret(k) \/ HandleGenerateDone(k)

Background ==
    InitCall \/ InitVerify \/ \E k \in Kinds : GenerateCheck(k) \/ GeneratePublish(k)

Blocks == \E due \in BOOLEAN : HandleNewBlock(due)

Next == ~w.panic /\ (Consensus \/ EnclaveStop \/ EnclaveStart \/ Blocks \/ Loop \/ Background)

(* The loop serves every channel, the tasks return, a dead enclave is started  *)
(* again.                                                                      *)
Fairness ==
    /\ WF_vars(~w.panic /\ EnclaveStart)
    /\ WF_vars(~w.panic /\ Loop)
    /\ WF_vars(~w.panic /\ Background)

Spec == Init /\ [][Next]_vars /\ Fairness

-----------------------------------------------------------------------------
(* INVARIANT.  Generation is given up as done only for an epoch that has its   *)
(* secret: a generation that succeeds after the next epoch began does not keep *)
(* the node from generating that epoch's secret.                               *)
DisarmedIsPublished == \A k \in Kinds : w.retry[k] = Disarmed => chain[k].epoch > w.epoch

(* PROPERTY.  Whatever restarts, updates and failures came before, the node    *)
(* ends up registered with an init response for the latest status, signed by   *)
(* the enclave that runs now and announcing the proposal it has loaded.        *)
InitConverges ==
    <>[](reg = [ver |-> chain.status.ver, rak |-> enclave.rak, next |-> enclave.next])

(* INVARIANT.  No handler reads the status before there is one.                *)
StatusKnown == ~w.panic
=============================================================================
