--------------------------------- MODULE Vault ---------------------------------
(* A vault (go/vault/api/{vault,action,policy,methods}.go): actions wait until *)
(* enough addresses of an authority authorized them, and withdrawals respect   *)
(* the limit of a policy per interval of blocks.  The consensus application    *)
(* that stores pending actions is external.                                    *)
EXTENDS Naturals, FiniteSets

CONSTANTS
    Addresses,     \* addresses that may belong to an authority
    MaxAddresses,  \* MaxAuthorityAddresses
    Actions,       \* actions that may be submitted
    Initial,       \* the authorities and policy of the vault at creation
    Amounts,       \* amounts of a withdrawal
    MaxNonce, MaxHeight    \* bounds

VARIABLES
    height,
    vault,      \* [active, nonce, admin, suspend]; an authority is [addresses, threshold]
    pending,    \* nonce -> [action, by]; by = {} when nothing is pending
    address,    \* AddressState: [policy, bucket, amount]; a policy is [limit, interval]
    executed,   \* every executed action with its authorizers and the vault it was executed on
    taken       \* height -> amount withdrawn since the interval was last changed

vvars == <<height, vault, pending, address, executed, taken>>

Nonces == 0 .. MaxNonce
NoAction == [action |-> [kind |-> "none"], by |-> {}]

-----------------------------------------------------------------------------
(* Authority.                                                                  *)
ValidAuthority(a) == a.threshold \in 1 .. Cardinality(a.addresses) /\ Cardinality(a.addresses) <= MaxAddresses

(* Authorizations of addresses that do not belong to the authority are ignored.*)
CountsUnknown(a, by) == Cardinality(by) >= a.threshold
Verify(a, by) == Cardinality(a.addresses \cap by) >= a.threshold

(* Action.Authorities, IsAuthorized, Validate and Apply.                       *)
Authorities(v, act) == IF act.kind \in {"suspend", "resume"} THEN {v.admin, v.suspend} ELSE {v.admin}
IsAuthorized(v, act, addr) == \E a \in Authorities(v, act) : addr \in a.addresses
Validate(act) == act.kind = "authority" => \A a \in act.admin \cup act.suspend : ValidAuthority(a)

(* An authority that is not part of the update, {}, is kept.                   *)
Updated(old, new) == IF new = {} THEN old ELSE CHOOSE a \in new : TRUE

ApplyAction(v, act) ==
    CASE act.kind = "suspend" -> [v EXCEPT !.active = FALSE]
      [] act.kind = "resume" -> [v EXCEPT !.active = TRUE]
      [] act.kind = "authority" ->
           [v EXCEPT !.admin = Updated(@, act.admin), !.suspend = Updated(@, act.suspend)]
      [] OTHER -> v

(* AddressState.UpdateWithdrawPolicy: accounting restarts with a new interval. *)
AlwaysReset(s, p) == [policy |-> p, bucket |-> 0, amount |-> 0]
UpdateWithdrawPolicy(s, p) ==
    IF s.policy.interval # p.interval THEN [policy |-> p, bucket |-> 0, amount |-> 0]
    ELSE [s EXCEPT !.policy = p]

IsDisabled(p) == p.limit = 0 \/ p.interval = 0
Bucket(p, h) == h \div p.interval

-----------------------------------------------------------------------------
InitVault ==
    /\ height = 0
    /\ vault = [active |-> TRUE, nonce |-> 0, admin |-> Initial.admin, suspend |-> Initial.suspend]
    /\ ValidAuthority(Initial.admin) /\ ValidAuthority(Initial.suspend)
    /\ pending = [n \in Nonces |-> NoAction]
    /\ address = [policy |-> Initial.policy, bucket |-> 0, amount |-> 0]
    /\ executed = {}
    /\ taken = [h \in 0 .. MaxHeight |-> 0]

(* An AuthorizeAction transaction: the first authorization makes the action    *)
(* pending, a later one has to be for the same action, and as soon as one of   *)
(* the authorities is satisfied the action is executed.                        *)
AuthorizeAction(addr, n, act) ==
    LET by == pending[n].by \cup {addr}
        known == pending[n].by # {}
    IN /\ Validate(act) /\ IsAuthorized(vault, act, addr)
       /\ IF known THEN pending[n].action = act /\ addr \notin pending[n].by ELSE n = vault.nonce
       /\ LET v == IF known THEN vault ELSE [vault EXCEPT !.nonce = @ + 1]
          IN IF \E a \in Authorities(vault, act) : Verify(a, by)
             THEN /\ vault' = ApplyAction(v, act)
                  /\ pending' = [pending EXCEPT ![n] = NoAction]
                  /\ executed' = executed \cup {[action |-> act, by |-> by, admin |-> vault.admin, suspend |-> vault.suspend]}
                  /\ address' = IF act.kind = "policy" THEN UpdateWithdrawPolicy(address, act.policy) ELSE address
                  /\ taken' = IF act.kind = "policy" /\ act.policy.interval # address.policy.interval
                              THEN [h \in DOMAIN taken |-> 0] ELSE taken
             ELSE /\ vault' = v
                  /\ pending' = [pending EXCEPT ![n] = [action |-> act, by |-> by]]
                  /\ UNCHANGED <<executed, address, taken>>
       /\ UNCHANGED height

CancelAction(addr, n) ==
    /\ pending[n].by # {} /\ IsAuthorized(vault, pending[n].action, addr)
    /\ pending' = [pending EXCEPT ![n] = NoAction]
    /\ UNCHANGED <<height, vault, address, executed, taken>>

(* AuthorizeWithdrawal on an active vault; a refusal changes nothing.          *)
AuthorizeWithdrawal(amount) ==
    LET p == address.policy
        used == IF address.bucket = Bucket(p, height) THEN address.amount ELSE 0
    IN /\ vault.active /\ amount > 0 /\ ~IsDisabled(p)
       /\ used + amount <= p.limit
       /\ address' = [address EXCEPT !.bucket = Bucket(p, height), !.amount = used + amount]
       /\ taken' = [taken EXCEPT ![height] = @ + amount]
       /\ UNCHANGED <<height, vault, pending, executed>>

NewBlock == height < MaxHeight /\ height' = height + 1 /\ UNCHANGED <<vault, pending, address, executed, taken>>

NextVault ==
    \/ NewBlock
    \/ \E amount \in Amounts : AuthorizeWithdrawal(amount)
    \/ \E addr \in Addresses, n \in Nonces, act \in Actions : AuthorizeAction(addr, n, act)
    \/ \E addr \in Addresses, n \in Nonces : CancelAction(addr, n)

VaultSpec == InitVault /\ [][NextVault]_vvars

-----------------------------------------------------------------------------
(* INVARIANT.  What was executed had the consent of an authority as it was at  *)
(* that moment: authorizations from before an authority was replaced do not    *)
(* count unless their addresses still belong to it.                            *)
ConsentIsCurrent ==
    \A x \in executed :
        \/ Cardinality({d \in x.by : d \in x.admin.addresses}) >= x.admin.threshold
        \/ /\ x.action.kind \in {"suspend", "resume"}
           /\ Cardinality({d \in x.by : d \in x.suspend.addresses}) >= x.suspend.threshold

(* What was withdrawn in the blocks hs: the number of units taken.             *)
Withdrawn(t, hs) == Cardinality(UNION {{h} \X (1 .. t[h]) : h \in hs})

(* ACTION PROPERTY.  However often the policy is updated, a withdrawal never   *)
(* takes what left the vault in the blocks of one interval above the limit in  *)
(* force, unless the interval itself was changed in between.                   *)
WithdrawalLimited ==
    [][LET p == address.policy
           spent == Withdrawn(taken', {h \in DOMAIN taken : Bucket(p, h) = Bucket(p, height)})
       IN taken'[height] > taken[height] => spent <= p.limit]_vvars
=============================================================================
