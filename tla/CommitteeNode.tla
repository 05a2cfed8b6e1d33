----------------------------- MODULE CommitteeNode -----------------------------
(* The common committee node (go/worker/common/committee/node.go, group.go):   *)
(* start-up, the processing of runtime blocks, the epoch's committee, and the  *)
(* version of the hosted runtime, which follows the descriptor of the last     *)
(* epoch transition or, while the runtime is suspended, the registry.          *)
EXTENDS Integers, Sequences

CONSTANTS
    MaxEpoch, MaxRounds,  \* bounds: epoch transitions, other blocks
    MaxSuspensions,       \* bound
    NeedsKeyManager,      \* the runtime requires a key manager
    Failing               \* consensus queries that may fail

RuntimeDescriptors == 1..2       \* descriptor 2 adds a deployment valid from epoch 3
ActiveDeployment(d, epoch) == IF d = 2 /\ epoch >= 3 THEN 2 ELSE 1
Unset == 0

VARIABLES
    chain,      \* epoch, suspended, desc (registry), active (runtime state), keymanager
    blkCh,      \* committed blocks not handled yet
    n,          \* the node: pc, stopped and its Current* fields
    group,      \* the active epoch of the group, or Unset
    watchers,   \* goroutines that follow the registry while suspended
    rounds, suspensions

cnvars == <<chain, blkCh, n, group, watchers, rounds, suspensions>>

Init ==
    /\ chain = [epoch |-> 1, suspended |-> FALSE, desc |-> 1, active |-> 1, km |-> FALSE]
    /\ blkCh = <<>> /\ group = Unset /\ watchers = <<>> /\ rounds = 0 /\ suspensions = 0
    /\ n = [pc |-> "sync", stopped |-> FALSE, first |-> TRUE, desc |-> Unset, epoch |-> Unset,
            resume |-> Unset, hosted |-> Unset, handled |-> Unset]

-----------------------------------------------------------------------------
(* The consensus layer and the registry (external).  Subscriptions exist once  *)
(* the main loop runs; a suspended runtime has no blocks until it resumes.     *)
Emit(blk) == IF n.pc = "run" THEN Append(blkCh, blk) ELSE blkCh
Block(type) == [type |-> type, epoch |-> chain'.epoch, desc |-> chain'.active, suspended |-> chain'.suspended]
EpochTransition ==
    /\ chain.epoch < MaxEpoch
    /\ \E s \in BOOLEAN :
        /\ s /\ ~chain.suspended => suspensions < MaxSuspensions
        /\ suspensions' = IF s /\ ~chain.suspended THEN suspensions + 1 ELSE suspensions
        /\ chain' = [chain EXCEPT !.epoch = @ + 1, !.suspended = s,
                                  !.active = IF s /\ chain.suspended THEN @ ELSE chain.desc]
        /\ blkCh' = IF s /\ chain.suspended THEN blkCh
                    ELSE Emit(Block(IF s THEN "Suspended" ELSE "EpochTransition"))
    /\ watchers' = [i \in DOMAIN watchers |-> [watchers[i] EXCEPT !.epoch = @ \/ watchers[i].alive]]
    /\ UNCHANGED <<n, group, rounds>>
NewRound ==
    /\ rounds < MaxRounds /\ ~chain.suspended /\ n.pc = "run"
    /\ \E t \in {"Normal", "RoundFailed"} : chain' = chain /\ blkCh' = Append(blkCh, Block(t))
    /\ rounds' = rounds + 1
    /\ UNCHANGED <<n, group, watchers, suspensions>>
RegisterRuntime ==
    /\ chain.desc = 1
    /\ chain' = [chain EXCEPT !.desc = 2]
    /\ watchers' = [i \in DOMAIN watchers |->
                       IF watchers[i].alive THEN [watchers[i] EXCEPT !.ch = Append(@, 2)] ELSE watchers[i]]
    /\ UNCHANGED <<blkCh, n, group, rounds, suspensions>>
KeyManagerReady ==
    /\ NeedsKeyManager /\ ~chain.km /\ ~n.stopped   \* Stop also stops the node tracker
    /\ chain' = [chain EXCEPT !.km = TRUE]
    /\ UNCHANGED <<blkCh, n, group, watchers, rounds, suspensions>>

-----------------------------------------------------------------------------
(* updateHostedRuntimeVersionLocked uses the latest epoch, whatever block is   *)
(* being handled.                                                              *)
AtBlockEpoch(m) ==
    IF m.desc = Unset THEN m ELSE [m EXCEPT !.hosted = ActiveDeployment(m.desc, m.epoch)]
UpdateHostedRuntimeVersion(m) ==
    IF m.desc = Unset THEN m ELSE [m EXCEPT !.hosted = ActiveDeployment(m.desc, chain.epoch)]

(* worker: the waits before the main loop.                                     *)
Waits == [sync |-> "descriptor", descriptor |-> "keymanager", keymanager |-> "history",
          history |-> "hooks", hooks |-> "run"]
Ready(pc) == pc = "keymanager" => (NeedsKeyManager => chain.km)
Proceed ==
    /\ n.pc \in DOMAIN Waits /\ Ready(n.pc)
    /\ LET m == [n EXCEPT !.pc = Waits[n.pc]]
       IN  n' = CASE n.pc = "descriptor" -> [m EXCEPT !.desc = chain.desc, !.epoch = chain.epoch]
                  [] n.pc = "hooks" -> UpdateHostedRuntimeVersion(m)
                  [] OTHER -> m
    /\ UNCHANGED <<chain, blkCh, group, watchers, rounds, suspensions>>

(* Every wait but the one for the key manager also ends when the node stops.   *)
BeforeLoop == {"sync", "history", "hooks"}
EndsOnStop == {"sync", "history", "hooks", "run"}
Quit ==
    /\ n.stopped /\ n.pc \in EndsOnStop
    /\ n' = [n EXCEPT !.pc = "quit"]
    /\ UNCHANGED <<chain, blkCh, group, watchers, rounds, suspensions>>
Stop ==
    /\ ~n.stopped
    /\ n' = [n EXCEPT !.stopped = TRUE]
    /\ UNCHANGED <<chain, blkCh, group, watchers, rounds, suspensions>>

-----------------------------------------------------------------------------
Succeeds(query) == IF query \in Failing THEN BOOLEAN ELSE {TRUE}

(* Group.Suspend                                                               *)
GroupSuspend == group' = Unset

(* handleSuspendLocked                                                         *)
HandleSuspend(m) ==
    /\ GroupSuspend
    /\ IF m.resume # Unset THEN n' = m /\ UNCHANGED watchers
       ELSE /\ n' = [m EXCEPT !.resume = Len(watchers) + 1]
            /\ watchers' = Append(watchers, [alive |-> TRUE, open |-> TRUE, rt |-> m.desc,
                                             epoch |-> TRUE, ch |-> <<chain.desc>>])

(* Group.EpochTransition, from the state at the block.                         *)
StaleGroup(blk, ok) == group' = IF ok THEN blk.epoch ELSE group
GroupTransition(blk, ok) == group' = IF ok THEN blk.epoch ELSE Unset

(* handleEpochTransitionLocked: a failed transition is only logged.            *)
HandleEpochTransition(m, ws, blk, ok) == n' = m /\ watchers' = ws /\ GroupTransition(blk, ok)

Resumed(m, blk) == ~blk.suspended /\ m.resume # Unset
(* handleNewBlockLocked.  The queries for the light block, the runtime state   *)
(* and the epoch come first; when one fails the block is not handled further.  *)
HandleNewBlock ==
    LET blk == Head(blkCh)
        refresh == n.first \/ blk.type \in {"EpochTransition", "Suspended"}
        seen == [n EXCEPT !.handled = IF refresh THEN blk.epoch ELSE @]
        m0 == [seen EXCEPT !.first = FALSE]
        m1 == [m0 EXCEPT !.desc = blk.desc, !.epoch = blk.epoch]
        m2 == IF ~refresh THEN m0
              ELSE UpdateHostedRuntimeVersion([m1 EXCEPT !.resume = IF Resumed(n, blk) THEN Unset ELSE @])
        closed == IF refresh /\ Resumed(n, blk) THEN [watchers EXCEPT ![n.resume].open = FALSE] ELSE watchers
    IN  /\ n.pc = "run" /\ blkCh # <<>>
        /\ blkCh' = Tail(blkCh)
        /\ \E light \in Succeeds("light"), state \in Succeeds("state"), committee \in Succeeds("committee") :
            IF ~light THEN n' = seen /\ UNCHANGED <<group, watchers>>
            ELSE IF refresh /\ ~state THEN n' = m0 /\ UNCHANGED <<group, watchers>>
            ELSE CASE blk.type = "Suspended" -> HandleSuspend(m2)
                   [] blk.type = "EpochTransition" \/ n.first ->
                        HandleEpochTransition(m2, closed, blk, committee)
                   [] OTHER -> n' = m2 /\ watchers' = closed /\ UNCHANGED group
        /\ UNCHANGED <<chain, rounds, suspensions>>

(* The goroutine of handleSuspendLocked: one event, then the update under the  *)
(* lock if the runtime is still suspended.                                     *)
Watch(i) ==
    LET w == watchers[i]
        Apply(w1) ==
            IF n.resume = Unset
            THEN n' = n /\ watchers' = [watchers EXCEPT ![i].alive = FALSE]
            ELSE /\ n' = UpdateHostedRuntimeVersion([n EXCEPT !.desc = w1.rt])
                 /\ watchers' = [watchers EXCEPT ![i] = w1]
    IN  /\ w.alive
        /\ \/ w.epoch /\ Apply([w EXCEPT !.epoch = FALSE])
           \/ w.ch # <<>> /\ Apply([w EXCEPT !.rt = Head(w.ch), !.ch = Tail(@)])
           \/ (~w.open \/ n.stopped) /\ n' = n /\ watchers' = [watchers EXCEPT ![i].alive = FALSE]
        /\ UNCHANGED <<chain, blkCh, group, rounds, suspensions>>

Next ==
    \/ EpochTransition \/ NewRound \/ RegisterRuntime \/ KeyManagerReady
    \/ Proceed \/ Quit \/ Stop \/ HandleNewBlock
    \/ \E i \in DOMAIN watchers : Watch(i)

(* The worker and the watchers run; the queries they wait for return.          *)
Fairness == WF_cnvars(Proceed) /\ WF_cnvars(Quit) /\ WF_cnvars(HandleNewBlock)
Spec == Init /\ [][Next]_cnvars /\ Fairness

-----------------------------------------------------------------------------
(* INVARIANT.  Once every block and event is handled, the hosted runtime is    *)
(* the deployment that is active now: of the descriptor of the last epoch      *)
(* transition or, while suspended, of the one in the registry.                 *)
Quiescent ==
    /\ n.pc = "run" /\ ~n.stopped /\ blkCh = <<>> /\ ~n.first
    /\ \A i \in DOMAIN watchers :
        watchers[i].alive => watchers[i].open /\ ~watchers[i].epoch /\ watchers[i].ch = <<>>
HostedIsActive ==
    Quiescent => n.hosted = ActiveDeployment(IF chain.suspended THEN chain.desc ELSE chain.active, chain.epoch)

(* INVARIANT.  A committee in use belongs to the epoch of the blocks handled:  *)
(* when a transition cannot be processed there is none until the next one.     *)
GroupIsCurrent == group # Unset => group = n.handled /\ n.resume = Unset

(* PROPERTY.  Stop halts the service: the worker returns.                      *)
StopHalts == n.stopped ~> n.pc = "quit"
=============================================================================
