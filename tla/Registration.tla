----------------------------- MODULE Registration -----------------------------
(* The node registration worker (go/worker/registration/worker.go): role       *)
(* providers fill in their part of the descriptor, the loop registers the node *)
(* when all of them are available and again every epoch, runs the providers'   *)
(* callbacks, and winds down when the operator asks for it, across restarts.   *)
EXTENDS Naturals

CONSTANTS
    Providers,     \* role providers, created before the service starts
    MaxUpdates,    \* bound on the updates of a provider
    MaxFailures,   \* bound on registrations that are not accepted
    MaxLag,        \* bound on epochs the worker has not seen yet
    MaxRestarts    \* bound on crashes

VARIABLES
    chain,      \* registry and beacon: [regd, vers, left, entity]: epochs left before expiry
    rp,         \* provider -> [ver, avail, cb, want]: pending callback, and whether one was asked for
    w,          \* the loop: [pc, first, known, armed, snap]
    lag,        \* epochs since the one last read from the epoch channel
    registerCh, entityCh,   \* notifications waiting for the loop
    stopRegCh,  \* deregistration was requested of this process
    flag,       \* the persisted deregistration request
    called,     \* <<provider, version>> whose callback has run
    budget      \* [failures, restarts] left

vars == <<chain, rp, w, lag, registerCh, entityCh, stopRegCh, flag, called, budget>>

NoSnap == [i \in Providers |-> [ver |-> 0, cb |-> FALSE]]
Started == [pc |-> "wait", first |-> TRUE, known |-> FALSE, armed |-> FALSE, snap |-> NoSnap]
Versions == [i \in Providers |-> rp[i].ver]
Available == \A i \in Providers : rp[i].avail

Init ==
    /\ chain = [regd |-> FALSE, vers |-> [i \in Providers |-> 0], left |-> 0, entity |-> FALSE]
    /\ rp = [i \in Providers |-> [ver |-> 0, avail |-> FALSE, cb |-> FALSE, want |-> FALSE]]
    /\ w = Started
    /\ lag = 1 /\ registerCh = FALSE /\ entityCh = FALSE /\ stopRegCh = FALSE /\ flag = FALSE
    /\ called = {}
    /\ budget = [failures |-> MaxFailures, restarts |-> MaxRestarts]

-----------------------------------------------------------------------------
(* roleProvider.SetAvailableWithCallback; SetUnavailable passes no hook.       *)
SetAvailableWithCallback(i, hook, cb) ==
    /\ rp[i].ver < MaxUpdates
    /\ rp' = [rp EXCEPT ![i] = [ver |-> @.ver + 1, avail |-> hook, cb |-> cb, want |-> cb]]
    /\ registerCh' = TRUE
    /\ UNCHANGED <<chain, w, lag, entityCh, stopRegCh, flag, called, budget>>

(* The chain: epochs pass and registrations expire two epochs after the one    *)
(* they were made for; the entity is registered with the node in its list.     *)
(* A running loop is at most MaxLag epochs behind: an attempt is shorter.      *)
EpochTransition ==
    /\ lag < MaxLag \/ w.pc \in {"drain", "stopped", "down"}
    /\ lag' = IF lag < MaxLag THEN lag + 1 ELSE lag
    /\ chain' = IF chain.left > 0 THEN [chain EXCEPT !.left = @ - 1] ELSE [chain EXCEPT !.regd = FALSE]
    /\ UNCHANGED <<rp, w, registerCh, entityCh, stopRegCh, flag, called, budget>>

RegisterEntity ==
    /\ ~chain.entity
    /\ chain' = [chain EXCEPT !.entity = TRUE]
    /\ entityCh' = TRUE
    /\ UNCHANGED <<rp, w, lag, registerCh, stopRegCh, flag, called, budget>>

-----------------------------------------------------------------------------
(* registrationLoop.  A notification disarms the delay and goes on to register *)
(* once the epoch is known.                                                    *)
Proceed(known) == IF known THEN [w EXCEPT !.known = TRUE, !.armed = FALSE, !.pc = "check"] ELSE w

StopRequested ==
    /\ w.pc = "wait" /\ stopRegCh
    /\ w' = [w EXCEPT !.pc = "drain"]
    /\ UNCHANGED <<chain, rp, lag, registerCh, entityCh, stopRegCh, flag, called, budget>>

HeightReached ==
    /\ w.pc = "wait" /\ w.armed
    /\ w' = Proceed(TRUE)
    /\ UNCHANGED <<chain, rp, lag, registerCh, entityCh, stopRegCh, flag, called, budget>>

(* The re-registration is scheduled at a random height of the epoch; without   *)
(* that delay, or when the height of the epoch is not available, it goes on.   *)
NewEpoch ==
    /\ w.pc = "wait" /\ lag > 0
    /\ lag' = 0
    /\ w' \in {[w EXCEPT !.known = TRUE, !.armed = TRUE], Proceed(TRUE)}
    /\ UNCHANGED <<chain, rp, registerCh, entityCh, stopRegCh, flag, called, budget>>

EntityUpdate ==
    /\ w.pc = "wait" /\ entityCh
    /\ entityCh' = FALSE
    /\ w' = Proceed(w.known)
    /\ UNCHANGED <<chain, rp, lag, registerCh, stopRegCh, flag, called, budget>>

ProviderUpdate ==
    /\ w.pc = "wait" /\ registerCh
    /\ registerCh' = FALSE
    /\ w' = Proceed(w.known)
    /\ UNCHANGED <<chain, rp, lag, entityCh, stopRegCh, flag, called, budget>>

(* The hooks, callbacks and versions of all providers; nothing is registered   *)
(* while one is unavailable or the entity does not list the node.              *)
Enumerate ==
    /\ w.pc = "check"
    /\ w' = IF Available /\ chain.entity
            THEN [w EXCEPT !.pc = "try", !.snap = [i \in Providers |-> [ver |-> rp[i].ver, cb |-> rp[i].cb]]]
            ELSE [w EXCEPT !.pc = "wait"]
    /\ UNCHANGED <<chain, rp, lag, registerCh, entityCh, stopRegCh, flag, called, budget>>

(* regFn: before each attempt the select statement takes a stop request or the *)
(* newest epoch, and goes on at once when neither is there.                    *)
Attempt ==
    /\ w.pc = "try"
    /\ \/ /\ stopRegCh
          /\ w' = [w EXCEPT !.pc = IF w.first THEN "drain" ELSE "wait"]
          /\ lag' = lag
       \/ /\ stopRegCh => lag > 0
          /\ w' = [w EXCEPT !.pc = "submit"]
          /\ lag' = 0
    /\ UNCHANGED <<chain, rp, registerCh, entityCh, stopRegCh, flag, called, budget>>

(* registerNode: the descriptor expires two epochs after the known one.        *)
Register ==
    /\ w.pc = "submit"
    /\ chain' = [chain EXCEPT !.regd = TRUE, !.vers = [i \in Providers |-> w.snap[i].ver],
                              !.left = IF lag > 2 THEN 0 ELSE 2 - lag]
    /\ w' = [w EXCEPT !.pc = "callbacks", !.first = FALSE]
    /\ UNCHANGED <<rp, lag, registerCh, entityCh, stopRegCh, flag, called, budget>>

(* Only the first registration is retried; later ones wait for an event.       *)
RegisterFails ==
    /\ w.pc = "submit" /\ budget.failures > 0
    /\ budget' = [budget EXCEPT !.failures = @ - 1]
    /\ w' = [w EXCEPT !.pc = IF w.first THEN "try" ELSE "wait"]
    /\ UNCHANGED <<chain, rp, lag, registerCh, entityCh, stopRegCh, flag, called>>

(* A pending callback is cleared unless the provider was updated meanwhile.    *)
ClearAll(i) == FALSE
KeepCallback(i) == rp[i].ver # w.snap[i].ver

Callbacks ==
    /\ w.pc = "callbacks"
    /\ rp' = [i \in Providers |-> [rp[i] EXCEPT !.cb = @ /\ KeepCallback(i)]]
    /\ called' = called \cup {<<i, w.snap[i].ver>> : i \in {j \in Providers : w.snap[j].cb}}
    /\ w' = [w EXCEPT !.pc = "wait", !.snap = NoSnap]
    /\ UNCHANGED <<chain, lag, registerCh, entityCh, stopRegCh, flag, budget>>

-----------------------------------------------------------------------------
(* RequestDeregistration: the request is persisted before the loop is stopped. *)
NotPersisted ==
    /\ w.pc \notin {"down", "stopped"} /\ ~stopRegCh
    /\ stopRegCh' = TRUE
    /\ UNCHANGED <<chain, rp, w, lag, registerCh, entityCh, called, budget, flag>>

RequestDeregistration ==
    /\ w.pc \notin {"down", "stopped"} /\ ~stopRegCh
    /\ flag' = TRUE
    /\ stopRegCh' = TRUE
    /\ UNCHANGED <<chain, rp, w, lag, registerCh, entityCh, called, budget>>

(* doNodeRegistration after the loop: the node is gone already, or its removal *)
(* event is waited for; registrationStopped clears the request.                *)
RegistrationStopped ==
    /\ w.pc = "drain" /\ ~chain.regd
    /\ flag' = FALSE
    /\ w' = [w EXCEPT !.pc = "stopped"]
    /\ UNCHANGED <<chain, rp, lag, registerCh, entityCh, stopRegCh, called, budget>>

(* The process ends, and starts again: registration is skipped when a request  *)
(* to deregister was persisted.                                                *)
Crash ==
    /\ w.pc # "down" /\ budget.restarts > 0
    /\ budget' = [budget EXCEPT !.restarts = @ - 1]
    /\ w' = [Started EXCEPT !.pc = "down"]
    /\ stopRegCh' = FALSE
    /\ UNCHANGED <<chain, rp, lag, registerCh, entityCh, flag, called>>

New ==
    /\ w.pc = "down"
    /\ w' = IF flag THEN [Started EXCEPT !.pc = "drain"] ELSE Started
    /\ rp' = [i \in Providers |-> [rp[i] EXCEPT !.avail = FALSE, !.cb = FALSE, !.want = FALSE]]
    /\ lag' = 1
    /\ registerCh' = FALSE /\ entityCh' = FALSE
    /\ UNCHANGED <<chain, stopRegCh, flag, called, budget>>

Loop ==
    \/ StopRequested \/ HeightReached \/ NewEpoch \/ EntityUpdate \/ ProviderUpdate
    \/ Enumerate \/ Attempt \/ Register \/ RegisterFails \/ Callbacks \/ RegistrationStopped

Next ==
    \/ Loop \/ EpochTransition \/ RegisterEntity \/ RequestDeregistration \/ Crash \/ New
    \/ \E i \in Providers : SetAvailableWithCallback(i, FALSE, FALSE)
    \/ \E i \in Providers, cb \in BOOLEAN : SetAvailableWithCallback(i, TRUE, cb)

(* A ready case of the select statement is not passed over forever, and epochs *)
(* go on.                                                                      *)
Fairness ==
    /\ WF_vars(Loop) /\ WF_vars(EpochTransition) /\ WF_vars(New)
    /\ SF_vars(StopRequested) /\ SF_vars(HeightReached) /\ SF_vars(NewEpoch) /\ SF_vars(ProviderUpdate)

Spec == Init /\ [][Next]_vars /\ Fairness

-----------------------------------------------------------------------------
(* LIVENESS.  When the providers stay available, the node is registered again  *)
(* and again, in the end with their latest hooks only, and every callback they *)
(* asked for has run: no update that arrives during a registration is lost.    *)
LatestRegistered ==
    <>[](Available /\ chain.entity /\ ~flag /\ ~stopRegCh /\ w.pc \notin {"drain", "stopped", "down"}) =>
        /\ []<>chain.regd
        /\ <>[](chain.vers = Versions /\ \A i \in Providers : rp[i].want => <<i, rp[i].ver>> \in called)

(* LIVENESS.  A deregistration that was requested completes, whatever crashes: *)
(* the node leaves the registry, and only then is the request forgotten.       *)
DeregistrationCompletes == []<>(flag => w.pc = "stopped")

(* ACTION PROPERTY.  A deregistration request is forgotten, by the worker or by *)
(* a crash, only after the node has left the registry.                         *)
DeregistrationStands ==
    [][/\ flag /\ ~flag' => ~chain.regd
       /\ stopRegCh /\ ~stopRegCh' /\ chain.regd => flag']_vars
=============================================================================
