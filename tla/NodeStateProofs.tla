---------------------------- MODULE NodeStateProofs ----------------------------
(* Proofs about what a node keeps of others: the checkpoint it restores and    *)
(* the versions of its database, the peers that offer a protocol, and, for the *)
(* key manager, the access list of its worker and the feedback of its client.  *)
EXTENDS CheckpointRestore, FiniteSets, TLAPS

(* What is used of finite sets and natural numbers.  It follows from           *)
(* FiniteSetTheorems, which slow the provers down wherever they are in scope:  *)
(* the lemmas take these facts as a hypothesis, and the module ends with the   *)
(* proof that they hold.                                                       *)
IntervalFact ==
    \A a, b \in Int : IsFiniteSet(a .. b) /\ Cardinality(a .. b) = IF a > b THEN 0 ELSE b - a + 1
SetFacts == IntervalFact

LEMMA IntervalIsFinite ==
  ASSUME SetFacts, NEW a \in Int, NEW b \in Int
  PROVE  IsFiniteSet(a .. b) /\ Cardinality(a .. b) = IF a > b THEN 0 ELSE b - a + 1
BY DEF SetFacts, IntervalFact


-----------------------------------------------------------------------------
(* The restoration of a checkpoint: handleCheckpoint leaves nothing behind,     *)
(* for any number of fetchers and chunks and any faults.                       *)

\* The variables that the argument is about have their types, and a fetcher
\* that works on a chunk has one.
Typed ==
  /\ heap \subseteq Chunks
  /\ returnCh \in Seq(Chunks \union {Nil})
  /\ errorCh \in Seq({"Next", "Bail"})
  /\ pc \in [Fetchers -> Locations]
  /\ held \in [Fetchers -> Chunks \union {Nil}]
  /\ \A f \in Fetchers : held[f] = Nil => pc[f] \in {"idle", "exited", "sendDone"}

\* The signal of completion follows the end of the restore: a fetcher that is
\* about to send it, the channel that carries it and the handler that has
\* received it all imply that the restorer has no checkpoint any more.
SignalAfterEnd ==
  /\ \A f \in Fetchers : pc[f] = "sendDone" => ~restoring
  /\ \A i \in DOMAIN returnCh : returnCh[i] = Nil => ~restoring
  /\ status = "Done" => ~restoring

\* The inductive invariant.
RestoreInv == Typed /\ SignalAfterEnd /\ CleanExit

\* The restorer never gets a checkpoint back: RestoreChunk and AbortRestore
\* only ever clear it.
LEMMA RestoringFalls == RestoreInv /\ [Next]_vars => (restoring' => restoring)
  BY ZenonT(30) DEF RestoreInv, Typed, Next, vars, HandlerStep, Dispatch, TakeReturned, TakeError, TakeStop,
         TakeDone, Return, Stop, FetcherStep, Fetch, Check, Import, Mark, Abort, Send, Exit,
         Restorer, Channels, Handler, Leave, Go, Drop, Fault

\* What is sent on a channel is among what the channel may hold.
LEMMA AppendType ==
  ASSUME NEW S, NEW s \in Seq(S), NEW x \in S
  PROVE  Append(s, x) \in Seq(S)
  OBVIOUS

\* The handler starts with the types the code declares.
LEMMA TypedInit == Init => Typed
  BY DEF Init, Typed, Locations, Sending

\* Typing is preserved by every step.
LEMMA TypedNext == Typed /\ [Next]_vars => Typed'
<1> SUFFICES ASSUME Typed, [Next]_vars PROVE Typed'
  OBVIOUS
<1> USE DEF Typed, Locations, Sending
<1>1. ASSUME NEW f \in Fetchers, FetcherStep(f) PROVE Typed'
  <2>1. CASE Fetch(f)
    BY <2>1 DEF Fetch, Go, Restorer, Channels, Handler
  <2>2. CASE Check(f)
    BY <2>2 DEF Check, Go, Restorer, Channels, Handler
  <2>3. CASE Import(f)
    BY <2>3 DEF Import, Go, Channels, Handler
  <2>4. CASE Mark(f)
    BY <2>4 DEF Mark, Drop, Go, Channels, Handler
  <2>5. CASE Abort(f)
    BY <2>5 DEF Abort, Go, Channels, Handler
  <2>6. CASE Send(f)
    <3>1. returnCh' \in Seq(Chunks \union {Nil})
      <4>1. held[f] \in Chunks \union {Nil}
        OBVIOUS
      <4>2. \/ returnCh' = returnCh
            \/ \E x \in Chunks \union {Nil} : returnCh' = Append(returnCh, x)
        BY <2>6, <4>1 DEF Send
      <4>3. returnCh \in Seq(Chunks \union {Nil})
        OBVIOUS
      <4> HIDE DEF Typed
      <4>4. QED
        BY <4>2, <4>3, AppendType
    <3>2. errorCh' \in Seq({"Next", "Bail"})
      <4>1. errorCh' = errorCh \/ \E x \in {"Next", "Bail"} : errorCh' = Append(errorCh, x)
        BY <2>6 DEF Send
      <4>2. errorCh \in Seq({"Next", "Bail"})
        OBVIOUS
      <4> HIDE DEF Typed
      <4>3. QED
        BY <4>1, <4>2, AppendType, Zenon
    <3>3. QED
      BY <2>6, <3>1, <3>2, Zenon DEF Send, Drop, Go, Restorer, Handler
  <2>7. CASE Exit(f)
    BY <2>7 DEF Exit, Go, Restorer, Channels, Handler
  <2>8. QED
    BY <1>1, <2>1, <2>2, <2>3, <2>4, <2>5, <2>6, <2>7, ZenonT(40) DEF FetcherStep
<1>2. ASSUME NEW f \in Fetchers, Dispatch(f) PROVE Typed'
  <2>1. PICK c \in heap : heap' = heap \ {c} /\ held' = [held EXCEPT ![f] = c]
    BY <1>2, ZenonT(30) DEF Dispatch
  <2>2. c \in Chunks /\ c # Nil
    BY RestoreAssumption DEF Chunks
  <2>3. QED
    BY <1>2, <2>1, <2>2 DEF Dispatch, Go, Restorer, Handler
<1>3. CASE TakeReturned
  <2>1. returnCh # <<>> /\ returnCh' = Tail(returnCh)
    BY <1>3 DEF TakeReturned
  <2>2. Head(returnCh) \in Chunks \union {Nil} /\ returnCh' \in Seq(Chunks \union {Nil})
    BY <2>1
  <2>3. heap' \subseteq Chunks
    BY <1>3, <2>2 DEF TakeReturned
  <2>4. QED
    BY <1>3, <2>2, <2>3 DEF TakeReturned
<1>4. CASE TakeError
  <2>1. errorCh' \in Seq({"Next", "Bail"})
    BY <1>4 DEF TakeError
  <2>2. QED
    BY <1>4, <2>1 DEF TakeError, Restorer
<1>7. CASE TakeStop \/ TakeDone \/ Return \/ Stop
  BY <1>7 DEF TakeStop, TakeDone, Return, Stop, Restorer, Channels
<1>5. CASE UNCHANGED vars
  BY <1>5 DEF vars
<1>6. QED
  BY <1>1, <1>2, <1>3, <1>4, <1>5, <1>7 DEF Next, HandlerStep

\* The signal of completion is only ever sent after the end of the restore.
LEMMA SignalNext == RestoreInv /\ [Next]_vars => SignalAfterEnd'
<1> SUFFICES ASSUME RestoreInv, [Next]_vars PROVE SignalAfterEnd'
  OBVIOUS
<1>0. restoring' => restoring
  BY RestoringFalls
<1>t. Typed /\ SignalAfterEnd
  BY DEF RestoreInv
<1>1. ASSUME NEW f \in Fetchers, FetcherStep(f) PROVE SignalAfterEnd'
  <2>1. CASE Fetch(f) \/ Check(f) \/ Import(f) \/ Abort(f) \/ Exit(f)
    BY <2>1, <1>0, <1>t, ZenonT(30) DEF Typed, SignalAfterEnd, Fetch, Check, Import, Abort, Exit, Go, Restorer,
                            Channels, Handler
  <2>2. CASE Mark(f)
    BY <2>2, <1>0, <1>t, ZenonT(30) DEF Typed, SignalAfterEnd, Mark, Drop, Go, Channels, Handler
  <2>3. CASE Send(f)
    <3>1. \A g \in Fetchers : pc'[g] = "sendDone" => ~restoring'
      BY <2>3, <1>0, <1>t DEF Typed, SignalAfterEnd, Send, Drop, Go
    <3>2. \A i \in DOMAIN returnCh' : returnCh'[i] = Nil => ~restoring'
      <4>1. CASE returnCh' = returnCh
        BY <4>1, <1>0, <1>t DEF SignalAfterEnd
      <4>2. CASE pc[f] = "sendChunk" /\ returnCh' = Append(returnCh, held[f])
        BY <4>2, <1>0, <1>t DEF Typed, SignalAfterEnd
      <4>3. CASE pc[f] = "sendDone"
        BY <4>3, <1>0, <1>t DEF SignalAfterEnd
      <4>4. QED
        BY <2>3, <4>1, <4>2, <4>3 DEF Send
    <3>3. QED
      BY <2>3, <3>1, <3>2, <1>0, <1>t, ZenonT(40) DEF SignalAfterEnd, Send, Handler
  <2>4. QED
    BY <1>1, <2>1, <2>2, <2>3 DEF FetcherStep
<1>2. ASSUME NEW f \in Fetchers, Dispatch(f) PROVE SignalAfterEnd'
  BY <1>2, <1>0, <1>t DEF Typed, SignalAfterEnd, Dispatch, Go, Restorer, Handler
<1>3. CASE TakeReturned
  <2>1. returnCh # <<>> /\ returnCh' = Tail(returnCh) /\ UNCHANGED <<restoring, pc>>
    BY <1>3 DEF TakeReturned, Restorer
  <2>2. \A i \in DOMAIN returnCh' : i + 1 \in DOMAIN returnCh /\ returnCh'[i] = returnCh[i + 1]
    BY <2>1, <1>t DEF Typed
  <2>3. \A i \in DOMAIN returnCh' : returnCh'[i] = Nil => ~restoring'
    BY <2>1, <2>2, <1>t DEF SignalAfterEnd
  <2>4. 1 \in DOMAIN returnCh /\ Head(returnCh) = returnCh[1]
    BY <2>1, <1>t DEF Typed
  <2>5. status' = "Done" => ~restoring'
    BY <1>3, <2>1, <2>4, <1>t DEF SignalAfterEnd, TakeReturned, Leave
  <2>6. QED
    BY <2>1, <2>3, <2>5, <1>t DEF SignalAfterEnd
<1>4. CASE TakeError
  <2>1. status' = Head(errorCh) /\ UNCHANGED <<restoring, pc, returnCh>>
    BY <1>4 DEF TakeError, Leave, Restorer
  <2>2. Head(errorCh) \in {"Next", "Bail"}
    BY <1>4, <1>t DEF Typed, TakeError
  <2>3. QED
    BY <2>1, <2>2, <1>t DEF SignalAfterEnd
<1>5. CASE TakeStop \/ TakeDone \/ Return \/ Stop
  BY <1>5, <1>0, <1>t DEF SignalAfterEnd, TakeStop, TakeDone, Return, Stop, Leave, Restorer, Channels
<1>6. CASE UNCHANGED vars
  BY <1>6, <1>t DEF vars, SignalAfterEnd
<1>7. QED
  BY <1>1, <1>2, <1>3, <1>4, <1>5, <1>6 DEF Next, HandlerStep

\* Once handleCheckpoint has returned it stays quiet: all fetchers have exited,
\* and an exited fetcher takes no step.
LEMMA CleanExitNext == RestoreInv /\ [Next]_vars => CleanExit'
<1> SUFFICES ASSUME RestoreInv, [Next]_vars, handler' = "returned"
             PROVE  Exited' /\ ~restoring'
  BY DEF CleanExit
<1> USE DEF RestoreInv, CleanExit, Exited
<1>0. restoring' => restoring
  BY RestoringFalls
<1>1. CASE Return
  BY <1>1 DEF Return, SignalAfterEnd
<1>2. CASE \E f \in Fetchers : FetcherStep(f)
  BY <1>2, <1>0, ZenonT(30) DEF FetcherStep, Fetch, Check, Import, Mark, Abort, Send, Exit, Handler
<1>3. CASE TakeReturned \/ TakeError \/ TakeStop \/ TakeDone \/ (\E f \in Fetchers : Dispatch(f))
  BY <1>3 DEF TakeReturned, TakeError, TakeStop, TakeDone, Dispatch, Leave, Handler
<1>4. CASE Stop
  BY <1>4 DEF Stop, Restorer
<1>5. CASE UNCHANGED vars
  BY <1>5 DEF vars
<1>6. QED
  BY <1>1, <1>2, <1>3, <1>4, <1>5, ZenonT(30) DEF Next, HandlerStep

\* handleCheckpoint leaves nothing behind: when it returns, whatever failed, all
\* its fetchers have exited and the restorer is free for the next checkpoint.
THEOREM RestoreLeavesNothing == Spec => []CleanExit
<1>1. Init => RestoreInv
  BY TypedInit, RestoreAssumption DEF Init, RestoreInv, SignalAfterEnd, CleanExit, Chunks
<1>2. RestoreInv /\ [Next]_vars => RestoreInv'
  BY TypedNext, SignalNext, CleanExitNext DEF RestoreInv
<1>3. RestoreInv => CleanExit
  BY DEF RestoreInv
<1>4. QED
  BY <1>1, <1>2, <1>3, PTL DEF Spec


-----------------------------------------------------------------------------
(* The versions of a node database (go/storage/mkvs/db/api), for any versions,  *)
(* roots and choice of final roots.                                            *)
CONSTANTS Versions, Roots, Final
VARIABLES stored, diffs, first, last

V == INSTANCE VersionedStore

VersionsTyped == Versions \subseteq Nat \ {0}

SInv == V!TypeOK /\ V!Window

(* An empty store has an empty window.                                         *)
LEMMA SInit == ASSUME VersionsTyped PROVE V!Init => SInv
BY DEF V!Init, SInv, V!TypeOK, V!Window

(* Batches and lost candidates leave the window alone.                         *)
LEMMA SRevise == ASSUME VersionsTyped, SInv, V!Revise PROVE SInv'
BY DEF SInv, V!TypeOK, V!Window, V!Revise

(* Finalization moves the end of the window, or starts it.                     *)
LEMMA SFinalize == ASSUME VersionsTyped, SInv, NEW v \in Versions, V!Finalize(v) PROVE SInv'
BY DEF SInv, V!TypeOK, V!Window, V!Finalize, VersionsTyped

(* Data of the earliest version goes, the window stays.                        *)
LEMMA SErase == ASSUME VersionsTyped, SInv, V!Erase PROVE SInv'
BY DEF SInv, V!TypeOK, V!Window, V!Erase

(* Pruning moves the start of the window, never past its end.                  *)
LEMMA SPrune == ASSUME VersionsTyped, SInv, V!Prune PROVE SInv'
BY DEF SInv, V!TypeOK, V!Window, V!Prune

(* The invariant is inductive.                                                 *)
LEMMA SNext == ASSUME VersionsTyped PROVE SInv /\ [V!Next]_(V!vars) => SInv'
<1> SUFFICES ASSUME SInv, [V!Next]_(V!vars) PROVE SInv'
  OBVIOUS
<1>1. CASE UNCHANGED V!vars
  BY <1>1 DEF V!vars, SInv, V!TypeOK, V!Window
<1>. QED
  BY <1>1, SRevise, SFinalize, SErase, SPrune DEF V!Next

(* THEOREM.  The final versions form one window, empty or from first to last:  *)
(* GetEarliestVersion and GetLatestVersion bound what can be read.             *)
THEOREM WindowHolds == ASSUME VersionsTyped PROVE V!Spec => []V!Window
<1>1. SInv => V!Window
  BY DEF SInv
<1>. QED
  BY <1>1, SInit, SNext, PTL DEF V!Spec

(* What one step may lose: a pair whose version is final only from the         *)
(* earliest version, and only when that version is not also the last.          *)
LostIsEarliest ==
    \A p \in V!Lost(stored, stored') \cup V!Lost(diffs, diffs') :
        (first <= p[1] /\ p[1] <= last) => p[1] = first /\ first < last

(* Roots and write logs are kept under versions above zero.                    *)
LEMMA VersionOfPair ==
  ASSUME VersionsTyped, V!TypeOK, NEW p \in stored \cup diffs
  PROVE  p[1] \in Nat \ {0}
<1>1. CASE p \in stored
  <2>1. p \in Versions \X Roots
    BY <1>1 DEF V!TypeOK
  <2>2. p[1] \in Versions
    BY <2>1
  <2>. QED
    BY <2>2, ZenonT(30) DEF VersionsTyped
<1>2. CASE p \in diffs
  <2>1. p[1] \in Versions
    BY <1>2 DEF V!TypeOK
  <2>. QED
    BY <2>1, ZenonT(40) DEF VersionsTyped
<1>. QED
  BY <1>1, <1>2

(* No step loses final data of another version than the earliest.              *)
LEMMA StepLosesEarliest == ASSUME VersionsTyped, SInv, V!Next PROVE LostIsEarliest
<1> SUFFICES ASSUME NEW p \in V!Lost(stored, stored') \cup V!Lost(diffs, diffs'), first <= p[1], p[1] <= last
             PROVE  p[1] = first /\ first < last
  BY DEF LostIsEarliest
<1>1. p[1] \in Nat \ {0} /\ first \in Nat /\ last \in Nat
  <2>1. p \in stored \cup diffs
    BY DEF V!Lost
  <2>. QED
    BY <2>1, VersionOfPair DEF SInv, V!TypeOK
<1>2. CASE V!Revise
  <2>1. p \in V!Changed(stored, stored') \cup V!Changed(diffs, diffs')
    BY DEF V!Lost, V!Changed
  <2>. QED
    BY <1>1, <1>2, <2>1 DEF V!Revise
<1>3. CASE V!Erase
  BY <1>3 DEF V!Erase
<1>4. CASE V!Prune
  BY <1>1, <1>4 DEF V!Prune, V!Lost
<1>5. ASSUME NEW v \in Versions, V!Finalize(v) PROVE p[1] = first /\ first < last
  <2>1. v \in Nat /\ v > last
    BY <1>5 DEF V!Finalize, VersionsTyped
  <2>2. p[1] = v \/ last = 0
    BY <1>5 DEF V!Finalize
  <2>. QED
    BY <1>1, <2>1, <2>2
<1>. QED
  BY <1>2, <1>3, <1>4, <1>5 DEF V!Next

(* THEOREM.  A finalized root or write log is never lost except by pruning     *)
(* (NodeDB.Prune), which takes the earliest version while a later one is       *)
(* final: batches, discarded candidates, finalization of other versions,       *)
(* aborted restores and crashes leave it readable.                             *)
THEOREM FinalIsKept == ASSUME VersionsTyped PROVE V!Spec => V!FinalIsDurable
<1>1. SInv /\ [V!Next]_(V!vars) => [LostIsEarliest]_(V!vars)
  BY StepLosesEarliest
<1>2. SInv /\ [V!Next]_(V!vars) => SInv'
  BY SNext
<1>3. V!Init => SInv
  BY SInit
<1>. QED
  BY <1>1, <1>2, <1>3, PTL DEF V!Spec, V!FinalIsDurable, LostIsEarliest

------------------------------------------------------------------------------
(* The peers of a protocol (go/p2p/rpc/peermgmt.go).                           *)
CONSTANTS PeerIds, MaxEvents
VARIABLES connected, supports, blocked, events, callbacks, peers, ignoredPeers, updates, view, count

INSTANCE RpcPeers

(* What subscribers are sent.                                                  *)
Updates == {"added", "removed", "bad"} \X PeerIds

(* When a replay contains a peer.                                              *)
Decided(us, q) == \E i \in DOMAIN us : us[i] = <<"added", q>> /\ \A j \in DOMAIN us : j > i => us[j][2] # q
NoneSent(us, q) == \A i \in DOMAIN us : us[i][2] # q

(* Membership in a replay.                                                     *)
LEMMA Replays ==
  ASSUME NEW v, NEW us, NEW q \in PeerIds
  PROVE  q \in Replayed(v, us) <=> Decided(us, q) \/ (q \in v /\ NoneSent(us, q))
BY DEF Replayed, Decided, NoneSent

(* An update changes what a replay ends with just as it changes the peers.     *)
LEMMA ReplayAppend ==
  ASSUME NEW v, NEW us \in Seq(Updates), NEW kind \in {"added", "removed", "bad"}, NEW p \in PeerIds
  PROVE  Replayed(v, Append(us, <<kind, p>>)) =
           IF kind = "added" THEN Replayed(v, us) \cup {p} ELSE Replayed(v, us) \ {p}
<1>. DEFINE us2 == Append(us, <<kind, p>>)
            n == Len(us)
<1>1. /\ DOMAIN us = 1..n /\ n \in Nat
      /\ DOMAIN us2 = 1..(n + 1)
      /\ \A i \in 1..n : us2[i] = us[i]
      /\ us2[n + 1] = <<kind, p>>
  OBVIOUS
<1>2. \A i \in 1..(n + 1) : i \in 1..n \/ i = n + 1
  BY <1>1
<1>a. \A i \in 1..n : i \in 1..(n + 1) /\ n + 1 > i /\ ~(i > n + 1)
  BY <1>1
<1>b. n + 1 \in 1..(n + 1) /\ ~(n + 1 > n + 1)
  BY <1>1
<1>. HIDE DEF us2, n
<1>3. ASSUME NEW q \in PeerIds, q # p
      PROVE  Decided(us2, q) <=> Decided(us, q)
  <2>1. us2[n + 1][2] # q /\ us2[n + 1] # <<"added", q>>
    BY <1>1, <1>3
  <2>2. ASSUME NEW i \in 1..n, us[i] = <<"added", q>>, \A j \in 1..n : j > i => us[j][2] # q
        PROVE  Decided(us2, q)
    <3>1. i \in 1..(n + 1) /\ us2[i] = <<"added", q>>
      BY <2>2, <1>1
    <3>2. \A j \in 1..(n + 1) : j > i => us2[j][2] # q
      BY <2>1, <2>2, <1>1, <1>2
    <3>. QED
      BY <3>1, <3>2, <1>1 DEF Decided
  <2>3. ASSUME NEW i \in 1..(n + 1), us2[i] = <<"added", q>>, \A j \in 1..(n + 1) : j > i => us2[j][2] # q
        PROVE  Decided(us, q)
    <3>1. i \in 1..n /\ us[i] = <<"added", q>>
      BY <2>1, <2>3, <1>1, <1>2
    <3>2. \A j \in 1..n : j > i => us[j][2] # q
      BY <2>3, <1>1, <1>a
    <3>. QED
      BY <3>1, <3>2, <1>1 DEF Decided
  <2>. QED
    BY <2>2, <2>3, <1>1, ZenonT(30) DEF Decided
<1>4. ASSUME NEW q \in PeerIds, q # p
      PROVE  NoneSent(us2, q) <=> NoneSent(us, q)
  <2>1. us2[n + 1][2] # q
    BY <1>1, <1>4
  <2>. QED
    BY <2>1, <1>1, <1>2, <1>a, <1>b, ZenonT(30) DEF NoneSent
<1>5. ~NoneSent(us2, p)
  BY <1>1, <1>b DEF NoneSent
<1>6. Decided(us2, p) <=> kind = "added"
  BY <1>1, <1>2, <1>a, <1>b DEF Decided
<1>7. \A q \in PeerIds : q \in Replayed(v, us2) <=>
         IF q = p THEN kind = "added" ELSE q \in Replayed(v, us)
  BY <1>3, <1>4, <1>5, <1>6, Replays
<1>8. Replayed(v, us2) \subseteq PeerIds /\ Replayed(v, us) \subseteq PeerIds
  BY DEF Replayed
<1>. QED
  BY <1>7, <1>8, ZenonT(30) DEF us2

(* Receiving an update is the first step of the replay.                        *)
LEMMA ReplayHead ==
  ASSUME NEW v, NEW us \in Seq(Updates), us # <<>>
  PROVE  Replayed(Applied(v, Head(us)), Tail(us)) = Replayed(v, us)
<1>. DEFINE t == Tail(us)
            n == Len(us)
<1>1. /\ DOMAIN us = 1..n /\ n \in Nat \ {0} /\ Head(us) = us[1] /\ us[1] \in Updates
      /\ DOMAIN t = 1..(n - 1)
      /\ \A i \in 1..(n - 1) : t[i] = us[i + 1]
  OBVIOUS
<1>2. PICK kind \in {"added", "removed", "bad"}, p \in PeerIds : us[1] = <<kind, p>>
  BY <1>1 DEF Updates
<1>. HIDE DEF t, n
<1>3. ASSUME NEW q \in PeerIds
      PROVE  NoneSent(us, q) <=> q # p /\ NoneSent(t, q)
  <2>1. \A i \in 1..n : i = 1 \/ (i - 1 \in 1..(n - 1) /\ t[i - 1] = us[i])
    BY <1>1
  <2>2. \A i \in 1..(n - 1) : i + 1 \in 1..n /\ t[i] = us[i + 1]
    BY <1>1
  <2>3. 1 \in 1..n /\ us[1][2] = p
    BY <1>1, <1>2
  <2>4. ASSUME NoneSent(us, q)
        PROVE  q # p /\ NoneSent(t, q)
    BY <2>2, <2>3, <2>4, <1>1, ZenonT(30) DEF NoneSent
  <2>5. ASSUME q # p, NoneSent(t, q), NEW i \in 1..n
        PROVE  us[i][2] # q
    BY <2>1, <2>3, <2>5, <1>1, ZenonT(30) DEF NoneSent
  <2>. QED
    BY <2>4, <2>5, <1>1 DEF NoneSent
<1>4. ASSUME NEW q \in PeerIds
      PROVE  Decided(us, q) <=> Decided(t, q) \/ (q = p /\ kind = "added" /\ NoneSent(t, q))
  <2>1. ASSUME NEW i \in 1..n, us[i] = <<"added", q>>, \A j \in 1..n : j > i => us[j][2] # q, i # 1
        PROVE  Decided(t, q)
    <3>1. i - 1 \in 1..(n - 1) /\ t[i - 1] = <<"added", q>>
      BY <2>1, <1>1
    <3>2. \A j \in 1..(n - 1) : j > i - 1 => t[j][2] # q
      BY <2>1, <1>1
    <3>. QED
      BY <3>1, <3>2, <1>1, ZenonT(30) DEF Decided
  <2>2. ASSUME us[1] = <<"added", q>>, \A j \in 1..n : j > 1 => us[j][2] # q
        PROVE  q = p /\ kind = "added" /\ NoneSent(t, q)
    BY <2>2, <1>1, <1>2 DEF NoneSent
  <2>3. Decided(us, q) => Decided(t, q) \/ (q = p /\ kind = "added" /\ NoneSent(t, q))
    BY <2>1, <2>2, <1>1, ZenonT(30) DEF Decided
  <2>4. ASSUME NEW i \in 1..(n - 1), t[i] = <<"added", q>>, \A j \in 1..(n - 1) : j > i => t[j][2] # q
        PROVE  Decided(us, q)
    <3>1. i + 1 \in 1..n /\ us[i + 1] = <<"added", q>>
      BY <2>4, <1>1
    <3>2. ASSUME NEW j \in 1..n, j > i + 1
          PROVE  us[j][2] # q
      <4>1. j - 1 \in 1..(n - 1) /\ j - 1 > i /\ (j - 1) + 1 = j
        BY <3>2, <1>1
      <4>. QED
        BY <4>1, <2>4, <1>1, ZenonT(30)
    <3>. QED
      BY <3>1, <3>2, <1>1, ZenonT(30) DEF Decided
  <2>5. ASSUME q = p, kind = "added", NoneSent(t, q)
        PROVE  Decided(us, q)
    <3>1. \A j \in 1..n : j > 1 => us[j][2] # q
      <4>1. \A j \in 1..n : j > 1 => j - 1 \in 1..(n - 1) /\ us[j] = t[j - 1]
        BY <1>1
      <4>. QED
        BY <4>1, <2>5, <1>1 DEF NoneSent
    <3>2. 1 \in 1..n /\ us[1] = <<"added", q>>
      BY <1>1, <1>2, <2>5
    <3>. QED
      BY <3>1, <3>2, <1>1 DEF Decided
  <2>. QED
    BY <2>3, <2>4, <2>5, <1>1, ZenonT(30) DEF Decided
<1>5. NoneSent(t, p) => ~Decided(t, p)
  BY DEF NoneSent, Decided
<1>6. ASSUME NEW q \in PeerIds
      PROVE  q \in Replayed(Applied(v, Head(us)), t) <=> q \in Replayed(v, us)
  <2>1. q \in Applied(v, Head(us)) <=> IF q = p THEN kind = "added" ELSE q \in v
    BY <1>1, <1>2 DEF Applied
  <2>. QED
    BY <2>1, <1>3, <1>4, <1>5, Replays
<1>7. Replayed(Applied(v, Head(us)), t) \subseteq PeerIds /\ Replayed(v, us) \subseteq PeerIds
  BY DEF Replayed
<1>. QED
  BY <1>6, <1>7, ZenonT(30) DEF t

(* The inductive invariant: the sequences hold events and updates about peers. *)
RpcTypes ==
    /\ peers \subseteq PeerIds
    /\ updates \in Seq(Updates)
    /\ events \in Seq({"identified", "added", "removed"} \X PeerIds)

RpcInv == RpcTypes /\ BadPeersStayOut

(* AddPeer, and what RemovePeer and RecordBadPeer do to a peer.                *)
LEMMA AddKeeps ==
  ASSUME RpcInv, NEW p \in PeerIds, AddPeer(p), view' = view
  PROVE  /\ peers' \subseteq PeerIds /\ updates' \in Seq(Updates)
         /\ BadPeersStayOut'
<1>1. CASE MayAdd(p)
  <2>1. peers' = peers \cup {p} /\ updates' = Append(updates, <<"added", p>>) /\ ignoredPeers' = ignoredPeers
    BY <1>1 DEF AddPeer
  <2>3. <<"added", p>> \in Updates
    BY DEF Updates
  <2>2. Replayed(view', updates') = peers'
    BY <2>1, ReplayAppend DEF RpcInv, RpcTypes, BadPeersStayOut
  <2>4. updates' \in Seq(Updates)
    BY <2>1, <2>3 DEF RpcInv, RpcTypes
  <2>. QED
    BY <1>1, <2>1, <2>2, <2>4, ZenonT(30) DEF RpcInv, RpcTypes, BadPeersStayOut, MayAdd
<1>2. CASE ~MayAdd(p)
  BY <1>2 DEF AddPeer, RpcInv, RpcTypes, BadPeersStayOut
<1>. QED
  BY <1>1, <1>2

LEMMA DropKeeps ==
  ASSUME RpcInv, NEW p \in PeerIds, NEW kind \in {"removed", "bad"}, view' = view,
         IF p \in peers THEN peers' = peers \ {p} /\ updates' = Append(updates, <<kind, p>>)
                        ELSE UNCHANGED <<peers, updates>>,
         ignoredPeers' = ignoredPeers \/ ignoredPeers' = ignoredPeers \cup {p}
  PROVE  /\ peers' \subseteq PeerIds /\ updates' \in Seq(Updates)
         /\ BadPeersStayOut'
<1>1. CASE p \in peers
  <2>1. peers' = peers \ {p} /\ updates' = Append(updates, <<kind, p>>)
    BY <1>1
  <2>3. <<kind, p>> \in Updates
    BY DEF Updates
  <2>2. Replayed(view', updates') = peers'
    BY <2>1, ReplayAppend, SMTT(40) DEF RpcInv, RpcTypes, BadPeersStayOut
  <2>. QED
    BY <1>1, <2>1, <2>2, <2>3 DEF RpcInv, RpcTypes, BadPeersStayOut
<1>2. CASE p \notin peers
  BY <1>2 DEF RpcInv, RpcTypes, BadPeersStayOut
<1>. QED
  BY <1>1, <1>2

(* The invariant holds at first, and every step keeps it.                      *)
LEMMA RpcInit == InitPeers => RpcInv
BY DEF InitPeers, RpcInv, RpcTypes, BadPeersStayOut, Replayed

LEMMA RpcStep == RpcInv /\ [NextPeers]_(rpvars) => RpcInv'
<1>. SUFFICES ASSUME RpcInv, [NextPeers]_(rpvars)
              PROVE  RpcInv'
  OBVIOUS
<1>. USE DEF RpcInv, RpcTypes
<1>1. ASSUME NEW p \in PeerIds, Identified(p)
      PROVE  RpcInv'
  BY <1>1 DEF Identified, mgrvars, BadPeersStayOut
<1>2. ASSUME NEW p \in PeerIds, ProtocolsUpdated(p)
      PROVE  RpcInv'
  BY <1>2 DEF ProtocolsUpdated, mgrvars, BadPeersStayOut
<1>3. ASSUME NEW p \in PeerIds, Disconnected(p)
      PROVE  RpcInv'
  BY <1>3 DEF Disconnected, mgrvars, BadPeersStayOut
<1>4. ASSUME NEW p \in PeerIds, DisconnectedF(p)
      PROVE  RpcInv'
  BY <1>4, DropKeeps, Zenon DEF DisconnectedF, RemovePeer, mgrvars, hostvars, BadPeersStayOut
<1>5. ASSUME NEW p \in PeerIds, RecordBadPeer(p)
      PROVE  RpcInv'
  <2>1. /\ peers' \subseteq PeerIds /\ updates' \in Seq(Updates)
        /\ BadPeersStayOut'
    BY <1>5, DropKeeps DEF RecordBadPeer
  <2>. QED
    BY <1>5, <2>1 DEF RecordBadPeer
<1>6. CASE HandleEvent
  <2>. DEFINE kind == Head(events)[1]
              p == Head(events)[2]
  <2>1. p \in PeerIds /\ events' \in Seq({"identified", "added", "removed"} \X PeerIds) /\ view' = view
    BY <1>6 DEF HandleEvent
  <2>2. AddPeer(p) \/ RemovePeer(p) \/ UNCHANGED mgrvars
    BY <1>6 DEF HandleEvent
  <2>. HIDE DEF p
  <2>3. CASE AddPeer(p)
    BY <2>1, <2>3, AddKeeps
  <2>4. CASE RemovePeer(p)
    BY <2>1, <2>4, DropKeeps DEF RemovePeer
  <2>5. CASE UNCHANGED mgrvars
    BY <2>1, <2>5 DEF mgrvars, BadPeersStayOut
  <2>. QED
    BY <2>2, <2>3, <2>4, <2>5
<1>7. CASE ReceiveUpdate
  <2>1. /\ updates # <<>> /\ updates' = Tail(updates) /\ view' = Applied(view, Head(updates))
        /\ peers' = peers /\ ignoredPeers' = ignoredPeers /\ events' = events
    BY <1>7 DEF ReceiveUpdate, hostvars
  <2>2. updates' \in Seq(Updates)
    BY <2>1
  <2>3. Replayed(view', updates') = Replayed(view, updates)
    BY <2>1, ReplayHead
  <2>. QED
    BY <2>1, <2>2, <2>3 DEF BadPeersStayOut
<1>8. CASE UNCHANGED rpvars
  BY <1>8 DEF rpvars, BadPeersStayOut
<1>. QED
  BY <1>1, <1>2, <1>3, <1>4, <1>5, <1>6, <1>7, <1>8 DEF NextPeers

(* THEOREM.  For any number of peers and events, a peer reported as bad stays  *)
(* out (RecordBadPeer), and a subscriber that applies the updates in order     *)
(* ends with the manager's peers (AddPeer, RemovePeer).                        *)
THEOREM BadPeersNeverReturn == PeersSpec => []BadPeersStayOut
<1>1. RpcInv => BadPeersStayOut
  BY DEF RpcInv
<1>. QED
  BY <1>1, RpcInit, RpcStep, PTL DEF PeersSpec


----------------------------------------------------------------------------
(* The access list (go/worker/keymanager/acl.go, watcher.go).               *)
CONSTANTS Nodes, Keys, MaxChanges, MayDropRole
VARIABLES nodes, committee, nodeCh, nodesCh, list, epoCh, watching, observerNodes, computeNodes,
          activeNodes, accessList, accessListByRuntime, changes

INSTANCE KeyManagerAccess


Descriptors == {Gone} \union [role : Roles, key : Keys]
NodeKeys == [Nodes -> Keys \union {0}]

AccessTypes ==
  /\ nodes \in [Nodes -> Descriptors] /\ list \in [Nodes -> Descriptors]
  /\ nodeCh \in Seq([id : Nodes, dsc : Descriptors])
  /\ observerNodes \in NodeKeys /\ computeNodes \in NodeKeys /\ activeNodes \in NodeKeys
  /\ accessList \in [Peers -> SUBSET Runtimes]
  /\ accessListByRuntime \in [Runtimes -> SUBSET Peers]
  /\ nodesCh \in BOOLEAN /\ epoCh \in BOOLEAN

\* The two maps of the access list agree with each other and with what the
\* watchers know.
ListFollows ==
  /\ \A p \in Peers, r \in Runtimes : r \in accessList[p] <=> p \in accessListByRuntime[r]
  /\ accessListByRuntime[RT] = FlatList(observerNodes, computeNodes)
  /\ accessListByRuntime[KM] = PeersOf(activeNodes)

\* A watcher that has not started knows nothing.
WatchersStarted ==
  /\ RT \notin watching => nodeCh = <<>> /\ "loop" \notin watching
  /\ "loop" \notin watching => observerNodes = NoNodes /\ computeNodes = NoNodes
  /\ KM \notin watching => activeNodes = NoNodes /\ ~nodesCh

\* In the events q: the one at i makes x an observer or removes it.
Decides(q, i, x) ==
  q[i].id = x /\ (q[i].dsc = Gone \/ q[i].dsc.role = "observer")

\* The one at i is a registration of x.
Registers(q, i, x) == q[i].id = x /\ q[i].dsc # Gone

\* What is known of an observer, o, is its current descriptor d unless an
\* event that decides is still to come; the last of these has the descriptor.
ObserverOK(q, x, d, o) ==
  /\ (\A i \in 1..Len(q) : ~Decides(q, i, x)) /\ o # 0 => d.role = "observer" /\ d.key = o
  /\ \A i \in 1..Len(q) : Decides(q, i, x) /\ q[i].dsc # Gone =>
       d = q[i].dsc \/ \E j \in (i + 1)..Len(q) : Decides(q, j, x)

\* The key of a committee member, c, is current unless a registration is
\* still to come; the last registration has the current key.
MemberOK(q, x, d, c) ==
  /\ (\A i \in 1..Len(q) : ~Registers(q, i, x)) /\ c # 0 /\ d # Gone => d.key = c
  /\ \A i \in 1..Len(q) : Registers(q, i, x) =>
       \/ d = Gone \/ d.key = q[i].dsc.key
       \/ \E j \in (i + 1)..Len(q) : Registers(q, j, x)

ObserversFollow == \A x \in Nodes : ObserverOK(nodeCh, x, nodes[x], observerNodes[x])

MembersFollow ==
  \A x \in Nodes : /\ ~epoCh /\ computeNodes[x] # 0 => x \in committee
                   /\ MemberOK(nodeCh, x, nodes[x], computeNodes[x])

\* The key managers are those of the last epoch's node list.
ManagersFollow == ~nodesCh => \A x \in Nodes : activeNodes[x] # 0 => list[x].role = "keymanager"

AccessInv ==
  AccessTypes /\ ListFollows /\ WatchersStarted /\ ObserversFollow /\ MembersFollow /\ ManagersFollow
Events == [id : Nodes, dsc : Descriptors]

LEMMA DescriptorFacts ==
  ASSUME NEW d \in Descriptors, 0 \notin Keys
  PROVE  /\ d # Gone => d.key \in Keys /\ d.key # 0 /\ d.role \in Roles
         /\ d.role = "observer" => d # Gone
         /\ Gone.key = 0 /\ Gone.role = "none" /\ d.key \in Keys \union {0}
  BY DEF Descriptors, Gone, Roles

\* A registration or an expiration of e.id is appended.
LEMMA EventAppended ==
  ASSUME NEW q \in Seq(Events), NEW e \in Events, NEW x \in Nodes, NEW o, NEW c,
         NEW d \in Descriptors, NEW d2 \in Descriptors,
         e.id # x => d2 = d,
         e.id = x => d2 = e.dsc /\ (d.role = "observer" => d2 = Gone \/ d2.role = "observer"),
         ObserverOK(q, x, d, o), MemberOK(q, x, d, c)
  PROVE  ObserverOK(Append(q, e), x, d2, o) /\ MemberOK(Append(q, e), x, d2, c)
<1> DEFINE r == Append(q, e)
           k == Len(q)
<1>1. k \in Nat /\ Len(r) = k + 1 /\ r[k + 1] = e /\ \A i \in 1..k : r[i] = q[i]
  OBVIOUS
<1>2. \A i \in 1..k : /\ Decides(r, i, x) <=> Decides(q, i, x)
                      /\ Registers(r, i, x) <=> Registers(q, i, x)
  BY <1>1, Zenon DEF Decides, Registers
<1> HIDE DEF r
<1>3. CASE e.id # x
  <2>1. ~Decides(r, k + 1, x) /\ ~Registers(r, k + 1, x)
    BY <1>1, <1>3, Zenon DEF Decides, Registers
  <2>2. ObserverOK(r, x, d, o)
    <3>1. \A i \in 1..k : Decides(r, i, x) /\ r[i].dsc # Gone =>
            d = r[i].dsc \/ \E j \in (i + 1)..(k + 1) : Decides(r, j, x)
      BY <1>1, <1>2 DEF ObserverOK
    <3> QED BY <1>1, <1>2, <2>1, <3>1 DEF ObserverOK
  <2>3. MemberOK(r, x, d, c)
    <3>1. \A i \in 1..k : Registers(r, i, x) =>
            \/ d = Gone \/ d.key = r[i].dsc.key
            \/ \E j \in (i + 1)..(k + 1) : Registers(r, j, x)
      <4> SUFFICES ASSUME NEW i \in 1..k, Registers(r, i, x), d # Gone, d.key # r[i].dsc.key
                   PROVE  \E j \in (i + 1)..(k + 1) : Registers(r, j, x)
        BY Zenon
      <4>1. Registers(q, i, x) /\ r[i] = q[i]
        BY <1>1, <1>2, Zenon
      <4>2. PICK j \in (i + 1)..k : Registers(q, j, x)
        BY <1>1, <4>1, Zenon DEF MemberOK
      <4>3. j \in 1..k /\ j \in (i + 1)..(k + 1)
        BY <1>1, <4>2
      <4> QED BY <1>2, <4>2, <4>3, Zenon
    <3> QED BY <1>1, <1>2, <2>1, <3>1 DEF MemberOK
  <2> QED BY <1>3, <2>2, <2>3, Zenon DEF r
<1>4. CASE e.id = x
  <2>1. ObserverOK(r, x, d2, o)
    <3>1. ASSUME NEW i \in 1..(k + 1), Decides(r, i, x), r[i].dsc # Gone
          PROVE  d2 = r[i].dsc \/ \E j \in (i + 1)..(k + 1) : Decides(r, j, x)
      <4>1. CASE i = k + 1
        BY <1>1, <1>4, <4>1, Zenon
      <4>2. CASE i # k + 1 /\ d = r[i].dsc
        <5>1. d.role = "observer"
          BY <3>1, <4>2, Zenon DEF Decides
        <5>2. Decides(r, k + 1, x)
          BY <1>1, <1>4, <5>1, Zenon DEF Decides
        <5> QED BY <1>1, <4>2, <5>2
      <4>3. CASE i # k + 1 /\ d # r[i].dsc
        <5>1. i \in 1..k
          BY <1>1, <4>3
        <5>2. PICK j \in (i + 1)..k : Decides(q, j, x)
          BY <1>1, <1>2, <3>1, <4>3, <5>1, Zenon DEF ObserverOK
        <5>3. j \in 1..k /\ j \in (i + 1)..(k + 1)
          BY <1>1, <5>1, <5>2
        <5> QED BY <1>2, <5>2, <5>3, Zenon
      <4> QED BY <4>1, <4>2, <4>3, Zenon
    <3>2. ASSUME \A i \in 1..(k + 1) : ~Decides(r, i, x), o # 0
          PROVE  d2.role = "observer" /\ d2.key = o
      <4>1. ~Decides(r, k + 1, x) /\ \A i \in 1..k : ~Decides(q, i, x)
        BY <1>1, <1>2, <3>2
      <4>2. d.role = "observer"
        BY <3>2, <4>1, Zenon DEF ObserverOK
      <4> QED BY <1>1, <1>4, <4>1, <4>2, Zenon DEF Decides
    <3> QED BY <1>1, <3>1, <3>2, Zenon DEF ObserverOK
  <2>2. MemberOK(r, x, d2, c)
    <3>1. CASE d2 = Gone
      BY <3>1, Zenon DEF MemberOK
    <3>2. CASE d2 # Gone
      <4>1. Registers(r, k + 1, x) /\ k + 1 \in 1..(k + 1)
        BY <1>1, <1>4, <3>2 DEF Registers
      <4>2. ASSUME NEW i \in 1..(k + 1)
            PROVE  d2.key = r[i].dsc.key \/ \E j \in (i + 1)..(k + 1) : Registers(r, j, x)
        BY <1>1, <1>4, <4>1
      <4> QED BY <1>1, <4>1, <4>2, Zenon DEF MemberOK
    <3> QED BY <3>1, <3>2, Zenon
  <2> QED BY <2>1, <2>2, Zenon DEF r
<1> QED BY <1>3, <1>4

\* rtNodeWatcher handles the first event.
LEMMA EventHandled ==
  ASSUME NEW q \in Seq(Events), q # <<>>, NEW x \in Nodes, NEW o, NEW c,
         NEW d \in Descriptors, 0 \notin Keys,
         NEW o2, NEW c2,
         o2 = IF Head(q).id # x THEN o
              ELSE IF Head(q).dsc = Gone THEN 0
              ELSE IF Head(q).dsc.role = "observer" THEN Head(q).dsc.key ELSE o,
         c2 = IF Head(q).id = x /\ Head(q).dsc # Gone /\ c # 0 THEN Head(q).dsc.key ELSE c,
         ObserverOK(q, x, d, o), MemberOK(q, x, d, c)
  PROVE  ObserverOK(Tail(q), x, d, o2) /\ MemberOK(Tail(q), x, d, c2)
<1> DEFINE r == Tail(q)
           k == Len(r)
           e == Head(q)
<1>1. /\ k \in Nat /\ Len(q) = k + 1 /\ q[1] = e /\ \A i \in 1..k : r[i] = q[i + 1]
      /\ e \in Events
  OBVIOUS
<1>2. \A i \in 1..k : /\ Decides(r, i, x) <=> Decides(q, i + 1, x)
                      /\ Registers(r, i, x) <=> Registers(q, i + 1, x)
  BY <1>1, Zenon DEF Decides, Registers
<1>o. o2 = IF e.id # x THEN o ELSE IF e.dsc = Gone THEN 0
           ELSE IF e.dsc.role = "observer" THEN e.dsc.key ELSE o
  BY Zenon
<1>c. c2 = IF e.id = x /\ e.dsc # Gone /\ c # 0 THEN e.dsc.key ELSE c
  BY Zenon
<1> HIDE DEF r, e
<1>3. ASSUME NEW i \in 1..k
      PROVE  /\ i + 1 \in 1..(k + 1)
             /\ \A j \in (i + 2)..(k + 1) : j - 1 \in (i + 1)..k /\ j - 1 \in 1..k
  BY <1>1
<1>4. ASSUME NEW i \in 1..k, Decides(r, i, x), r[i].dsc # Gone
      PROVE  d = r[i].dsc \/ \E j \in (i + 1)..k : Decides(r, j, x)
  <2>1. Decides(q, i + 1, x) /\ q[i + 1].dsc = r[i].dsc
    BY <1>1, <1>2, <1>4, Zenon
  <2>2. SUFFICES ASSUME d # r[i].dsc PROVE \E j \in (i + 1)..k : Decides(r, j, x)
    BY Zenon
  <2>3. PICK j \in (i + 2)..(k + 1) : Decides(q, j, x)
    BY <1>1, <1>3, <1>4, <2>1, <2>2 DEF ObserverOK
  <2>4. j - 1 \in (i + 1)..k /\ j - 1 \in 1..k /\ (j - 1) + 1 = j
    BY <1>1, <1>3, <2>3
  <2>5. Decides(r, j - 1, x)
    BY <1>2, <2>3, <2>4, Zenon
  <2> QED BY <2>4, <2>5, Zenon
<1>5. ASSUME NEW i \in 1..k, Registers(r, i, x)
      PROVE  \/ d = Gone \/ d.key = r[i].dsc.key
             \/ \E j \in (i + 1)..k : Registers(r, j, x)
  <2>1. Registers(q, i + 1, x) /\ q[i + 1].dsc = r[i].dsc
    BY <1>1, <1>2, <1>5, Zenon
  <2>2. SUFFICES ASSUME d # Gone, d.key # r[i].dsc.key
                 PROVE  \E j \in (i + 1)..k : Registers(r, j, x)
    BY Zenon
  <2>3. PICK j \in (i + 2)..(k + 1) : Registers(q, j, x)
    BY <1>1, <1>3, <1>5, <2>1, <2>2, SMTT(40) DEF MemberOK
  <2>4. j - 1 \in (i + 1)..k /\ j - 1 \in 1..k /\ (j - 1) + 1 = j
    BY <1>1, <1>3, <2>3
  <2>5. Registers(r, j - 1, x)
    BY <1>2, <2>3, <2>4, Zenon
  <2> QED BY <2>4, <2>5
<1>6. ASSUME NEW j \in 2..(k + 1)
      PROVE  /\ Decides(q, j, x) => Decides(r, j - 1, x) /\ j - 1 \in 1..k
             /\ Registers(q, j, x) => Registers(r, j - 1, x) /\ j - 1 \in 1..k
  <2>1. j - 1 \in 1..k /\ (j - 1) + 1 = j
    BY <1>1
  <2> QED BY <1>2, <2>1, Zenon
<1>7. ASSUME \A i \in 1..k : ~Decides(r, i, x), o2 # 0
      PROVE  d.role = "observer" /\ d.key = o2
  <2>1. \A j \in 2..(k + 1) : ~Decides(q, j, x)
    BY <1>6, <1>7, Zenon
  <2>2. CASE ~Decides(q, 1, x)
    <3>1. \A i \in 1..(k + 1) : ~Decides(q, i, x)
      BY <1>1, <2>1, <2>2
    <3>2. o2 = o
      BY <1>1, <1>o, <2>2, Zenon DEF Decides
    <3> QED BY <1>1, <1>7, <3>1, <3>2, Zenon DEF ObserverOK
  <2>3. CASE Decides(q, 1, x)
    <3>1. e.id = x /\ e.dsc # Gone /\ e.dsc.role = "observer" /\ o2 = e.dsc.key
      BY <1>1, <1>o, <1>7, <2>3, Zenon DEF Decides
    <3>2. d = e.dsc
      BY <1>1, <2>1, <2>3, <3>1 DEF ObserverOK
    <3> QED BY <3>1, <3>2, Zenon
  <2> QED BY <2>2, <2>3, Zenon
<1>8. ASSUME \A i \in 1..k : ~Registers(r, i, x), c2 # 0, d # Gone
      PROVE  d.key = c2
  <2>1. \A j \in 2..(k + 1) : ~Registers(q, j, x)
    BY <1>6, <1>8, Zenon
  <2>2. CASE ~Registers(q, 1, x)
    <3>1. \A i \in 1..(k + 1) : ~Registers(q, i, x)
      BY <1>1, <2>1, <2>2
    <3>2. c2 = c
      BY <1>1, <1>c, <2>2, Zenon DEF Registers
    <3> QED BY <1>1, <1>8, <3>1, <3>2, Zenon DEF MemberOK
  <2>3. CASE Registers(q, 1, x)
    <3>1. e.id = x /\ e.dsc # Gone
      BY <1>1, <2>3, Zenon DEF Registers
    <3>2. d.key = e.dsc.key
      BY <1>1, <1>8, <2>1, <2>3 DEF MemberOK
    <3> QED BY <1>c, <1>8, <3>1, <3>2, Zenon
  <2> QED BY <2>2, <2>3, Zenon
<1> QED BY <1>4, <1>5, <1>7, <1>8, Zenon DEF ObserverOK, MemberOK, r

LEMMA PeersOfFacts ==
  ASSUME NEW f \in NodeKeys, 0 \notin Keys
  PROVE  /\ PeersOf(f) \subseteq Peers
         /\ \A x \in Nodes, k \in Keys : <<x, k>> \in PeersOf(f) => k = f[x] /\ f[x] # 0
  BY DEF NodeKeys, PeersOf, Peers

LEMMA FlatListFacts ==
  ASSUME NEW o \in NodeKeys, NEW c \in NodeKeys, 0 \notin Keys
  PROVE  /\ FlatList(o, c) \subseteq Peers
         /\ \A x \in Nodes, k \in Keys : <<x, k>> \in FlatList(o, c) =>
              k # 0 /\ (k = o[x] \/ k = c[x])
<1> DEFINE f == [x \in Nodes |-> IF o[x] # 0 THEN o[x] ELSE c[x]]
<1>1. f \in NodeKeys
  BY DEF NodeKeys
<1>2. FlatList(o, c) = PeersOf(f)
  BY DEF FlatList
<1>3. \A x \in Nodes : f[x] = o[x] \/ f[x] = c[x]
  BY Zenon
<1> HIDE DEF f
<1> QED BY <1>1, <1>2, <1>3, PeersOfFacts

\* AccessList.Update replaces the peers of one runtime and keeps both maps
\* in agreement.
LEMMA UpdateKeeps ==
  ASSUME AccessTypes, ListFollows, NEW r \in Runtimes, NEW P, P \subseteq Peers,
         Update(r, P)
  PROVE  /\ accessList' \in [Peers -> SUBSET Runtimes]
         /\ accessListByRuntime' \in [Runtimes -> SUBSET Peers]
         /\ accessListByRuntime'[r] = P
         /\ \A s \in Runtimes \ {r} : accessListByRuntime'[s] = accessListByRuntime[s]
         /\ \A p \in Peers, s \in Runtimes :
              s \in accessList'[p] <=> p \in accessListByRuntime'[s]
<1>1. /\ accessList \in [Peers -> SUBSET Runtimes]
      /\ accessListByRuntime \in [Runtimes -> SUBSET Peers]
      /\ \A p \in Peers, s \in Runtimes :
           s \in accessList[p] <=> p \in accessListByRuntime[s]
  BY DEF AccessTypes, ListFollows
<1>2. /\ accessListByRuntime' \in [Runtimes -> SUBSET Peers]
      /\ accessListByRuntime'[r] = P
      /\ \A s \in Runtimes \ {r} : accessListByRuntime'[s] = accessListByRuntime[s]
  BY <1>1 DEF Update
<1>3. /\ accessList' \in [Peers -> SUBSET Runtimes]
      /\ \A p \in Peers :
           accessList'[p] = IF p \in P THEN accessList[p] \union {r}
                            ELSE IF p \in accessListByRuntime[r] THEN accessList[p] \ {r}
                            ELSE accessList[p]
  BY <1>1, Zenon DEF Update, Cleared
<1>4. ASSUME NEW p \in Peers, NEW s \in Runtimes
      PROVE  s \in accessList'[p] <=> p \in accessListByRuntime'[s]
  <2>1. CASE s = r
    BY <1>1, <1>2, <1>3, <2>1, Zenon
  <2>2. CASE s # r
    <3>1. s \in accessList'[p] <=> s \in accessList[p]
      BY <1>3, <2>2
    <3> QED BY <1>1, <1>2, <2>2, <3>1, Zenon
  <2> QED BY <2>1, <2>2, Zenon
<1> QED BY <1>2, <1>3, <1>4, Zenon

LEMMA RuntimeNames == Runtimes = {KM, RT} /\ KM # RT
  BY Zenon DEF Runtimes, KM, RT

LEMMA UpdateNodesKeeps ==
  ASSUME AccessTypes, ListFollows, 0 \notin Keys, observerNodes' \in NodeKeys,
         computeNodes' \in NodeKeys, activeNodes' = activeNodes, UpdateNodes
  PROVE  /\ ListFollows'
         /\ accessList' \in [Peers -> SUBSET Runtimes]
         /\ accessListByRuntime' \in [Runtimes -> SUBSET Peers]
<1> DEFINE P == FlatList(observerNodes', computeNodes')
<1>1. P \subseteq Peers
  BY FlatListFacts
<1>2. Update(RT, P)
  BY DEF UpdateNodes
<1> HIDE DEF P
<1>3. /\ accessList' \in [Peers -> SUBSET Runtimes]
      /\ accessListByRuntime' \in [Runtimes -> SUBSET Peers]
      /\ accessListByRuntime'[RT] = P
      /\ accessListByRuntime'[KM] = accessListByRuntime[KM]
      /\ \A p \in Peers, s \in Runtimes :
           s \in accessList'[p] <=> p \in accessListByRuntime'[s]
  BY <1>1, <1>2, RuntimeNames, UpdateKeeps, ZenonT(30)
<1>4. accessListByRuntime[KM] = PeersOf(activeNodes)
  BY Zenon DEF ListFollows
<1> QED BY <1>3, <1>4 DEF ListFollows, P

LEMMA UpdateManagersKeeps ==
  ASSUME AccessTypes, ListFollows, 0 \notin Keys, activeNodes' \in NodeKeys,
         observerNodes' = observerNodes, computeNodes' = computeNodes,
         Update(KM, PeersOf(activeNodes'))
  PROVE  /\ ListFollows'
         /\ accessList' \in [Peers -> SUBSET Runtimes]
         /\ accessListByRuntime' \in [Runtimes -> SUBSET Peers]
<1> DEFINE P == PeersOf(activeNodes')
<1>1. P \subseteq Peers
  BY PeersOfFacts
<1> HIDE DEF P
<1>3. /\ accessList' \in [Peers -> SUBSET Runtimes]
      /\ accessListByRuntime' \in [Runtimes -> SUBSET Peers]
      /\ accessListByRuntime'[KM] = P
      /\ accessListByRuntime'[RT] = accessListByRuntime[RT]
      /\ \A p \in Peers, s \in Runtimes :
           s \in accessList'[p] <=> p \in accessListByRuntime'[s]
  BY <1>1, RuntimeNames, UpdateKeeps, ZenonT(30) DEF P
<1>4. accessListByRuntime[RT] = FlatList(observerNodes, computeNodes)
  BY Zenon DEF ListFollows
<1> QED BY <1>3, <1>4, ZenonT(40) DEF ListFollows, P

LEMMA AccessInit == ASSUME 0 \notin Keys PROVE InitAccess => AccessInv
<1> SUFFICES ASSUME InitAccess PROVE AccessInv
  OBVIOUS
<1>1. /\ observerNodes = NoNodes /\ computeNodes = NoNodes /\ activeNodes = NoNodes
      /\ NoNodes \in NodeKeys /\ nodeCh = <<>> /\ watching = {} /\ nodesCh = FALSE
      /\ \A x \in Nodes : NoNodes[x] = 0
  BY DEF InitAccess, NoNodes, NodeKeys
<1>2. AccessTypes
  <2>1. /\ nodes \in [Nodes -> Descriptors] /\ list \in [Nodes -> Descriptors]
        /\ nodesCh \in BOOLEAN /\ epoCh \in BOOLEAN
    BY ZenonT(30) DEF InitAccess, Descriptors
  <2>2. nodeCh \in Seq([id : Nodes, dsc : Descriptors])
    BY <1>1
  <2>3. /\ accessList \in [Peers -> SUBSET Runtimes]
        /\ accessListByRuntime \in [Runtimes -> SUBSET Peers]
    BY Zenon DEF InitAccess
  <2> QED BY <1>1, <2>1, <2>2, <2>3 DEF AccessTypes
<1>3. PeersOf(NoNodes) = {} /\ FlatList(NoNodes, NoNodes) = {}
  BY Zenon DEF NoNodes, PeersOf, FlatList
<1>4. ListFollows
  BY <1>1, <1>3, RuntimeNames, Zenon DEF InitAccess, ListFollows
<1> QED BY <1>1, <1>2, <1>4
        DEF AccessInv, WatchersStarted, ObserversFollow, MembersFollow, ManagersFollow,
            ObserverOK, MemberOK

\* A registration or an expiration: the event, if somebody listens, keeps
\* what is known and what is to come in step with the registry.
LEMMA RegistryStep ==
  ASSUME AccessInv, 0 \notin Keys, NEW x \in Nodes, NEW d \in Descriptors,
         nodes[x].role = "observer" => d = Gone \/ d.role = "observer",
         nodes' = [nodes EXCEPT ![x] = d], Event(x),
         UNCHANGED <<committee, nodesCh, list, epoCh, watching, observerNodes, computeNodes,
                     activeNodes, accessList, accessListByRuntime>>
  PROVE  AccessInv'
<1>1. AccessTypes /\ ListFollows /\ WatchersStarted /\ ObserversFollow /\ MembersFollow
      /\ ManagersFollow
  BY Zenon DEF AccessInv
<1>2. nodes' \in [Nodes -> Descriptors] /\ nodes'[x] = d /\ \A y \in Nodes \ {x} : nodes'[y] = nodes[y]
  BY <1>1, Zenon DEF AccessTypes
<1>3. CASE RT \in watching
  <2> DEFINE e == [id |-> x, dsc |-> d]
  <2>1. nodeCh' = Append(nodeCh, e)
    BY <1>2, <1>3, Zenon DEF Event
  <2>2. e \in Events /\ e.id = x /\ e.dsc = d /\ nodeCh \in Seq(Events)
    BY <1>1, Zenon DEF Events, AccessTypes
  <2> HIDE DEF e
  <2>3. nodeCh' \in Seq(Events)
    BY <2>1, <2>2
  <2>4. ASSUME NEW y \in Nodes
        PROVE  /\ ObserverOK(nodeCh', y, nodes'[y], observerNodes[y])
               /\ MemberOK(nodeCh', y, nodes'[y], computeNodes[y])
    <3>1. ObserverOK(nodeCh, y, nodes[y], observerNodes[y]) /\ MemberOK(nodeCh, y, nodes[y], computeNodes[y])
      BY <1>1, Zenon DEF ObserversFollow, MembersFollow
    <3>2. nodes[y] \in Descriptors /\ nodes'[y] \in Descriptors
      BY <1>1, <1>2, Zenon DEF AccessTypes
    <3>3. /\ e.id # y => nodes'[y] = nodes[y]
          /\ e.id = y => /\ nodes'[y] = e.dsc
                         /\ nodes[y].role = "observer" => nodes'[y] = Gone \/ nodes'[y].role = "observer"
      BY <1>2, <2>2, Zenon
    <3> QED BY <2>1, <2>2, <3>1, <3>2, <3>3, EventAppended, Zenon
  <2>5. AccessTypes'
    BY <1>1, <1>2, <2>3, Zenon DEF AccessTypes, Events
  <2>6. ListFollows' /\ WatchersStarted' /\ ManagersFollow'
    BY <1>1, <1>3, Zenon DEF ListFollows, WatchersStarted, ManagersFollow
  <2>7. ObserversFollow' /\ MembersFollow'
    BY <1>1, <2>4, ZenonT(30) DEF ObserversFollow, MembersFollow
  <2> QED BY <2>5, <2>6, <2>7, Zenon DEF AccessInv
<1>4. CASE RT \notin watching
  <2>1. nodeCh' = <<>> /\ nodeCh = <<>> /\ "loop" \notin watching
    BY <1>1, <1>4, Zenon DEF Event, WatchersStarted
  <2>2. \A y \in Nodes : observerNodes[y] = 0 /\ computeNodes[y] = 0
    BY <1>1, <2>1, Zenon DEF WatchersStarted, NoNodes
  <2>3. \A y \in Nodes : /\ ObserverOK(nodeCh', y, nodes'[y], observerNodes[y])
                         /\ MemberOK(nodeCh', y, nodes'[y], computeNodes[y])
    BY <2>1, <2>2 DEF ObserverOK, MemberOK
  <2>4. AccessTypes'
    BY <1>1, <1>2, <2>1 DEF AccessTypes
  <2>5. ListFollows' /\ WatchersStarted' /\ ManagersFollow'
    BY <1>1, <1>4, <2>1 DEF ListFollows, WatchersStarted, ManagersFollow
  <2>6. ObserversFollow' /\ MembersFollow'
    BY <1>1, <2>3, ZenonT(40) DEF ObserversFollow, MembersFollow
  <2> QED BY <2>4, <2>5, <2>6 DEF AccessInv
<1> QED BY <1>3, <1>4, Zenon

\* A watcher of the client runtime replaced what it knows.
LEMMA WatcherStep ==
  ASSUME AccessInv, 0 \notin Keys, observerNodes' \in NodeKeys, computeNodes' \in NodeKeys,
         UpdateNodes, UNCHANGED <<nodes, committee, list, nodesCh, activeNodes>>,
         nodeCh' \in Seq(Events), epoCh' \in BOOLEAN, WatchersStarted',
         \A x \in Nodes : /\ ~epoCh' /\ computeNodes'[x] # 0 => x \in committee
                          /\ ObserverOK(nodeCh', x, nodes[x], observerNodes'[x])
                          /\ MemberOK(nodeCh', x, nodes[x], computeNodes'[x])
  PROVE  AccessInv'
<1>1. AccessTypes /\ ListFollows /\ ManagersFollow
  BY Zenon DEF AccessInv
<1>2. /\ ListFollows'
      /\ accessList' \in [Peers -> SUBSET Runtimes]
      /\ accessListByRuntime' \in [Runtimes -> SUBSET Peers]
  BY <1>1, UpdateNodesKeeps, Zenon
<1>3. AccessTypes'
  BY <1>1, <1>2, Zenon DEF AccessTypes, Events
<1>4. ObserversFollow' /\ MembersFollow' /\ ManagersFollow'
  BY <1>1, Zenon DEF ObserversFollow, MembersFollow, ManagersFollow
<1> QED BY <1>2, <1>3, <1>4, ZenonT(40) DEF AccessInv

LEMMA AccessStep ==
  ASSUME 0 \notin Keys, ~MayDropRole, AccessInv, [NextAccess]_(kmavars)
  PROVE  AccessInv'
<1>1. AccessTypes /\ ListFollows /\ WatchersStarted /\ ObserversFollow /\ MembersFollow
      /\ ManagersFollow
  BY DEF AccessInv
<1>2. /\ nodes \in [Nodes -> Descriptors] /\ list \in [Nodes -> Descriptors]
      /\ nodeCh \in Seq(Events) /\ observerNodes \in NodeKeys /\ computeNodes \in NodeKeys
      /\ activeNodes \in NodeKeys
      /\ \A x \in Nodes : nodes[x] \in Descriptors
  BY <1>1, Zenon DEF AccessTypes, Events
<1>3. \A x \in Nodes : /\ ObserverOK(nodeCh, x, nodes[x], observerNodes[x])
                       /\ MemberOK(nodeCh, x, nodes[x], computeNodes[x])
                       /\ ~epoCh /\ computeNodes[x] # 0 => x \in committee
  BY <1>1 DEF ObserversFollow, MembersFollow
<1>4. ASSUME NEW x \in Nodes, RegisterNode(x) PROVE AccessInv'
  <2>1. PICK role \in Roles, key \in Keys :
          /\ nodes[x] # Gone /\ nodes[x].role # role => MayDropRole
          /\ nodes' = [nodes EXCEPT ![x] = [role |-> role, key |-> key]]
    BY <1>4, ZenonT(30) DEF RegisterNode
  <2> DEFINE d == [role |-> role, key |-> key]
  <2>2. d \in Descriptors /\ d.role = role
    BY Zenon DEF Descriptors
  <2>3. nodes' = [nodes EXCEPT ![x] = d]
    BY <2>1, Zenon
  <2> HIDE DEF d
  <2>4. nodes[x].role = "observer" => d.role = "observer"
    BY <1>2, <2>1, <2>2, DescriptorFacts, Zenon
  <2>5. /\ Event(x)
        /\ UNCHANGED <<committee, nodesCh, list, epoCh, watching, observerNodes, computeNodes,
                       activeNodes, accessList, accessListByRuntime>>
    BY <1>4 DEF RegisterNode, aclvars
  <2> QED BY <2>2, <2>3, <2>4, <2>5, RegistryStep, ZenonT(30)
<1>5. ASSUME NEW x \in Nodes, Expire(x) PROVE AccessInv'
  <2>1. Gone \in Descriptors
    BY Zenon DEF Descriptors
  <2>2. /\ nodes' = [nodes EXCEPT ![x] = Gone] /\ Event(x)
        /\ UNCHANGED <<committee, nodesCh, list, epoCh, watching, observerNodes, computeNodes,
                       activeNodes, accessList, accessListByRuntime>>
    BY <1>5 DEF Expire, aclvars
  <2> QED BY <2>1, <2>2, RegistryStep, ZenonT(30)
<1>6. CASE NewEpoch
  <2>1. /\ nodesCh' = (nodesCh \/ KM \in watching) /\ epoCh' = (epoCh \/ RT \in watching)
        /\ list' = nodes
        /\ UNCHANGED <<nodes, nodeCh, watching, observerNodes, computeNodes, activeNodes,
                       accessList, accessListByRuntime>>
    BY <1>6, Zenon DEF NewEpoch, aclvars
  <2>2. AccessTypes'
    BY <1>1, <2>1 DEF AccessTypes
  <2>3. ListFollows' /\ WatchersStarted' /\ ObserversFollow'
    BY <1>1, <2>1, ZenonT(30) DEF ListFollows, WatchersStarted, ObserversFollow
  <2>4. RT \notin watching => \A x \in Nodes : computeNodes[x] = 0
    BY <1>1 DEF WatchersStarted, NoNodes
  <2>5. KM \notin watching => \A x \in Nodes : activeNodes[x] = 0
    BY <1>1 DEF WatchersStarted, NoNodes
  <2>6. MembersFollow'
    BY <1>3, <2>1, <2>4, ZenonT(30) DEF MembersFollow
  <2>7. ManagersFollow'
    BY <2>1, <2>5, ZenonT(30) DEF ManagersFollow
  <2> QED BY <2>2, <2>3, <2>6, <2>7, Zenon DEF AccessInv
<1>7. CASE StartRuntimeWatcher
  <2>1. /\ watching' = watching \union {RT} /\ epoCh' = TRUE /\ RT \notin watching
        /\ UNCHANGED <<nodes, committee, list, nodeCh, nodesCh, observerNodes, computeNodes,
                       activeNodes, accessList, accessListByRuntime>>
    BY <1>7, Zenon DEF StartRuntimeWatcher, regvars, aclvars
  <2>2. AccessTypes' /\ ListFollows' /\ ObserversFollow' /\ ManagersFollow'
    BY <1>1, <2>1, Zenon DEF AccessTypes, ListFollows, ObserversFollow, ManagersFollow
  <2>3. MembersFollow'
    BY <1>3, <2>1, Zenon DEF MembersFollow
  <2>4. WatchersStarted'
    BY <1>1, <2>1, Zenon DEF WatchersStarted, RT, KM
  <2> QED BY <2>2, <2>3, <2>4, Zenon DEF AccessInv
<1>8. CASE ReadObservers
  <2>1. /\ RT \in watching /\ "loop" \notin watching /\ watching' = watching \union {"loop"}
        /\ observerNodes' = Observers /\ computeNodes' = computeNodes /\ UpdateNodes
        /\ UNCHANGED <<nodes, committee, list, nodeCh, nodesCh, epoCh, activeNodes>>
    BY <1>8, Zenon DEF ReadObservers, regvars
  <2>2. /\ Observers \in NodeKeys
        /\ \A x \in Nodes : Observers[x] # 0 =>
             nodes[x].role = "observer" /\ nodes[x].key = Observers[x]
    BY <1>2, DescriptorFacts, Zenon DEF Observers, NodeKeys
  <2>3. \A x \in Nodes : ObserverOK(nodeCh, x, nodes[x], Observers[x])
    BY <1>3, <2>2, Zenon DEF ObserverOK
  <2>4. WatchersStarted'
    BY <1>1, <2>1, Zenon DEF WatchersStarted, RT, KM
  <2>5. epoCh' \in BOOLEAN
    BY <1>1, <2>1 DEF AccessTypes
  <2> QED BY <1>2, <1>3, <2>1, <2>2, <2>3, <2>4, <2>5, WatcherStep, Zenon
<1>9. CASE HandleEpoch
  <2>1. /\ "loop" \in watching /\ epoCh' = FALSE /\ UpdateNodes
        /\ observerNodes' = observerNodes
        /\ UNCHANGED <<nodes, committee, list, nodeCh, nodesCh, watching, activeNodes>>
    BY <1>9 DEF HandleEpoch, regvars
  <2>2. computeNodes' = Members \/ computeNodes' = NoNodes
    BY <1>9, Zenon DEF HandleEpoch, ClearedOnError
  <2>3. /\ computeNodes' \in NodeKeys
        /\ \A x \in Nodes : computeNodes'[x] # 0 =>
             x \in committee /\ nodes[x].key = computeNodes'[x]
    <3>1. CASE computeNodes' = Members
      BY <1>2, <3>1, DescriptorFacts, Zenon DEF Members, NodeKeys
    <3>2. CASE computeNodes' = NoNodes
      BY <3>2, Zenon DEF NoNodes, NodeKeys
    <3> QED BY <2>2, <3>1, <3>2, Zenon
  <2>4. \A x \in Nodes : MemberOK(nodeCh, x, nodes[x], computeNodes'[x])
    BY <1>3, <2>3, Zenon DEF MemberOK
  <2>5. WatchersStarted'
    BY <1>1, <2>1 DEF WatchersStarted
  <2> QED BY <1>2, <1>3, <2>1, <2>3, <2>4, <2>5, WatcherStep, ZenonT(30)
<1>10. CASE HandleNodeEvent
  <2> DEFINE e == Head(nodeCh)
  <2>1. /\ "loop" \in watching /\ nodeCh # <<>> /\ nodeCh' = Tail(nodeCh) /\ UpdateNodes
        /\ observerNodes' = [observerNodes EXCEPT ![e.id] =
             IF e.dsc = Gone THEN 0 ELSE IF e.dsc.role = "observer" THEN e.dsc.key ELSE @]
        /\ computeNodes' = [computeNodes EXCEPT ![e.id] =
             IF e.dsc # Gone /\ @ # 0 THEN e.dsc.key ELSE @]
        /\ UNCHANGED <<nodes, committee, list, nodesCh, epoCh, watching, activeNodes>>
    BY <1>10 DEF HandleNodeEvent, regvars
  <2>2. e \in Events /\ e.id \in Nodes /\ e.dsc \in Descriptors /\ nodeCh' \in Seq(Events)
    <3>1. e \in Events /\ nodeCh' \in Seq(Events)
      BY <1>2, <2>1
    <3> HIDE DEF e
    <3> QED BY <3>1, Zenon DEF Events
  <2>e. e.dsc # Gone => e.dsc.key \in Keys
    BY <2>2, DescriptorFacts, Zenon
  <2>3. /\ observerNodes' \in NodeKeys /\ computeNodes' \in NodeKeys
        /\ \A x \in Nodes :
             /\ observerNodes'[x] = IF e.id # x THEN observerNodes[x]
                  ELSE IF e.dsc = Gone THEN 0
                  ELSE IF e.dsc.role = "observer" THEN e.dsc.key ELSE observerNodes[x]
             /\ computeNodes'[x] = IF e.id = x /\ e.dsc # Gone /\ computeNodes[x] # 0
                                   THEN e.dsc.key ELSE computeNodes[x]
    BY <1>2, <2>1, <2>2, <2>e, Zenon DEF NodeKeys
  <2>4. ASSUME NEW x \in Nodes
        PROVE  /\ ObserverOK(nodeCh', x, nodes[x], observerNodes'[x])
               /\ MemberOK(nodeCh', x, nodes[x], computeNodes'[x])
               /\ computeNodes'[x] # 0 => computeNodes[x] # 0
    <3>1. /\ nodeCh \in Seq(Events) /\ nodeCh # <<>> /\ nodeCh' = Tail(nodeCh)
          /\ nodes[x] \in Descriptors
      BY <1>2, <2>1, Zenon
    <3>2. ObserverOK(nodeCh, x, nodes[x], observerNodes[x]) /\ MemberOK(nodeCh, x, nodes[x], computeNodes[x])
      BY <1>3, <2>1, Zenon
    <3>3. PICK o2, c2 : o2 = observerNodes'[x] /\ c2 = computeNodes'[x]
      BY Zenon
    <3>4. ObserverOK(Tail(nodeCh), x, nodes[x], o2) /\ MemberOK(Tail(nodeCh), x, nodes[x], c2)
      BY <2>3, <3>1, <3>2, <3>3, EventHandled, Zenon
    <3>5. computeNodes'[x] # 0 => computeNodes[x] # 0
      BY <2>3, Zenon
    <3> QED BY <3>1, <3>3, <3>4, <3>5, Zenon
  <2>5. WatchersStarted'
    BY <1>1, <2>1, Zenon DEF WatchersStarted
  <2>6. epoCh' \in BOOLEAN
    BY <1>1, <2>1, Zenon DEF AccessTypes
  <2>7. \A x \in Nodes : ~epoCh' /\ computeNodes'[x] # 0 => x \in committee
    BY <1>3, <2>1, <2>4, Zenon
  <2> QED BY <2>1, <2>2, <2>3, <2>4, <2>5, <2>6, <2>7, WatcherStep, ZenonT(30)
<1>11. CASE StartNodeWatcher
  <2>1. /\ watching' = watching \union {KM} /\ nodesCh' = TRUE
        /\ UNCHANGED <<nodes, committee, list, nodeCh, epoCh, observerNodes, computeNodes,
                       activeNodes, accessList, accessListByRuntime>>
    BY <1>11, Zenon DEF StartNodeWatcher, regvars, aclvars
  <2>2. AccessTypes' /\ ListFollows' /\ ObserversFollow' /\ MembersFollow' /\ ManagersFollow'
    BY <1>1, <2>1, Zenon
       DEF AccessTypes, ListFollows, ObserversFollow, MembersFollow, ManagersFollow
  <2>3. WatchersStarted'
    BY <1>1, <2>1, Zenon DEF WatchersStarted, RT, KM
  <2> QED BY <2>2, <2>3, Zenon DEF AccessInv
<1>12. ASSUME activeNodes' \in NodeKeys, Update(KM, PeersOf(activeNodes')),
              UNCHANGED <<nodes, committee, list, nodeCh, epoCh, watching, observerNodes,
                          computeNodes>>,
              nodesCh' \in BOOLEAN, KM \in watching,
              ~nodesCh' => \A x \in Nodes : activeNodes'[x] # 0 => list[x].role = "keymanager"
       PROVE  AccessInv'
  <2>1. /\ ListFollows'
        /\ accessList' \in [Peers -> SUBSET Runtimes]
        /\ accessListByRuntime' \in [Runtimes -> SUBSET Peers]
    BY <1>1, <1>12, UpdateManagersKeeps, Zenon
  <2>2. AccessTypes'
    BY <1>1, <1>12, <2>1, Zenon DEF AccessTypes
  <2>3. ObserversFollow' /\ MembersFollow' /\ ManagersFollow' /\ WatchersStarted'
    BY <1>1, <1>12, Zenon DEF ObserversFollow, MembersFollow, ManagersFollow, WatchersStarted
  <2> QED BY <2>1, <2>2, <2>3, Zenon DEF AccessInv
<1>13. CASE HandleNodeList
  <2>1. /\ nodesCh /\ nodesCh' = FALSE
        /\ activeNodes' = [x \in Nodes |-> IF list[x].role = "keymanager" THEN nodes[x].key ELSE 0]
        /\ Update(KM, PeersOf(activeNodes'))
        /\ UNCHANGED <<nodes, committee, list, nodeCh, epoCh, watching, observerNodes,
                       computeNodes>>
    BY <1>13, ZenonT(40) DEF HandleNodeList, regvars
  <2>2. /\ activeNodes' \in NodeKeys
        /\ \A x \in Nodes : activeNodes'[x] # 0 => list[x].role = "keymanager"
    BY <1>2, <2>1, DescriptorFacts, Zenon DEF NodeKeys
  <2>3. KM \in watching
    BY <1>1, <2>1, Zenon DEF WatchersStarted
  <2> QED BY <1>12, <2>1, <2>2, <2>3, ZenonT(90)
<1>14. ASSUME NEW x \in Nodes, HandleNodeUpdate(x) PROVE AccessInv'
  <2>1. /\ activeNodes[x] # 0 /\ nodes[x] # Gone
        /\ activeNodes' = [activeNodes EXCEPT ![x] = nodes[x].key]
        /\ Update(KM, PeersOf(activeNodes'))
        /\ UNCHANGED <<nodes, committee, list, nodeCh, nodesCh, epoCh, watching, observerNodes,
                       computeNodes>>
    BY <1>14, Zenon DEF HandleNodeUpdate, regvars
  <2>2. nodes[x].key \in Keys
    BY <1>2, <2>1, DescriptorFacts, Zenon
  <2>3. activeNodes' \in NodeKeys /\ \A y \in Nodes : activeNodes'[y] # 0 => activeNodes[y] # 0
    BY <1>2, <2>1, <2>2, Zenon DEF NodeKeys
  <2>4. ~nodesCh' => \A y \in Nodes : activeNodes'[y] # 0 => list[y].role = "keymanager"
    BY <1>1, <2>1, <2>3, Zenon DEF ManagersFollow
  <2>5. KM \in watching /\ nodesCh' \in BOOLEAN
    BY <1>1, <2>1, Zenon DEF WatchersStarted, NoNodes, AccessTypes
  <2> QED BY <1>12, <2>1, <2>3, <2>4, <2>5, Zenon
<1>15. CASE UNCHANGED kmavars
  BY <1>1, <1>15, Zenon
     DEF kmavars, AccessInv, AccessTypes, ListFollows, WatchersStarted, ObserversFollow,
         MembersFollow, ManagersFollow
<1> QED
  BY <1>4, <1>5, <1>6, <1>7, <1>8, <1>9, <1>10, <1>11, <1>13, <1>14, <1>15, Zenon DEF NextAccess

LEMMA AccessConclusion ==
  ASSUME 0 \notin Keys, AccessInv
  PROVE  AccessIsCurrent
<1> SUFFICES ASSUME Quiescent, NEW x \in Nodes, NEW k \in Keys, Authorized(x, k)
             PROVE  /\ \/ nodes[x].role = "observer" \/ x \in committee
                       \/ list[x].role = "keymanager"
                    /\ nodes[x] # Gone => nodes[x].key = k
  BY DEF AccessIsCurrent
<1>1. AccessTypes /\ ListFollows /\ ObserversFollow /\ MembersFollow /\ ManagersFollow
  BY DEF AccessInv
<1>2. <<x, k>> \in Peers
  BY DEF Peers
<1>3. PICK r \in Runtimes : r \in accessList[<<x, k>>]
  BY <1>1, <1>2, Zenon DEF Authorized, AccessTypes
<1>4. <<x, k>> \in accessListByRuntime[r]
  BY <1>1, <1>2, <1>3, Zenon DEF ListFollows
<1>5. nodeCh = <<>> /\ ~epoCh /\ ~nodesCh
  BY Zenon DEF Quiescent
<1>6. CASE r = RT
  <2>1. k # 0 /\ (k = observerNodes[x] \/ k = computeNodes[x])
    BY <1>1, <1>4, <1>6, FlatListFacts DEF ListFollows, AccessTypes
  <2>e. 1..Len(<<>>) = {}
    OBVIOUS
  <2>2. CASE k = observerNodes[x]
    <3>1. ObserverOK(<<>>, x, nodes[x], k)
      BY <1>1, <1>5, <2>2 DEF ObserversFollow
    <3>2. nodes[x].role = "observer" /\ nodes[x].key = k
      BY <2>1, <2>e, <3>1, Zenon DEF ObserverOK
    <3> QED BY <3>2, Zenon
  <2>3. CASE k = computeNodes[x]
    <3>1. x \in committee /\ MemberOK(<<>>, x, nodes[x], k)
      BY <1>1, <1>5, <2>1, <2>3, Zenon DEF MembersFollow
    <3>2. nodes[x] # Gone => nodes[x].key = k
      BY <2>1, <2>e, <3>1, Zenon DEF MemberOK
    <3> QED BY <3>1, <3>2, Zenon
  <2> QED BY <2>1, <2>2, <2>3, Zenon
<1>7. CASE r = KM
  <2>1. k = activeNodes[x] /\ activeNodes[x] # 0
    BY <1>1, <1>4, <1>7, PeersOfFacts DEF ListFollows, AccessTypes
  <2> QED BY <1>1, <1>5, <2>1, Zenon DEF ManagersFollow, Quiescent
<1> QED BY <1>3, <1>6, <1>7, RuntimeNames, ZenonT(30)

\* Once its watchers have handled what happened, a key manager node lets in
\* only registered observers, committee members and key managers, under the
\* keys of their current descriptors (acl.go, Update; watcher.go).  The
\* hypotheses: 0 stands for "no key", and no registration trades the observer
\* role for another one without the node expiring in between.
THEOREM AccessStaysCurrent ==
  ASSUME 0 \notin Keys, ~MayDropRole
  PROVE  AccessSpec => []AccessIsCurrent
<1>1. InitAccess => AccessInv
  BY AccessInit
<1>2. AccessInv /\ [NextAccess]_(kmavars) => AccessInv'
  BY AccessStep
<1>3. AccessInv => AccessIsCurrent
  BY AccessConclusion
<1> QED BY <1>1, <1>2, <1>3, PTL DEF AccessSpec

----------------------------------------------------------------------------
(* The client (go/worker/common/committee/keymanager.go).                   *)
CONSTANTS Ids, ManagerPeers, Calls, Deprecated, cacheSize, MayUnset
VARIABLES id, cli, made, clientNodes, lastFeedback, cache, call, panicked

INSTANCE KeyManagerClient WITH nodes <- clientNodes, last <- lastFeedback


AllPeers == UNION {ManagerPeers[k] : k \in Ids}
CallRec == [pc : {"idle", "nodes", "rpc", "answered", "done"}, cli : Nat, peers : SUBSET AllPeers,
            feedback : [cli : Nat, peer : AllPeers \cup {None}]]

(* Clients are numbered from 1 in the order they are made.                     *)
KType ==
    /\ \E m \in Nat : DOMAIN made = 1..m
    /\ cli \in Nat
    /\ cli # None => made[cli] \in Ids /\ clientNodes[cli] \subseteq AllPeers
    /\ call \in [Calls -> CallRec]

(* An answered call carries feedback about the client that it got at its       *)
(* start; this is what the comparison in the last-feedback critical section relies on. *)
AnswerIsOfClient == \A c \in Calls : call[c].pc = "answered" => call[c].feedback.cli = call[c].cli

KInv == KType /\ AnswerIsOfClient /\ FeedbackIsCurrent

(* At the start there is no client, no call and no feedback.                   *)
LEMMA KInit == InitClient => KInv
<1> SUFFICES ASSUME InitClient PROVE KInv
  OBVIOUS
<1>1. DOMAIN made = 1..0
  BY DEF InitClient
<1> QED BY <1>1, Zenon DEF InitClient, Idle, None, NoFeedback, CallRec, KInv, KType, AnswerIsOfClient, FeedbackIsCurrent

(* The key manager changes: the feedback is dropped with the client            *)
(* (SetKeyManagerID in keymanager.go), and calls in progress are left alone.   *)
LEMMA KSet == ASSUME SetFacts, NEW k \in Ids \cup {None}, KInv, SetKeyManagerID(k) PROVE KInv'
<1>1. PICK m \in Nat : DOMAIN made = 1..m
  BY DEF KInv, KType
<1>2. Cardinality(DOMAIN made) = m
  <2>1. Cardinality(1..m) = m
    BY IntervalIsFinite
  <2> QED BY <1>1, <2>1, Zenon
<1>3. lastFeedback' = NoFeedback /\ call' = call
  BY Zenon DEF SetKeyManagerID
<1>4. CASE k = None
  <2>1. cli' = None /\ made' = made
    BY <1>4, Zenon DEF SetKeyManagerID
  <2>2. cli' \in Nat
    BY <2>1 DEF None
  <2>3. KType'
    BY <1>3, <2>1, <2>2, Zenon DEF KInv, KType
  <2> QED BY <1>3, <2>3, Zenon DEF KInv, AnswerIsOfClient, FeedbackIsCurrent
<1>5. CASE k # None
  <2>1. /\ cli' = m + 1
        /\ made' = [i \in 1..(m + 1) |-> IF i = m + 1 THEN k ELSE made[i]]
        /\ clientNodes' = [i \in 1..(m + 1) |-> IF i = m + 1 THEN {} ELSE clientNodes[i]]
    BY <1>2, <1>5, Zenon DEF SetKeyManagerID
  <2>2. m + 1 \in Nat /\ m + 1 \in 1..(m + 1)
    OBVIOUS
  <2>3. DOMAIN made' = 1..(m + 1) /\ made'[cli'] \in Ids /\ clientNodes'[cli'] = {}
    BY <1>5, <2>1, <2>2, Zenon
  <2>4. KType'
    BY <1>3, <2>1, <2>2, <2>3, Zenon DEF KInv, KType
  <2> QED BY <1>3, <2>4, Zenon DEF KInv, AnswerIsOfClient, FeedbackIsCurrent
<1> QED BY <1>4, <1>5, Zenon

(* The tracker of the current client learns of other nodes.                          *)
LEMMA KStatus == KInv /\ StatusUpdate => KInv'
<1> SUFFICES ASSUME KInv, StatusUpdate PROVE KInv'
  OBVIOUS
<1>1. PICK ps \in SUBSET ManagerPeers[made[cli]] \ {{}} : clientNodes' = [clientNodes EXCEPT ![cli] = ps]
  BY ZenonT(30) DEF StatusUpdate
<1>2. ps \subseteq AllPeers
  BY <1>1, Zenon DEF StatusUpdate, KInv, KType, AllPeers
<1>3. clientNodes'[cli] \subseteq AllPeers
  BY <1>1, <1>2 DEF StatusUpdate, KInv, KType
<1>4. UNCHANGED <<cli, made, call, lastFeedback>>
  BY Zenon DEF StatusUpdate
<1>5. KType'
  BY <1>3, <1>4, Zenon DEF KInv, KType
<1> QED BY <1>4, <1>5, Zenon DEF KInv, AnswerIsOfClient, FeedbackIsCurrent

(* The steps of a call: only Answer sets its feedback and only Store uses it.  *)
LEMMA KCall ==
  ASSUME NEW c \in Calls, KInv, NEW r \in CallRec, r.pc = "answered" => r.feedback.cli = r.cli,
         call' = [call EXCEPT ![c] = r], UNCHANGED <<cli, made, clientNodes, lastFeedback>>
  PROVE  KInv'
<1>1. call' \in [Calls -> CallRec]
  BY Zenon DEF KInv, KType
<1>2. AnswerIsOfClient'
  BY DEF KInv, KType, AnswerIsOfClient
<1> QED BY <1>1, <1>2, Zenon DEF KInv, KType, FeedbackIsCurrent

(* A call copies the current client (CallEnclave, first critical section).     *)
LEMMA KGetClient == ASSUME NEW c \in Calls, KInv, GetClient(c) PROVE KInv'
<1> DEFINE r == IF cli = None THEN [call[c] EXCEPT !.pc = "done"] ELSE [call[c] EXCEPT !.pc = "nodes", !.cli = cli]
<1>1. call[c] \in CallRec /\ cli \in Nat
  BY DEF KInv, KType
<1>2. r \in CallRec /\ r.pc # "answered"
  BY <1>1, ZenonT(30) DEF CallRec
<1>3. call' = [call EXCEPT ![c] = r] /\ UNCHANGED <<cli, made, clientNodes, lastFeedback>>
  BY Zenon DEF GetClient
<1> HIDE DEF r
<1> QED BY <1>2, <1>3, KCall, ZenonT(30)

(* A call takes the peers of the tracker for its request.                      *)
LEMMA KGetNodes == ASSUME NEW c \in Calls, KInv, GetNodes(c) PROVE KInv'
<1> DEFINE r == IF cli = None THEN [call[c] EXCEPT !.pc = "done"]
                ELSE [call[c] EXCEPT !.pc = IF clientNodes[cli] = {} THEN "done" ELSE "rpc", !.peers = clientNodes[cli]]
<1>1. call[c] \in CallRec /\ (cli # None => clientNodes[cli] \subseteq AllPeers)
  BY DEF KInv, KType
<1>2. r \in CallRec /\ r.pc # "answered"
  BY <1>1, ZenonT(30) DEF CallRec
<1>3. call' = [call EXCEPT ![c] = r] /\ UNCHANGED <<cli, made, clientNodes, lastFeedback>>
  BY ZenonT(30) DEF GetNodes, KInv, KType
<1> HIDE DEF r
<1> QED BY <1>2, <1>3, KCall, ZenonT(40)

(* The peer answers, or the request fails and leaves no feedback.              *)
LEMMA KAnswer == ASSUME NEW c \in Calls, KInv, Answer(c) PROVE KInv'
<1>1. call[c] \in CallRec /\ UNCHANGED <<cli, made, clientNodes, lastFeedback>>
  BY DEF KInv, KType, Answer
<1>2. CASE call' = [call EXCEPT ![c].pc = "done"]
  <2> DEFINE r == [call[c] EXCEPT !.pc = "done"]
  <2>1. r \in CallRec /\ r.pc # "answered"
    BY <1>1 DEF CallRec
  <2>2. call' = [call EXCEPT ![c] = r]
    BY <1>2
  <2> HIDE DEF r
  <2> QED BY <1>1, <2>1, <2>2, KCall, ZenonT(30)
<1>3. ASSUME NEW p \in call[c].peers,
             call' = [call EXCEPT ![c].pc = "answered", ![c].feedback = [cli |-> call[c].cli, peer |-> p]]
      PROVE  KInv'
  <2> DEFINE r == [call[c] EXCEPT !.pc = "answered", !.feedback = [cli |-> call[c].cli, peer |-> p]]
  <2>1. p \in AllPeers
    BY <1>1, <1>3 DEF CallRec
  <2>2. r \in CallRec /\ r.feedback.cli = r.cli
    BY <1>1, <2>1, ZenonT(30) DEF CallRec
  <2>3. call' = [call EXCEPT ![c] = r]
    BY <1>3, ZenonT(30) DEF KInv, KType
  <2> HIDE DEF r
  <2> QED BY <1>1, <2>2, <2>3, KCall, ZenonT(30)
<1> QED BY <1>2, <1>3 DEF Answer

(* The answer's feedback is kept if the client is still the current one.       *)
LEMMA KStore == ASSUME NEW c \in Calls, KInv, Store(c) PROVE KInv'
BY ZenonT(90) DEF Store, Stored, KInv, KType, CallRec, AnswerIsOfClient, FeedbackIsCurrent

(* Feedback is handed on and forgotten.                                        *)
LEMMA KSubmit == ASSUME NEW c \in Calls, KInv, SubmitPeerFeedback(c) PROVE KInv'
BY ZenonT(30) DEF SubmitPeerFeedback, KInv, KType, CallRec, AnswerIsOfClient, FeedbackIsCurrent

LEMMA FeedbackStaysCurrentIf == ASSUME SetFacts PROVE ClientSpec => []FeedbackIsCurrent
<1>1. KInv /\ [NextClient]_(kcvars) => KInv'
  <2> SUFFICES ASSUME KInv, [NextClient]_(kcvars) PROVE KInv'
    OBVIOUS
  <2>1. ASSUME NEW k \in Ids \cup {None}, SetKeyManagerID(k) PROVE KInv'
    BY <2>1, KSet
  <2>3. CASE StatusUpdate
    BY <2>3, KStatus, Zenon
  <2>4. ASSUME NEW c \in Calls,
               GetClient(c) \/ GetNodes(c) \/ Answer(c) \/ Store(c) \/ SubmitPeerFeedback(c)
        PROVE KInv'
    BY <2>4, KGetClient, KGetNodes, KAnswer, KStore, KSubmit, Zenon
  <2>5. CASE UNCHANGED kcvars
    BY <2>5 DEF kcvars, KInv, KType, CallRec, AnswerIsOfClient, FeedbackIsCurrent
  <2> QED BY <2>1, <2>3, <2>4, <2>5 DEF NextClient
<1>2. KInv => FeedbackIsCurrent
  BY DEF KInv
<1> QED BY <1>1, <1>2, KInit, PTL DEF ClientSpec

-----------------------------------------------------------------------------
(* The facts hold, and with them the theorems of the parts above.               *)
INSTANCE FiniteSetTheorems

LEMMA SetFactsHold == SetFacts
<1>1. IntervalFact
  BY FS_Interval, ZenonT(40) DEF IntervalFact
<1> QED BY <1>1 DEF SetFacts

(* THEOREM.  Whatever the interleaving of calls and key manager changes, the   *)
(* feedback kept for the next deprecated call (lastPeerFeedback) is about a    *)
(* peer of the current client: the test "cli = call's client" in the second    *)
(* critical section is enough.                                                 *)
THEOREM FeedbackStaysCurrent == ClientSpec => []FeedbackIsCurrent
BY SetFactsHold, FeedbackStaysCurrentIf, Zenon
=============================================================================
