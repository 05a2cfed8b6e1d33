--------------------------- MODULE StorageSyncProofs ---------------------------
(* Proof that the storage worker and the runtime history never believe more    *)
(* to be synced than the node database has finalized, for any genesis round,   *)
(* chain, number of rounds in flight and number of failures and crashes.       *)
EXTENDS StorageSync, TLAPS

(* What the database has finalized reaches r.                                  *)
Reaches(r) == finalized \in Rounds /\ r <= finalized

(* A version is final before anybody is told: the one that was restored, and   *)
(* the ones whose finalizing goroutine has reported success.                   *)
YInv ==
  /\ finalized \in Rounds \union {None}
  /\ phase = "flush" => finalized # None
  /\ checkpointed # None => checkpointed \in Rounds /\ Reaches(checkpointed)
  /\ synced # DefaultUndefinedRound => synced \in Rounds /\ Reaches(synced)
  /\ \A r : <<r, "ok">> \in finalizing => r \in Rounds /\ Reaches(r)

(* Numbers below W; None is not one of them.                                   *)
LEMMA RoundFacts ==
  /\ Rounds \subseteq Nat /\ None \notin Rounds
  /\ GenesisRound \in Rounds
BY SyncAssumption DEF Rounds

(* Nothing is finalized at the start.                                          *)
LEMMA YInit == Init => YInv
BY RoundFacts DEF Init, YInv

(* A step that finalizes no earlier version, tells nobody and reports nothing. *)
LEMMA YGrow ==
  ASSUME YInv, finalized' \in Rounds, finalized # None => finalized <= finalized',
         UNCHANGED <<checkpointed, synced>>,
         \A r : <<r, "ok">> \in finalizing' => <<r, "ok">> \in finalizing
  PROVE  YInv'
<1>1. ASSUME NEW r \in Rounds, Reaches(r) PROVE Reaches(r)'
  BY <1>1, RoundFacts DEF Reaches
<1>2. finalized' # None
  BY RoundFacts
<1>3. DefaultUndefinedRound' = DefaultUndefinedRound
  BY DEF DefaultUndefinedRound
<1>. QED
  BY <1>1, <1>2, <1>3 DEF YInv

(* A step that leaves the database's version and what has been told alone.     *)
LEMMA YStay ==
  ASSUME YInv, UNCHANGED <<finalized, checkpointed, synced>>, phase' = "flush" => finalized # None,
         \A r : <<r, "ok">> \in finalizing' => <<r, "ok">> \in finalizing
  PROVE  YInv'
BY DEF YInv, Reaches, DefaultUndefinedRound

(* flushSyncedState, whether the history takes the round or not.               *)
LEMMA YFlush ==
  ASSUME YInv, NEW r \in Rounds, Reaches(r), Flush(r) \/ FlushFails(r), finalized' = finalized,
         phase' # "flush", \A q : <<q, "ok">> \in finalizing' => <<q, "ok">> \in finalizing
  PROVE  YInv'
BY DEF YInv, Reaches, DefaultUndefinedRound, Flush, FlushFails

-----------------------------------------------------------------------------
(* Start-up: the synced round is read from the database, or nothing is synced. *)
LEMMA YInitialize == YInv /\ Initialize => YInv'
<1> SUFFICES ASSUME YInv, Initialize PROVE YInv'
  OBVIOUS
<1>1. finalizing' = finalizing /\ phase' # "flush"
  BY DEF Initialize, queues
<1>2. CASE finalized # None /\ Known(finalized)
  <2>1. finalized' = finalized /\ (Flush(finalized) \/ FlushFails(finalized))
    BY <1>2 DEF Initialize
  <2>2. finalized \in Rounds /\ Reaches(finalized)
    BY <1>2, RoundFacts DEF YInv, Reaches
  <2>. QED
    BY <1>1, <2>1, <2>2, YFlush
<1>3. CASE ~(finalized # None /\ Known(finalized))
  <2>1. InitGenesis /\ UNCHANGED <<synced, checkpointed>>
    BY <1>3 DEF Initialize
  <2>2. CASE finalized' = finalized
    BY <1>1, <2>1, <2>2, YStay
  <2>3. CASE finalized' # finalized
    <3>1. finalized = None /\ finalized' = GenesisRound
      BY <2>1, <2>3 DEF InitGenesis
    <3>. QED
      BY <1>1, <2>1, <3>1, RoundFacts, YGrow
  <2>. QED
    BY <2>2, <2>3
<1>. QED
  BY <1>2, <1>3

(* syncCheckpoints finalizes a later version than the last one.                *)
LEMMA YRestore == ASSUME YInv, NEW v \in Rounds, Restore(v) PROVE YInv'
<1>1. /\ finalized' = v /\ UNCHANGED <<checkpointed, synced, finalizing>>
      /\ finalized # None => finalized < v
  BY DEF Restore, RecordFinalized, history, rounds, queues
<1>2. finalized # None => finalized <= v
  BY <1>1, RoundFacts DEF YInv
<1>. QED
  BY <1>1, <1>2, YGrow

(* The flush after a restore tells of the version that was restored.           *)
LEMMA YFlushRestored == YInv /\ FlushRestored => YInv'
<1> SUFFICES ASSUME YInv, FlushRestored PROVE YInv'
  OBVIOUS
<1>1. finalized \in Rounds /\ Reaches(finalized)
  BY RoundFacts DEF YInv, Reaches, FlushRestored
<1>. QED
  BY <1>1, YFlush DEF FlushRestored, db, queues

(* The finalizing goroutine reports success for a version that is final.       *)
LEMMA YFinalize == ASSUME YInv, NEW r \in Rounds, Finalize(r) PROVE YInv'
<1> DEFINE already == finalized # None /\ r <= finalized
           ok == already \/ CanFinalizeVersion(r)
<1>1. UNCHANGED <<checkpointed, synced, phase>>
  BY DEF Finalize, history, rounds
<1>2. finalizing' = (finalizing \ {<<r, "run">>}) \union {<<r, IF ok THEN "ok" ELSE "failed">>}
  BY DEF Finalize
<1>3. IF ok /\ ~already THEN finalized' = r ELSE finalized' = finalized
  BY DEF Finalize, RecordFinalized
<1>4. ASSUME NEW q \in Rounds, Reaches(q) PROVE Reaches(q)'
  BY <1>3, <1>4, RoundFacts DEF Reaches
<1>5. ASSUME ok PROVE Reaches(r)'
  BY <1>3, <1>5, RoundFacts DEF Reaches, YInv
<1>6. ASSUME NEW q, <<q, "ok">> \in finalizing' PROVE q \in Rounds /\ Reaches(q)'
  <2>1. CASE <<q, "ok">> \in finalizing
    BY <1>4, <2>1 DEF YInv
  <2>2. CASE q = r /\ ok
    BY <1>5, <2>2
  <2>. QED
    BY <1>2, <1>6, <2>1, <2>2
<1>7. finalized' \in Rounds \union {None} /\ (finalized # None => finalized' # None)
  BY <1>3, RoundFacts DEF YInv
<1> HIDE DEF ok, already
<1>. QED
  BY <1>1, <1>4, <1>6, <1>7 DEF YInv, DefaultUndefinedRound

(* The loop tells the history of a reported success, or stops on a failure.    *)
LEMMA YHandleFinalized == ASSUME YInv, NEW r, NEW res, HandleFinalized(r, res) PROVE YInv'
<1>1. /\ <<r, res>> \in finalizing /\ phase = "loop" /\ finalized' = finalized
      /\ \A q : <<q, "ok">> \in finalizing' => <<q, "ok">> \in finalizing
  BY DEF HandleFinalized, Waiting, db
<1>2. CASE res = "ok"
  <2>1. r \in Rounds /\ Reaches(r)
    BY <1>1, <1>2 DEF YInv
  <2>2. (Flush(r) \/ FlushFails(r)) /\ phase' = phase
    BY <1>2 DEF HandleFinalized
  <2>. QED
    BY <1>1, <2>1, <2>2, YFlush
<1>3. CASE res # "ok"
  <2>1. phase' = "dead" /\ UNCHANGED <<synced, checkpointed>>
    BY <1>3 DEF HandleFinalized
  <2>. QED
    BY <1>1, <2>1, YStay
<1>. QED
  BY <1>2, <1>3

(* The steps of the loop that neither finalize nor tell.                       *)
LEMMA YLoop ==
  ASSUME YInv,
         \/ \E d \in doneDiffs : Apply(d)
         \/ \E r \in finalizable : StartFinalize(r)
         \/ TakeBlock \/ Heartbeat
         \/ \E item \in results : HandleDiff(item)
  PROVE  YInv'
<1>1. UNCHANGED <<finalized, checkpointed, synced, phase>>
  BY Zenon DEF Apply, StartFinalize, TakeBlock, Heartbeat, HandleDiff, db, history, rounds
<1>2. \A r : <<r, "ok">> \in finalizing' => <<r, "ok">> \in finalizing
  BY DEF Apply, StartFinalize, TakeBlock, Heartbeat, HandleDiff, queues
<1>. QED
  BY <1>1, <1>2, YStay, Zenon DEF YInv

(* The steps of the others: tasks, the chain, the executor and the pruner.     *)
LEMMA YOthers ==
  ASSUME YInv,
         \/ Start \/ \E v \in Rounds : \E left \in SUBSET AllRoots(v) : RestoreFails(v, left)
         \/ \E root \in fetching : FetchDiff(root)
         \/ Commit \/ ExecutorCommit \/ Prune
  PROVE  YInv'
<1>1. UNCHANGED <<finalized, checkpointed, synced, finalizing>> /\ (phase' = "flush" => phase = "flush")
  BY DEF Start, RestoreFails, FetchDiff, Commit, ExecutorCommit, Prune, db, history, rounds, queues
<1>. QED
  BY <1>1, YStay, Zenon DEF YInv

(* After a crash the worker knows of nothing.                                  *)
LEMMA YCrash == YInv /\ Crash => YInv'
BY DEF YInv, Reaches, DefaultUndefinedRound, Crash, db, history

-----------------------------------------------------------------------------
(* The invariant is inductive.                                                 *)
LEMMA YNext == YInv /\ [Next]_vars => YInv'
<1> SUFFICES ASSUME YInv, [Next]_vars PROVE YInv'
  OBVIOUS
<1>1. CASE UNCHANGED vars
  BY <1>1, YStay DEF vars, db, history, rounds, queues, YInv
<1>2. CASE LoopStep
  BY <1>2, YLoop, YHandleFinalized DEF LoopStep
<1>3. CASE StartStep
  BY <1>3, YOthers, YInitialize, YRestore, YFlushRestored DEF StartStep
<1>4. CASE TaskStep
  BY <1>4, YOthers, YFinalize DEF TaskStep
<1>5. CASE Commit \/ ExecutorCommit \/ Prune
  BY <1>5, YOthers
<1>6. CASE Crash
  BY <1>6, YCrash
<1>. QED
  BY <1>1, <1>2, <1>3, <1>4, <1>5, <1>6 DEF Next

(* THEOREM.  Neither syncedState nor what StorageSyncCheckpoint recorded is    *)
(* ever ahead of the node database, whatever fails and wherever the node       *)
(* crashes between the finalization of a version and the flush that tells the  *)
(* history: a restart never resumes after a round that was not stored.         *)
THEOREM SyncedStaysStored == Spec => []SyncedIsStored
<1>1. YInv => SyncedIsStored
  BY RoundFacts DEF YInv, SyncedIsStored, Reaches
<1>. QED
  BY <1>1, YInit, YNext, PTL DEF Spec

-----------------------------------------------------------------------------
(* Unsigned rounds: the chain is far from where they wrap around.              *)
LEMMA ModSmall == ASSUME NEW n \in Nat, n > 0, NEW x \in 0..(n - 1) PROVE x % n = x
OBVIOUS

(* The round before round zero is the largest one.                             *)
LEMMA ModWrap == ASSUME NEW n \in Nat, n > 0 PROVE (0 - 1) % n = n - 1 /\ n % n = 0
OBVIOUS

(* The undefined round comes before the genesis round and is none of the       *)
(* chain, on which the successor is the next number.                           *)
LEMMA SuccFacts ==
  /\ UndefinedRound \in Rounds /\ Succ(UndefinedRound) = GenesisRound
  /\ UndefinedRound \notin GenesisRound..MaxRound
  /\ \A r \in GenesisRound..MaxRound : r \in Rounds /\ Succ(r) = r + 1
<1>1. W \in Nat /\ W > 0 /\ GenesisRound \in Nat /\ MaxRound \in Nat /\ MaxRound <= W - 3 /\ GenesisRound <= MaxRound
  BY SyncAssumption
<1>2. ASSUME NEW r \in GenesisRound..MaxRound PROVE r \in Rounds /\ Succ(r) = r + 1
  BY <1>1, <1>2, ModSmall DEF Rounds, Succ
<1>3. CASE GenesisRound = 0
  <2>1. UndefinedRound = W - 1
    BY <1>1, <1>3, ModWrap DEF UndefinedRound
  <2>2. Succ(UndefinedRound) = 0
    BY <1>1, <2>1, ModWrap DEF Succ
  <2>. QED
    BY <1>1, <1>2, <1>3, <2>1, <2>2 DEF Rounds
<1>4. CASE GenesisRound > 0
  <2>1. UndefinedRound = GenesisRound - 1
    BY <1>1, <1>4, ModSmall DEF UndefinedRound
  <2>2. Succ(UndefinedRound) = GenesisRound
    BY <1>1, <1>4, <2>1, ModSmall DEF Succ
  <2>. QED
    BY <1>1, <1>2, <1>4, <2>1, <2>2 DEF Rounds
<1>. QED
  BY <1>1, <1>3, <1>4

-----------------------------------------------------------------------------
OnChain(r) == r \in GenesisRound..chain

(* The root is in the database, or was before its version was finalized.       *)
Has(x) == x[1] = GenesisRound \/ x \in roots \/ Reaches(x[1])

(* A root on its way: its round is in flight or has been applied.              *)
Open(x) == x \in Roots /\ (x[1] \in DOMAIN syncing \/ (applied # UndefinedRound /\ x[1] <= applied))

Accounted(e, x) == x[2] \in e.outstanding \union e.awaitingRetry \/ Has(x)

Ready(r) == OnChain(r) /\ \A t \in RootTypes : Has(<<r, t>>)

(* Everything the worker counts with is on the chain or undefined, and what it *)
(* takes for finalized is.                                                     *)
Numbers ==
  /\ chain \in GenesisRound..MaxRound
  /\ kept \in Nat /\ GenesisRound <= kept
  /\ finalized # None => OnChain(finalized)
  /\ cached # UndefinedRound => cached \in Rounds /\ Reaches(cached)
  /\ applied # UndefinedRound => OnChain(applied)
  /\ latest # UndefinedRound => OnChain(latest)
  /\ nextBlock \in Nat /\ GenesisRound <= nextBlock

(* A root type of a round in flight that nobody waits for is stored.           *)
Flight ==
  /\ DOMAIN syncing \subseteq GenesisRound..chain
  /\ \A r \in DOMAIN syncing : syncing[r] \in InFlight /\ \A t \in RootTypes : Accounted(syncing[r], <<r, t>>)

(* Tasks and their results are about such rounds; what was not fetched is      *)
(* stored.                                                                     *)
Pending ==
  /\ \A x \in fetching : Open(x)
  /\ \A i \in results : Open(i.root) /\ (~i.fetched => Has(i.root))
  /\ \A d \in doneDiffs : Open(d.root) /\ (~d.fetched => Has(d.root))
  /\ latest = UndefinedRound => fetching = {} /\ results = {}
  /\ phase \notin {"loop", "dead"} => DOMAIN syncing = {} /\ fetching = {} /\ results = {} /\ doneDiffs = {}

(* A round waits for its finalization with all its roots, and is finalized     *)
(* after the one before it.                                                    *)
Turn ==
  /\ \A r \in finalizable : Ready(r)
  /\ \A r : <<r, "run">> \in finalizing => Ready(r) /\ (r # GenesisRound => Reaches(r - 1))

FInv == YInv /\ Numbers /\ Flight /\ Pending /\ Turn /\ FinalizeNeverFails

(* Nothing is under way at the start.                                          *)
LEMMA FInit == Init => FInv
<1> SUFFICES ASSUME Init PROVE FInv
  OBVIOUS
<1>1. YInv
  BY YInit
<1>2. Numbers
  BY SyncAssumption DEF Init, Numbers
<1>3. Flight /\ Pending /\ Turn /\ FinalizeNeverFails
  BY DEF Init, Flight, Pending, Turn, FinalizeNeverFails
<1>. QED
  BY <1>1, <1>2, <1>3 DEF FInv

(* What a step must not lose: finalized versions, the roots of the others, and *)
(* rounds of the chain.                                                        *)
Kept ==
  /\ finalized' \in Rounds \union {None} /\ (finalized # None => finalized' # None /\ finalized <= finalized')
  /\ \A x \in roots : x \in roots' \/ Reaches(x[1])'
  /\ chain' \in Nat /\ chain <= chain'

(* A step that leaves the chain and the last version alone and removes no root *)
(* loses nothing.                                                              *)
LEMMA StillKept ==
  ASSUME FInv, UNCHANGED <<finalized, chain>>, \A x \in roots : x \in roots'
  PROVE  Kept
<1>1. finalized \in Rounds \union {None} /\ chain \in Nat
  BY SyncAssumption DEF FInv, YInv, Numbers
<1>2. (finalized # None => finalized <= finalized) /\ chain <= chain
  BY <1>1, RoundFacts
<1>. QED
  BY <1>1, <1>2 DEF Kept

(* Then what was stored or ready stays so.                                     *)
LEMMA KeptFacts ==
  ASSUME Numbers, YInv, Kept
  PROVE  /\ \A r \in Rounds : Reaches(r) => Reaches(r)'
         /\ \A x \in Roots : Has(x) => Has(x)'
         /\ \A r : OnChain(r) => OnChain(r)' /\ r \in Rounds
         /\ \A r : Ready(r) => Ready(r)'
<1>1. ASSUME NEW r \in Rounds, Reaches(r) PROVE Reaches(r)'
  BY <1>1, RoundFacts DEF Reaches, Kept
<1>2. ASSUME NEW x \in Roots, Has(x) PROVE Has(x)'
  BY <1>1, <1>2 DEF Has, Kept, Roots
<1>3. ASSUME NEW r, OnChain(r) PROVE OnChain(r)' /\ r \in Rounds
  BY <1>3, SyncAssumption DEF OnChain, Kept, Numbers, Rounds
<1>4. ASSUME NEW r, Ready(r) PROVE Ready(r)'
  BY <1>2, <1>3, <1>4 DEF Ready, Roots
<1>. QED
  BY <1>1, <1>2, <1>3, <1>4

(* A step that leaves the queues alone keeps what is said of them.             *)
LEMMA KeptFlight ==
  ASSUME Numbers, YInv, Kept, Flight, syncing' = syncing PROVE Flight'
<1>1. DOMAIN syncing' \subseteq GenesisRound..chain'
  BY KeptFacts DEF Flight, OnChain
<1>2. ASSUME NEW r \in DOMAIN syncing, NEW t \in RootTypes PROVE Accounted(syncing[r], <<r, t>>)'
  <2>1. <<r, t>> \in Roots
    BY KeptFacts DEF Flight, OnChain, Roots
  <2>. QED
    BY <2>1, KeptFacts DEF Flight, Accounted
<1>. QED
  BY <1>1, <1>2 DEF Flight, InFlight, RootTypes

(* The same for tasks and results, if no round is dropped.                     *)
LEMMA KeptPending ==
  ASSUME Numbers, YInv, Kept, Pending, UNCHANGED <<syncing, fetching, results, doneDiffs, applied>>,
         latest' = UndefinedRound => latest = UndefinedRound,
         phase' \notin {"loop", "dead"} => phase \notin {"loop", "dead"}
  PROVE  Pending'
BY KeptFacts DEF Pending, Open

(* The same for the rounds that wait for their finalization.                   *)
LEMMA KeptTurn ==
  ASSUME Numbers, YInv, Kept, Turn, \A r \in finalizable' : r \in finalizable,
         \A r : <<r, "run">> \in finalizing' => <<r, "run">> \in finalizing
  PROVE  Turn'
<1>1. ASSUME NEW r, Ready(r), r # GenesisRound PROVE r - 1 \in Rounds
  BY <1>1, KeptFacts, SyncAssumption DEF Ready, OnChain, Rounds
<1>. QED
  BY <1>1, KeptFacts DEF Turn, Ready

-----------------------------------------------------------------------------
(* The steps of start-up, the chain, the executor and the pruner.              *)
LEMMA FQuiet ==
  ASSUME FInv, YInv', Numbers', Kept, UNCHANGED <<syncing, fetching, results, doneDiffs, applied>>,
         latest' = UndefinedRound => latest = UndefinedRound,
         phase' \notin {"loop", "dead"} => phase \notin {"loop", "dead"},
         finalizable' = finalizable, finalizing' = finalizing
  PROVE  FInv'
<1>1. Flight' /\ Pending' /\ Turn'
  BY KeptFlight, KeptPending, KeptTurn DEF FInv
<1>. QED
  BY <1>1 DEF FInv, FinalizeNeverFails

(* The worker is started.                                                      *)
LEMMA FStart == ASSUME FInv, YInv', Start PROVE FInv'
<1>1. UNCHANGED <<db, history, rounds, queues>> /\ phase = "down" /\ nextBlock' = chain
  BY DEF Start
<1>2. Numbers' /\ Kept
  BY <1>1, SyncAssumption DEF db, history, rounds, FInv, YInv, Numbers, Kept, OnChain, Reaches, Rounds
<1>. QED
  BY <1>1, <1>2, FQuiet DEF rounds, queues, FInv

(* The chain grows.                                                            *)
LEMMA FCommit == ASSUME FInv, YInv', Commit PROVE FInv'
<1>1. UNCHANGED <<db, kept, phase, rounds, nextBlock, queues>> /\ chain < MaxRound /\ chain' = chain + 1
  BY Zenon DEF Commit
<1>2. Numbers' /\ Kept
  BY <1>1, SyncAssumption DEF db, rounds, FInv, YInv, Numbers, Kept, OnChain, Reaches, Rounds
<1>. QED
  BY <1>1, <1>2, FQuiet DEF rounds, queues, FInv

(* The executor stores roots itself.                                           *)
LEMMA FExecutorCommit == ASSUME FInv, YInv', ExecutorCommit PROVE FInv'
<1>1. /\ UNCHANGED <<finalized, history, phase, rounds, nextBlock, queues>>
      /\ \A x \in roots : x \in roots'
  BY Zenon DEF ExecutorCommit
<1>2. Numbers' /\ Kept
  BY <1>1, SyncAssumption DEF history, rounds, FInv, YInv, Numbers, Kept, OnChain, Reaches, Rounds
<1>. QED
  BY <1>1, <1>2, FQuiet DEF rounds, queues, FInv

(* Only roots of a finalized version are pruned.                               *)
LEMMA FPrune == ASSUME FInv, YInv', Prune PROVE FInv'
<1>1. /\ UNCHANGED <<finalized, chain, phase, rounds, nextBlock, queues>>
      /\ kept' = kept + 1 /\ finalized # None /\ kept <= finalized
      /\ \A x \in roots : x \in roots' \/ x \in AllRoots(kept)
  BY DEF Prune
<1>2. \A x \in AllRoots(kept) : Reaches(x[1])'
  BY <1>1, Zenon DEF AllRoots, Reaches, FInv, YInv
<1>3. Numbers' /\ Kept
  BY <1>1, <1>2, SyncAssumption DEF rounds, FInv, YInv, Numbers, Kept, OnChain, Reaches, Rounds
<1>. QED
  BY <1>1, <1>3, FQuiet DEF rounds, queues, FInv

(* The worker counts on from what the database has, with empty queues.         *)
LEMMA FResume ==
  ASSUME FInv, YInv', Numbers', Kept, phase \notin {"loop", "dead"},
         UNCHANGED <<syncing, fetching, results, doneDiffs, finalizable, finalizing>>
  PROVE  FInv'
<1>1. Flight' /\ Turn'
  BY KeptFlight, KeptTurn, Zenon DEF FInv
<1>2. Pending'
  BY DEF FInv, Pending
<1>. QED
  BY <1>1, <1>2 DEF FInv, FinalizeNeverFails

(* The worker resumes at the last finalized version, or at none.               *)
LEMMA FInitialize == ASSUME FInv, YInv', Initialize PROVE FInv'
<1>1. phase = "start" /\ UNCHANGED <<roots, chain, kept, latest, nextBlock, queues>>
  BY DEF Initialize
<1>2. finalized' = finalized \/ (finalized = None /\ finalized' = GenesisRound)
  BY DEF Initialize, InitGenesis
<1>3. Kept
  BY <1>1, <1>2, RoundFacts, SyncAssumption DEF Kept, FInv, YInv, Numbers
<1>4. \/ UNCHANGED <<cached, applied>>
      \/ cached' = UndefinedRound /\ applied' = UndefinedRound
      \/ /\ cached' = finalized /\ applied' = finalized /\ finalized # None
         /\ finalized' = finalized
  BY DEF Initialize
<1>5. Numbers'
  <2>1. (cached # UndefinedRound => cached \in Rounds /\ Reaches(cached))'
    BY <1>1, <1>2, <1>4, RoundFacts DEF FInv, YInv, Numbers, Reaches
  <2>2. (applied # UndefinedRound => OnChain(applied))'
    BY <1>1, <1>2, <1>4 DEF FInv, Numbers, OnChain
  <2>3. (finalized # None => OnChain(finalized))'
    BY <1>1, <1>2, SyncAssumption DEF FInv, Numbers, OnChain
  <2>4. (latest # UndefinedRound => OnChain(latest))'
    BY <1>1 DEF FInv, Numbers, OnChain
  <2>. QED
    BY <1>1, <2>1, <2>2, <2>3, <2>4 DEF FInv, Numbers, UndefinedRound
<1>. QED
  BY <1>1, <1>3, <1>5, FResume DEF queues

(* A checkpoint of a block of the chain is restored and finalized.             *)
LEMMA FRestore == ASSUME FInv, YInv', NEW v \in Rounds, Restore(v) PROVE FInv'
<1>1. /\ phase \notin {"loop", "dead"} /\ Known(v) /\ finalized' = v
      /\ finalized # None => finalized < v
      /\ \A x \in roots : x \in roots'
      /\ UNCHANGED <<history, rounds, nextBlock, queues>>
  BY DEF Restore, RecordFinalized
<1>2. OnChain(v)
  BY <1>1, SyncAssumption DEF Known, OnChain, FInv, Numbers
<1>3. Kept
  BY <1>1, RoundFacts, SyncAssumption DEF history, Kept, FInv, YInv, Numbers
<1>4. Numbers'
  <2>1. (cached # UndefinedRound => cached \in Rounds /\ Reaches(cached))'
    BY <1>1, <1>3, KeptFacts DEF rounds, FInv, Numbers, UndefinedRound
  <2>. QED
    BY <1>1, <1>2, <2>1 DEF history, rounds, FInv, Numbers, OnChain, UndefinedRound
<1>. QED
  BY <1>1, <1>3, <1>4, FResume DEF queues

(* A failed restore leaves metadata of roots.                                  *)
LEMMA FRestoreFails ==
  ASSUME FInv, YInv', NEW v \in Rounds, NEW left \in SUBSET AllRoots(v), RestoreFails(v, left)
  PROVE  FInv'
<1>1. /\ phase \notin {"loop", "dead"} /\ \A x \in roots : x \in roots'
      /\ UNCHANGED <<finalized, history, rounds, nextBlock, queues>>
  BY Zenon DEF RestoreFails
<1>2. Numbers' /\ Kept
  BY <1>1, SyncAssumption DEF history, rounds, FInv, YInv, Numbers, Kept, OnChain, Reaches, Rounds
<1>. QED
  BY <1>1, <1>2, FResume DEF queues

(* The restored version becomes the last synced one.                           *)
LEMMA FFlushRestored == ASSUME FInv, YInv', FlushRestored PROVE FInv'
<1>1. /\ phase = "flush" /\ UNCHANGED <<db, chain, kept, latest, nextBlock, queues>>
      /\ UNCHANGED <<cached, applied>> \/ (cached' = finalized /\ applied' = finalized)
  BY DEF FlushRestored
<1>2. finalized # None
  BY <1>1 DEF FInv, YInv
<1>3. Kept
  BY <1>1, StillKept, Zenon DEF db
<1>4. Numbers'
  BY <1>1, <1>2, RoundFacts DEF db, FInv, YInv, Numbers, OnChain, Reaches, UndefinedRound
<1>. QED
  BY <1>1, <1>3, <1>4, FResume DEF queues

(* A crash empties the queues.                                                 *)
LEMMA FCrash == ASSUME FInv, YInv', Crash PROVE FInv'
<1>1. /\ UNCHANGED <<db, history>> /\ phase' = "down"
      /\ cached' = UndefinedRound /\ applied' = UndefinedRound /\ latest' = UndefinedRound
      /\ nextBlock' = GenesisRound /\ syncing' = <<>> /\ fetching' = {} /\ results' = {}
      /\ doneDiffs' = {} /\ finalizable' = {} /\ finalizing' = {}
  BY DEF Crash
<1>2. Numbers'
  BY <1>1, SyncAssumption DEF db, history, FInv, Numbers, OnChain, UndefinedRound
<1>3. Flight' /\ Pending' /\ Turn' /\ FinalizeNeverFails'
  BY <1>1 DEF Flight, Pending, Turn, FinalizeNeverFails
<1>. QED
  BY <1>2, <1>3 DEF FInv

-----------------------------------------------------------------------------
(* A task ends: its root was there, or has been fetched.                       *)
LEMMA FFetchDiff == ASSUME FInv, YInv', NEW root \in fetching, FetchDiff(root) PROVE FInv'
<1>1. /\ phase = "loop" /\ fetching' = fetching \ {root}
      /\ UNCHANGED <<db, history, phase, rounds, nextBlock, syncing, doneDiffs, finalizable, finalizing>>
  BY Zenon DEF FetchDiff
<1>2. Numbers' /\ Kept
  BY <1>1, SyncAssumption DEF db, history, rounds, FInv, YInv, Numbers, Kept, OnChain, Reaches, Rounds
<1>3. Flight' /\ Turn'
  BY <1>1, <1>2, KeptFlight, KeptTurn DEF FInv
<1>4. PICK item : /\ results' = results \union {item} /\ item.root = root
                  /\ ~item.fetched => HasRoot(root)
  <2> DEFINE there == [root |-> root, fetched |-> ~HasRoot(root), err |-> FALSE]
             fails == [root |-> root, fetched |-> TRUE, err |-> TRUE]
  <2>1. there.root = root /\ (~there.fetched => HasRoot(root))
    BY ZenonT(40)
  <2>2. fails.root = root /\ (~fails.fetched => HasRoot(root))
    BY ZenonT(40)
  <2>3. results' = results \union {there} \/ results' = results \union {fails}
    BY ZenonT(40) DEF FetchDiff
  <2> HIDE DEF there, fails
  <2>. QED
    BY <2>1, <2>2, <2>3
<1>5. Open(root) /\ latest # UndefinedRound
  BY DEF FInv, Pending
<1>6. ~item.fetched => Has(item.root)
  BY <1>4, Zenon DEF HasRoot, Has
<1>7. ASSUME NEW i \in results' PROVE Open(i.root) /\ (~i.fetched => Has(i.root))
  BY <1>4, <1>5, <1>6 DEF FInv, Pending
<1>8. ASSUME NEW x PROVE Open(x)' = Open(x) /\ Has(x)' = Has(x)
  BY <1>1, Zenon DEF db, rounds, Open, Has, Reaches
<1>9. Pending'
  BY <1>1, <1>5, <1>7, <1>8 DEF rounds, FInv, Pending, UndefinedRound
<1>. QED
  BY <1>1, <1>2, <1>3, <1>9, Zenon DEF FInv, FinalizeNeverFails

(* A round whose turn it is, with all its roots, is finalized.                 *)
LEMMA FFinalize == ASSUME FInv, YInv', NEW r \in Rounds, Finalize(r) PROVE FInv'
<1> DEFINE already == finalized # None /\ r <= finalized
<1>1. /\ <<r, "run">> \in finalizing
      /\ UNCHANGED <<roots, history, phase, rounds, nextBlock, syncing, fetching, results, doneDiffs, finalizable>>
  BY DEF Finalize
<1>2. Ready(r) /\ (r # GenesisRound => Reaches(r - 1))
  BY <1>1 DEF FInv, Turn
<1>3. already \/ CanFinalizeVersion(r)
  <2> SUFFICES ASSUME ~already PROVE CanFinalizeVersion(r)
    BY Zenon
  <2>1. finalized # None => finalized = r - 1
    BY <1>2, RoundFacts, SyncAssumption DEF Ready, OnChain, Reaches, FInv, YInv, Numbers
  <2>2. ASSUME r # GenesisRound, NEW x \in AllRoots(r) PROVE x \in roots
    <3>1. PICK t \in RootTypes : x = <<r, t>>
      BY <2>2 DEF AllRoots
    <3>2. Has(<<r, t>>) /\ ~Reaches(r)
      BY <1>2, RoundFacts DEF Ready, Reaches
    <3>. QED
      BY <2>2, <3>1, <3>2 DEF Has
  <2>. QED
    BY <2>1, <2>2 DEF CanFinalizeVersion
<1>4. finalizing' = (finalizing \ {<<r, "run">>}) \union {<<r, "ok">>}
  BY <1>3 DEF Finalize
<1>5. IF already THEN finalized' = finalized ELSE finalized' = r
  BY <1>3, Zenon DEF Finalize, RecordFinalized
<1>6. Kept
  BY <1>1, <1>5, RoundFacts, SyncAssumption DEF history, Kept, FInv, YInv, Numbers
<1>7. Numbers'
  <2>1. (cached # UndefinedRound => cached \in Rounds /\ Reaches(cached))'
    BY <1>1, <1>6, KeptFacts DEF rounds, FInv, Numbers, UndefinedRound
  <2>2. (finalized # None => OnChain(finalized))'
    BY <1>1, <1>2, <1>5 DEF history, Ready, FInv, Numbers, OnChain
  <2>. QED
    BY <1>1, <2>1, <2>2, Zenon DEF history, rounds, FInv, Numbers, OnChain, UndefinedRound
<1>8. Flight' /\ Pending'
  BY <1>1, <1>6, KeptFlight, KeptPending DEF rounds, FInv, UndefinedRound
<1>9. Turn' /\ FinalizeNeverFails'
  BY <1>1, <1>4, <1>6, KeptTurn DEF FInv, FinalizeNeverFails
<1>. QED
  BY <1>7, <1>8, <1>9 DEF FInv

-----------------------------------------------------------------------------
(* The next round to apply is in flight.                                       *)
LEMMA NextInFlight ==
  ASSUME FInv, NEW d \in Applicable
  PROVE  /\ d \in doneDiffs /\ d.root \in Roots /\ d.root[1] \in DOMAIN syncing /\ OnChain(d.root[1])
         /\ applied # UndefinedRound => d.root[1] = applied + 1
<1>1. d \in doneDiffs /\ d.root[1] = Succ(applied)
  BY Zenon DEF Applicable
<1>2. Open(d.root)
  BY <1>1, Zenon DEF FInv, Pending
<1>3. applied # UndefinedRound => applied \in Nat /\ d.root[1] = applied + 1
  BY <1>1, SuccFacts, SyncAssumption DEF FInv, Numbers, OnChain
<1>4. d.root[1] \in DOMAIN syncing
  BY <1>2, <1>3 DEF Open
<1>. QED
  BY <1>1, <1>2, <1>3, <1>4 DEF Open, FInv, Flight, OnChain

(* The entry of a round in flight, without one of its root types.              *)
LEMMA FinishedType ==
  ASSUME NEW r \in DOMAIN syncing, NEW t, syncing[r] \in InFlight,
         syncing' = [syncing EXCEPT ![r].outstanding = syncing[r].outstanding \ {t}]
  PROVE  /\ DOMAIN syncing' = DOMAIN syncing /\ \A q \in DOMAIN syncing \ {r} : syncing'[q] = syncing[q]
         /\ syncing'[r] \in InFlight
         /\ syncing'[r].outstanding = syncing[r].outstanding \ {t}
         /\ syncing'[r].awaitingRetry = syncing[r].awaitingRetry
<1>1. DOMAIN syncing' = DOMAIN syncing /\ \A q \in DOMAIN syncing \ {r} : syncing'[q] = syncing[q]
  OBVIOUS
<1>2. syncing'[r] = [syncing[r] EXCEPT !.outstanding = syncing[r].outstanding \ {t}]
  BY Zenon
<1>. QED
  BY <1>1, <1>2 DEF InFlight

(* A diff is applied or was not needed.  With the last one of a round all its  *)
(* roots are stored.                                                           *)
LEMMA FApplied ==
  ASSUME FInv, YInv', NEW d \in Applicable, Apply(d), Complete(d.root),
         roots' = IF d.fetched THEN roots \union {d.root} ELSE roots
  PROVE  FInv'
<1> DEFINE r == d.root[1]
           t == d.root[2]
           e == syncing[r]
<1>1. /\ phase = "loop" /\ doneDiffs' = doneDiffs \ {d}
      /\ UNCHANGED <<finalized, history, phase, cached, latest, nextBlock, fetching, results, finalizing>>
  BY Zenon DEF Apply
<1>2. /\ d \in doneDiffs /\ d.root \in Roots /\ r \in DOMAIN syncing /\ OnChain(r)
      /\ applied # UndefinedRound => r = applied + 1
  BY NextInFlight, Zenon
<1>3. t \in RootTypes /\ d.root = <<r, t>> /\ e \in InFlight
  BY <1>2 DEF Roots, FInv, Flight
<1>4. Kept
  BY <1>1, StillKept DEF history
<1>5. Has(d.root)'
  BY <1>2, <1>4, KeptFacts, ZenonT(40) DEF FInv, Pending, Has
<1>6. ASSUME NEW q \in DOMAIN syncing, NEW u \in RootTypes
      PROVE  u \in syncing[q].outstanding \union syncing[q].awaitingRetry \/ Has(<<q, u>>)'
  <2>1. <<q, u>> \in Roots
    BY <1>4, KeptFacts DEF FInv, Flight, OnChain, Roots
  <2>2. Accounted(syncing[q], <<q, u>>)
    BY DEF FInv, Flight
  <2>. QED
    BY <1>4, <2>1, <2>2, KeptFacts, ZenonT(40) DEF FInv, Accounted
<1>7. CASE e.outstanding \ {t} = {} /\ e.awaitingRetry = {}
  <2>1. /\ syncing' = [x \in DOMAIN syncing \ {r} |-> syncing[x]]
        /\ applied' = r /\ finalizable' = finalizable \union {r}
    BY <1>7, ZenonT(40) DEF Complete, Without
  <2>2. Ready(r)'
    <3>1. ASSUME NEW u \in RootTypes PROVE Has(<<r, u>>)'
      <4>1. CASE u = t
        BY <1>3, <1>5, <4>1, ZenonT(40)
      <4>2. CASE u # t
        BY <1>2, <1>6, <1>7, <4>2, ZenonT(40)
      <4>. QED
        BY <4>1, <4>2, ZenonT(40)
    <3>. QED
      BY <1>2, <1>4, <3>1, KeptFacts DEF FInv, Ready
  <2>3. Numbers'
    BY <1>1, <1>2, <1>4, <2>1, KeptFacts, ZenonT(40) DEF history, FInv, Numbers, OnChain, Reaches, UndefinedRound
  <2>4. Flight'
    BY <1>1, <1>6, <2>1, ZenonT(40) DEF history, FInv, Flight, Accounted, InFlight, RootTypes
  <2>5. ASSUME NEW x, Open(x) PROVE Open(x)'
    <3>1. r # UndefinedRound /\ r \in Nat /\ (applied # UndefinedRound => applied \in Nat)
      BY <1>2, SuccFacts, SyncAssumption DEF FInv, Numbers, OnChain
    <3>2. x \in Roots /\ x[1] \in Nat
      BY <2>5, RoundFacts, ZenonT(40) DEF Open, Roots
    <3>3. x[1] = r \/ (applied # UndefinedRound /\ x[1] <= applied) => x[1] <= r
      BY <1>2, <3>1, <3>2
    <3>. QED
      BY <2>1, <2>5, <3>1, <3>3, ZenonT(40) DEF Open, Roots, UndefinedRound
  <2>6. Pending'
    BY <1>1, <1>4, <2>5, KeptFacts, ZenonT(40) DEF FInv, Pending, Open, UndefinedRound
  <2>7. Turn'
    <3>1. ASSUME NEW q, <<q, "run">> \in finalizing' PROVE Ready(q)' /\ (q # GenesisRound => Reaches(q - 1)')
      BY <1>1, <1>4, <3>1, KeptFacts, Zenon DEF FInv, Turn, Reaches
    <3>. QED
      BY <1>4, <2>1, <2>2, <3>1, KeptFacts, ZenonT(40) DEF FInv, Turn
  <2>. QED
    BY <1>1, <2>3, <2>4, <2>6, <2>7 DEF FInv, FinalizeNeverFails
<1>8. CASE ~(e.outstanding \ {t} = {} /\ e.awaitingRetry = {})
  <2>1. /\ syncing' = [syncing EXCEPT ![r].outstanding = e.outstanding \ {t}]
        /\ UNCHANGED <<applied, finalizable>>
    BY <1>8 DEF Complete
  <2>2. Numbers'
    BY <1>1, <2>1 DEF history, FInv, Numbers, OnChain, Reaches, UndefinedRound
  <2>3. /\ DOMAIN syncing' = DOMAIN syncing /\ \A q \in DOMAIN syncing \ {r} : syncing'[q] = syncing[q]
        /\ syncing'[r] \in InFlight
        /\ syncing'[r].outstanding = e.outstanding \ {t} /\ syncing'[r].awaitingRetry = e.awaitingRetry
    <3>1. r \in DOMAIN syncing /\ syncing[r] \in InFlight /\ e = syncing[r]
          /\ syncing' = [syncing EXCEPT ![r].outstanding = syncing[r].outstanding \ {t}]
      BY <1>2, <1>3, <2>1, ZenonT(40)
    <3> HIDE DEF r, t, e
    <3>. QED
      BY <3>1, FinishedType, ZenonT(40)
  <2>4. ASSUME NEW q \in DOMAIN syncing', NEW u \in RootTypes PROVE Accounted(syncing[q], <<q, u>>)'
    <3>1. CASE q = r /\ u = t
      BY <1>3, <1>5, <3>1, ZenonT(40) DEF Accounted
    <3>2. CASE q = r /\ u # t
      BY <1>2, <1>6, <2>3, <3>2, ZenonT(40) DEF Accounted
    <3>3. CASE q # r
      BY <1>6, <2>3, <3>3, ZenonT(40) DEF Accounted
    <3>. QED
      BY <3>1, <3>2, <3>3, ZenonT(40)
  <2>5. \A q \in DOMAIN syncing' : syncing'[q] \in InFlight
    BY <2>3, ZenonT(40) DEF FInv, Flight
  <2>6. Flight'
    BY <1>1, <2>3, <2>4, <2>5, ZenonT(40) DEF history, FInv, Flight, InFlight, RootTypes
  <2>7. Pending'
    BY <1>1, <1>4, <2>1, <2>3, KeptFacts DEF FInv, Pending, Open, UndefinedRound
  <2>8. Turn'
    BY <1>1, <1>4, <2>1, KeptTurn, ZenonT(40) DEF FInv
  <2>. QED
    BY <1>1, <2>2, <2>6, <2>7, <2>8 DEF FInv, FinalizeNeverFails
<1>. QED
  BY <1>7, <1>8, Zenon

(* A root that failed is accounted for as awaiting its retry.                  *)
LEMMA FRetry ==
  ASSUME FInv, NEW root \in Roots, Retry(root), UNCHANGED <<roots, finalized, chain>>
  PROVE  Flight' /\ DOMAIN syncing' = DOMAIN syncing
<1> DEFINE r == root[1]
           e == syncing[r]
           n == [outstanding |-> e.outstanding \ {root[2]}, awaitingRetry |-> e.awaitingRetry \union {root[2]}]
<1>1. ASSUME NEW x PROVE Has(x)' = Has(x)
  BY ZenonT(40) DEF Has, Reaches
<1>2. CASE r \notin DOMAIN syncing
  BY <1>1, <1>2, ZenonT(40) DEF Retry, FInv, Flight, Accounted, InFlight, RootTypes
<1>3. CASE r \in DOMAIN syncing
  <2>1. DOMAIN syncing' = DOMAIN syncing /\ syncing'[r] = n /\ \A q \in DOMAIN syncing \ {r} : syncing'[q] = syncing[q]
    BY <1>3 DEF Retry
  <2>2. e \in InFlight /\ root[2] \in RootTypes
    BY <1>3, Zenon DEF FInv, Flight, Roots
  <2>3. n \in InFlight
    BY <2>2, Zenon DEF InFlight
  <2>4. ASSUME NEW q \in DOMAIN syncing, NEW u \in RootTypes PROVE Accounted(syncing[q], <<q, u>>)'
    <3>1. Accounted(syncing[q], <<q, u>>)
      BY Zenon DEF FInv, Flight
    <3>2. CASE q = r
      BY <1>1, <2>1, <3>1, <3>2 DEF Accounted
    <3>3. CASE q # r
      BY <1>1, <2>1, <3>1, <3>3, Zenon DEF Accounted
    <3>. QED
      BY <3>2, <3>3
  <2>5. \A q \in DOMAIN syncing : syncing'[q] \in InFlight
    BY <2>1, <2>3, Zenon DEF FInv, Flight
  <2> HIDE DEF n
  <2>. QED
    BY <2>1, <2>4, <2>5, Zenon DEF FInv, Flight, InFlight, RootTypes
<1>. QED
  BY <1>2, <1>3

(* A done diff is applied, or retried.                                         *)
LEMMA FApply == ASSUME FInv, YInv', NEW d \in doneDiffs, Apply(d) PROVE FInv'
<1>1. d \in Applicable /\ phase = "loop"
  BY DEF Apply
<1>2. CASE Complete(d.root) /\ roots' = IF d.fetched THEN roots \union {d.root} ELSE roots
  BY <1>1, <1>2, FApplied, Zenon
<1>3. CASE Retry(d.root) /\ UNCHANGED <<roots, applied, finalizable>>
  <2>1. /\ doneDiffs' = doneDiffs \ {d}
        /\ UNCHANGED <<finalized, history, phase, cached, latest, nextBlock, fetching, results, finalizing>>
    BY DEF Apply
  <2>2. d.root \in Roots
    BY <1>1, NextInFlight
  <2>3. Flight' /\ DOMAIN syncing' = DOMAIN syncing
    BY <1>3, <2>1, <2>2, FRetry, ZenonT(40) DEF history
  <2>4. Numbers' /\ Kept
    BY <1>3, <2>1, SyncAssumption DEF history, FInv, YInv, Numbers, Kept, OnChain, Reaches, Rounds, UndefinedRound
  <2>5. Pending' /\ Turn'
    BY <1>1, <1>3, <2>1, <2>3, <2>4, KeptFacts, KeptTurn, ZenonT(40) DEF FInv, Pending, Open, UndefinedRound
  <2>. QED
    BY <2>1, <2>3, <2>4, <2>5, Zenon DEF FInv, FinalizeNeverFails
<1>. QED
  BY <1>2, <1>3, Zenon DEF Apply

(* The round after the last finalized one is next.                             *)
LEMMA FStartFinalize == ASSUME FInv, YInv', NEW r \in finalizable, StartFinalize(r) PROVE FInv'
<1>1. /\ r = Succ(cached) /\ finalizable' = finalizable \ {r} /\ finalizing' = finalizing \union {<<r, "run">>}
      /\ UNCHANGED <<db, history, phase, rounds, nextBlock, syncing, fetching, results, doneDiffs>>
  BY ZenonT(40) DEF StartFinalize, Finalizable
<1>2. Numbers' /\ Kept
  BY <1>1, SyncAssumption DEF db, history, rounds, FInv, YInv, Numbers, Kept, OnChain, Reaches, Rounds
<1>3. Flight' /\ Pending'
  BY <1>1, <1>2, KeptFlight, KeptPending DEF rounds, FInv, UndefinedRound
<1>4. Ready(r) /\ (r # GenesisRound => Reaches(r - 1))
  <2>1. Ready(r)
    BY DEF FInv, Turn
  <2>2. CASE cached = UndefinedRound
    BY <1>1, <2>1, <2>2, SuccFacts
  <2>3. CASE cached # UndefinedRound
    <3>1. cached \in Nat /\ cached < W - 1 /\ Reaches(cached)
      BY <2>3, RoundFacts, SyncAssumption DEF FInv, Numbers, Reaches, OnChain, Rounds
    <3>2. r = cached + 1
      BY <1>1, <3>1, SyncAssumption, ModSmall DEF Succ
    <3>3. r - 1 = cached
      BY <3>1, <3>2
    <3>. QED
      BY <2>1, <3>1, <3>3, Zenon
  <2>. QED
    BY <2>2, <2>3
<1>5. ASSUME NEW x PROVE Ready(x)' = Ready(x) /\ Reaches(x)' = Reaches(x)
  BY <1>1, Zenon DEF db, history, Ready, OnChain, Has, Reaches
<1>6. Turn'
  BY <1>1, <1>4, <1>5 DEF FInv, Turn
<1>7. FinalizeNeverFails'
  BY <1>1 DEF FInv, FinalizeNeverFails
<1>. QED
  BY <1>2, <1>3, <1>6, <1>7 DEF FInv

(* The result of a finalization moves the last finalized round.                *)
LEMMA FHandleFinalized == ASSUME FInv, YInv', NEW r, NEW res, HandleFinalized(r, res) PROVE FInv'
<1>1. /\ <<r, res>> \in finalizing /\ finalizing' = finalizing \ {<<r, res>>} /\ phase = "loop"
      /\ UNCHANGED <<db, chain, kept, applied, latest, nextBlock, syncing, fetching, results, doneDiffs, finalizable>>
      /\ phase' \in {"loop", "dead"}
  BY DEF HandleFinalized, Waiting
<1>2. cached' = cached \/ (res = "ok" /\ cached' \in {0, r})
  BY DEF HandleFinalized
<1>3. Kept
  BY <1>1, StillKept, Zenon DEF db
<1>4. (cached # UndefinedRound => cached \in Rounds /\ Reaches(cached))'
  <2>1. res = "ok" => r \in Rounds /\ Reaches(r) /\ 0 \in Rounds /\ Reaches(0)
    BY <1>1, RoundFacts, SyncAssumption DEF FInv, YInv, Reaches, Rounds
  <2>. QED
    BY <1>1, <1>2, <2>1, Zenon DEF db, FInv, Numbers, Reaches, UndefinedRound
<1>5. Numbers'
  BY <1>1, <1>4, Zenon DEF db, FInv, Numbers, OnChain, UndefinedRound
<1>6. Flight' /\ Pending' /\ Turn'
  BY <1>1, <1>3, KeptFlight, KeptPending, KeptTurn DEF FInv, UndefinedRound
<1>. QED
  BY <1>1, <1>5, <1>6, Zenon DEF FInv, FinalizeNeverFails

-----------------------------------------------------------------------------
(* triggerRoundFetches opens rounds of the chain only, with a task for every   *)
(* root type that it moves to outstanding.                                     *)
LEMMA FTrigger ==
  ASSUME FInv, NEW block, NEW cache, OnChain(block), TriggerRoundFetches(block, cache),
         UNCHANGED <<roots, finalized, chain, applied>>
  PROVE  Flight' /\ (\A x \in fetching' : Open(x)') /\ (\A x : Open(x) => Open(x)')
<1> DEFINE visited == Visited(block)
           Entry(i) == IF i \in DOMAIN syncing THEN syncing[i]
                       ELSE [outstanding |-> {}, awaitingRetry |-> RootTypes]
           Wanted(i) == Entry(i).awaitingRetry \ Entry(i).outstanding
           Scheduled(i) == [outstanding |-> Entry(i).outstanding \union Wanted(i),
                            awaitingRetry |-> Entry(i).awaitingRetry \ Wanted(i)]
<1>1. /\ syncing' = [i \in DOMAIN syncing \union visited |->
                       IF i \in visited THEN Scheduled(i) ELSE syncing[i]]
      /\ \A x \in fetching' : x \in fetching \/ x \in visited \X RootTypes
  BY ZenonT(40) DEF TriggerRoundFetches
<1>2. visited \subseteq GenesisRound..chain /\ visited \subseteq Rounds
  <2>1. ASSUME NEW i \in visited PROVE i \in Rounds /\ Succ(applied) <= i /\ i <= block
    BY <2>1, Zenon DEF Visited
  <2>2. Succ(applied) \in Nat /\ GenesisRound <= Succ(applied)
    BY SuccFacts, SyncAssumption DEF FInv, Numbers, OnChain
  <2>3. ASSUME NEW i \in visited PROVE i \in GenesisRound..chain
    <3>1. i \in Rounds /\ Succ(applied) <= i /\ i <= block
      BY <2>1, <2>3, Zenon
    <3>2. i \in Nat /\ chain \in Nat /\ block \in Nat /\ block <= chain /\ GenesisRound \in Nat
      BY <3>1, RoundFacts, SyncAssumption DEF OnChain, FInv, Numbers
    <3> HIDE DEF visited
    <3>. QED
      BY <2>2, <3>1, <3>2
  <2>. QED
    BY <2>1, <2>3
<1>3. ASSUME NEW x PROVE Has(x)' = Has(x)
  BY DEF Has, Reaches
<1>4. ASSUME NEW i \in DOMAIN syncing \union visited, NEW u \in RootTypes
      PROVE  Entry(i) \in InFlight /\ Accounted(Entry(i), <<i, u>>)
  <2>1. CASE i \in DOMAIN syncing
    BY <2>1, ZenonT(40) DEF FInv, Flight
  <2>2. CASE i \notin DOMAIN syncing
    BY <2>2 DEF InFlight, Accounted
  <2>. QED
    BY <2>1, <2>2, ZenonT(40)
<1>5. ASSUME NEW i \in DOMAIN syncing' PROVE syncing'[i] \in InFlight
  <2>1. Entry(i) \in InFlight
    BY <1>1, <1>4, <1>5, ZenonT(40) DEF RootTypes
  <2>2. Scheduled(i) \in InFlight
    BY <2>1 DEF InFlight
  <2>3. CASE i \in visited
    BY <1>1, <2>2, <2>3, ZenonT(40)
  <2>4. CASE i \notin visited
    <3>1. i \in DOMAIN syncing /\ syncing'[i] = syncing[i]
      BY <1>1, <1>5, <2>4, ZenonT(40)
    <3>. QED
      BY <3>1 DEF FInv, Flight
  <2>. QED
    BY <2>3, <2>4
<1>6. ASSUME NEW i \in DOMAIN syncing', NEW u \in RootTypes PROVE Accounted(syncing[i], <<i, u>>)'
  <2>1. Accounted(Entry(i), <<i, u>>)
    BY <1>1, <1>4, <1>6, ZenonT(40)
  <2>2. CASE i \in visited
    <3>1. syncing'[i] = Scheduled(i)
      BY <1>1, <2>2, ZenonT(40)
    <3>2. u \in Entry(i).outstanding \union Entry(i).awaitingRetry
            => u \in Scheduled(i).outstanding \union Scheduled(i).awaitingRetry
      BY ZenonT(40)
    <3> HIDE DEF Entry, Scheduled
    <3>. QED
      BY <1>3, <2>1, <3>1, <3>2, ZenonT(40) DEF Accounted
  <2>3. CASE i \notin visited
    <3>1. i \in DOMAIN syncing /\ syncing'[i] = syncing[i] /\ Entry(i) = syncing[i]
      BY <1>1, <1>6, <2>3, ZenonT(40)
    <3> HIDE DEF Entry
    <3>. QED
      BY <1>3, <2>1, <3>1 DEF Accounted
  <2>. QED
    BY <2>2, <2>3
<1>7. DOMAIN syncing' = DOMAIN syncing \union visited
  BY <1>1, ZenonT(40)
<1> HIDE DEF visited
<1>8. Flight'
  BY <1>2, <1>5, <1>6, <1>7, ZenonT(40) DEF FInv, Flight, InFlight, RootTypes
<1>9. ASSUME NEW x, Open(x) PROVE Open(x)'
  BY <1>7, <1>9 DEF Open, UndefinedRound
<1>10. ASSUME NEW x \in fetching' PROVE Open(x)'
  <2>1. CASE x \in fetching
    BY <1>9, <2>1, ZenonT(40) DEF FInv, Pending
  <2>2. CASE x \in visited \X RootTypes
    BY <1>2, <1>7, <2>2, ZenonT(40) DEF Open, Roots
  <2>. QED
    BY <1>1, <2>1, <2>2, ZenonT(40)
<1>. QED
  BY <1>8, <1>9, <1>10

(* A step of the loop that may open rounds: the queues stay in order.          *)
LEMMA FOpened ==
  ASSUME FInv, YInv', Numbers', phase = "loop", latest' # UndefinedRound,
         UNCHANGED <<roots, finalized, chain, applied, phase, finalizable, finalizing>>,
         Flight', \A x \in fetching' : Open(x)', \A x : Open(x) => Open(x)',
         \A i \in results' : i \in results,
         \A d \in doneDiffs' : d \in doneDiffs
                               \/ (\E i \in results : d.root = i.root /\ d.fetched = i.fetched)
  PROVE  FInv'
<1>1. Kept
  BY StillKept, ZenonT(40)
<1>2. ASSUME NEW x PROVE Has(x)' = Has(x)
  BY DEF Has, Reaches
<1>3. \A d \in doneDiffs' : Open(d.root) /\ (~d.fetched => Has(d.root))
  BY ZenonT(40) DEF FInv, Pending
<1>4. Pending'
  BY <1>2, <1>3, Zenon DEF FInv, Pending, UndefinedRound
<1>5. Turn'
  BY <1>1, KeptTurn, Zenon DEF FInv
<1>. QED
  BY <1>4, <1>5, ZenonT(40) DEF FInv, FinalizeNeverFails

(* A block arrives and opens rounds.                                           *)
LEMMA FTakeBlock == ASSUME FInv, YInv', TakeBlock PROVE FInv'
<1>1. /\ phase = "loop" /\ nextBlock <= chain /\ nextBlock' = nextBlock + 1 /\ latest' = nextBlock
      /\ UNCHANGED <<db, history, phase, cached, applied, results, doneDiffs, finalizable, finalizing>>
  BY ZenonT(40) DEF TakeBlock, Waiting
<1>2. \/ TriggerRoundFetches(nextBlock, hashCache')
      \/ UNCHANGED <<syncing, fetching>>
  BY Zenon DEF TakeBlock
<1>3. OnChain(nextBlock)
  BY <1>1, SyncAssumption DEF OnChain, FInv, Numbers
<1>4. latest' # UndefinedRound
  BY <1>1, <1>3, SuccFacts, SyncAssumption DEF OnChain, FInv, Numbers
<1>5. Numbers'
  BY <1>1, <1>3, SyncAssumption DEF db, history, FInv, Numbers, OnChain, Reaches, UndefinedRound
<1>6. Flight' /\ (\A x \in fetching' : Open(x)') /\ (\A x : Open(x) => Open(x)')
  <2>1. CASE TriggerRoundFetches(nextBlock, hashCache')
    BY <1>1, <1>3, <2>1, FTrigger, ZenonT(40) DEF db, history
  <2>2. CASE UNCHANGED <<syncing, fetching>>
    <3>1. ASSUME NEW x PROVE Has(x)' = Has(x) /\ Open(x)' = Open(x)
      BY <1>1, <2>2, ZenonT(40) DEF db, Has, Reaches, Open, UndefinedRound
    <3>2. Flight'
      BY <1>1, <2>2, <3>1, ZenonT(40) DEF history, FInv, Flight, Accounted, InFlight, RootTypes
    <3>. QED
      BY <2>2, <3>1, <3>2, ZenonT(40) DEF FInv, Pending
  <2>. QED
    BY <1>2, <2>1, <2>2
<1>. QED
  BY <1>1, <1>4, <1>5, <1>6, FOpened DEF db, history

(* The heartbeat opens rounds and retries.                                     *)
LEMMA FHeartbeat == ASSUME FInv, YInv', Heartbeat PROVE FInv'
<1>1. /\ phase = "loop" /\ latest # UndefinedRound /\ TriggerRoundFetches(latest, hashCache)
      /\ UNCHANGED <<db, history, phase, rounds, nextBlock, results, doneDiffs, finalizable, finalizing>>
  BY DEF Heartbeat, Waiting
<1>2. OnChain(latest)
  BY <1>1, Zenon DEF FInv, Numbers
<1>3. Numbers'
  BY <1>1, Zenon DEF db, history, rounds, FInv, Numbers, OnChain, Reaches, UndefinedRound
<1>4. Flight' /\ (\A x \in fetching' : Open(x)') /\ (\A x : Open(x) => Open(x)')
  BY <1>1, <1>2, FTrigger, Zenon DEF db, history, rounds
<1>. QED
  BY <1>1, <1>3, <1>4, FOpened, ZenonT(40) DEF db, history, rounds, UndefinedRound

(* A result arrives: its root is retried or waits to be applied.               *)
LEMMA FHandleDiff == ASSUME FInv, YInv', NEW item \in results, HandleDiff(item) PROVE FInv'
<1>1. /\ phase = "loop" /\ results' = results \ {item}
      /\ UNCHANGED <<db, history, phase, rounds, nextBlock, finalizable, finalizing>>
  BY ZenonT(40) DEF HandleDiff, Waiting
<1>2. latest # UndefinedRound /\ OnChain(latest) /\ Open(item.root)
  <2>1. results # {} /\ Open(item.root) /\ (latest = UndefinedRound => results = {})
    BY ZenonT(40) DEF FInv, Pending
  <2>2. latest # UndefinedRound => OnChain(latest)
    BY ZenonT(40) DEF FInv, Numbers
  <2>. QED
    BY <2>1, <2>2, ZenonT(40)
<1>3. Numbers'
  BY <1>1, ZenonT(40) DEF db, history, rounds, FInv, Numbers, OnChain, Reaches, UndefinedRound
<1>4. CASE Retry(item.root) /\ UNCHANGED <<doneDiffs, fetching>>
  <2>1. Flight' /\ DOMAIN syncing' = DOMAIN syncing
    BY <1>1, <1>2, <1>4, FRetry, ZenonT(40) DEF db, history, Open
  <2>2. \A x : Open(x) => Open(x)'
    BY <1>1, <2>1 DEF rounds, Open, UndefinedRound
  <2>3. \A x \in fetching' : Open(x)'
    BY <1>4, <2>2, ZenonT(40) DEF FInv, Pending
  <2>. QED
    BY <1>1, <1>2, <1>3, <1>4, <2>1, <2>2, <2>3, FOpened, ZenonT(40) DEF db, history, rounds, UndefinedRound
<1>5. CASE /\ doneDiffs' = doneDiffs \union {[root |-> item.root, fetched |-> item.fetched]}
           /\ TriggerRoundFetches(latest, hashCache)
  <2>1. Flight' /\ (\A x \in fetching' : Open(x)') /\ (\A x : Open(x) => Open(x)')
    BY <1>1, <1>2, <1>5, FTrigger, Zenon DEF db, history, rounds
  <2>2. ASSUME NEW d \in doneDiffs'
        PROVE  d \in doneDiffs \/ (\E i \in results : d.root = i.root /\ d.fetched = i.fetched)
    BY <1>5, <2>2
  <2>. QED
    BY <1>1, <1>2, <1>3, <2>1, <2>2, FOpened, ZenonT(40) DEF db, history, rounds, UndefinedRound
<1>. QED
  BY <1>4, <1>5 DEF HandleDiff

(* Every step preserves the invariant.                                         *)
LEMMA FNext == FInv /\ [Next]_vars => FInv'
<1> SUFFICES ASSUME FInv, [Next]_vars PROVE FInv'
  OBVIOUS
<1>1. YInv'
  BY YNext DEF FInv
<1>2. CASE UNCHANGED vars
  <2>1. Numbers' /\ Kept
    BY <1>2, SyncAssumption DEF vars, db, history, rounds, FInv, YInv, Numbers, Kept, OnChain, Reaches, Rounds
  <2>. QED
    BY <1>1, <1>2, <2>1, FQuiet, ZenonT(40) DEF vars, rounds, queues, FInv
<1>3. CASE LoopStep
  BY <1>1, <1>3, FApply, FStartFinalize, FTakeBlock, FHeartbeat, FHandleDiff, FHandleFinalized, Zenon DEF LoopStep
<1>4. CASE StartStep
  BY <1>1, <1>4, FStart, FInitialize, FRestore, FRestoreFails, FFlushRestored DEF StartStep
<1>5. CASE TaskStep
  BY <1>1, <1>5, FFetchDiff, FFinalize DEF TaskStep
<1>6. CASE Commit \/ ExecutorCommit \/ Prune \/ Crash
  BY <1>1, <1>6, FCommit, FExecutorCommit, FPrune, FCrash
<1>. QED
  BY <1>2, <1>3, <1>4, <1>5, <1>6 DEF Next

-----------------------------------------------------------------------------
(* THEOREM.  A finalization never fails, "a cant-happen situation" (node.go    *)
(* 1300): for any genesis round, chain and limit on rounds in flight, and      *)
(* whatever is fetched, applied, flushed, pruned and crashes in between, a     *)
(* round is finalized when all its roots are stored and the version before it, *)
(* or the round itself, is final.                                              *)
THEOREM FinalizationsSucceed == Spec => []FinalizeNeverFails
<1>1. FInv => FinalizeNeverFails
  BY DEF FInv
<1>. QED
  BY <1>1, FInit, FNext, PTL DEF Spec

-----------------------------------------------------------------------------
(* Pruning.  The history's first round is at most the database's earliest      *)
(* version, which is a finalized one: the database skips a round below it, and *)
(* refuses to prune its last version.                                          *)
PInv ==
  /\ finalized = None => kept = GenesisRound
  /\ finalized # None => earliest \in Nat /\ kept <= earliest /\ earliest <= finalized

(* A step that neither prunes nor finalizes.                                   *)
LEMMA PSame == PInv /\ UNCHANGED <<kept, finalized, earliest>> => PInv'
BY DEF PInv

(* A version is finalized that the history has, above the last one.            *)
LEMMA PFinal ==
  ASSUME FInv, PInv, NEW r \in Rounds, kept <= r, RecordFinalized(r), kept' = kept,
         finalized # None => finalized < r
  PROVE  PInv'
<1>1. r \in Nat /\ r # None /\ kept \in Nat /\ (finalized # None => finalized \in Nat)
  BY RoundFacts DEF FInv, YInv, Numbers
<1>. QED
  BY <1>1 DEF PInv, RecordFinalized

LEMMA PFinalize == ASSUME FInv, PInv, NEW r \in Rounds, Finalize(r) PROVE PInv'
<1>1. kept' = kept /\ (UNCHANGED <<finalized, earliest>> \/ (RecordFinalized(r) /\ ~(finalized # None /\ r <= finalized)))
  BY DEF Finalize, history
<1>2. CASE UNCHANGED <<finalized, earliest>>
  BY <1>1, <1>2, PSame
<1>3. CASE RecordFinalized(r) /\ ~(finalized # None /\ r <= finalized)
  <2>1. r \in Nat /\ kept \in Nat /\ (finalized # None => finalized \in Nat)
    BY RoundFacts DEF FInv, YInv, Numbers
  <2>2. GenesisRound <= r
    <3>1. <<r, "run">> \in finalizing
      BY ZenonT(40) DEF Finalize
    <3>2. OnChain(r)
      BY <3>1, ZenonT(40) DEF FInv, Turn, Ready
    <3>. QED
      BY <3>2, <2>1, SyncAssumption DEF OnChain
  <2>3. kept <= r
    BY <1>3, <2>1, <2>2 DEF PInv
  <2>. QED
    BY <1>1, <1>3, <2>1, <2>3, PFinal
<1>. QED
  BY <1>1, <1>2, <1>3, Zenon

LEMMA PInitialize == ASSUME GenesisRound <= 1, FInv, PInv, Initialize PROVE PInv'
<1>1. /\ kept' = kept
      /\ \/ UNCHANGED <<finalized, earliest>>
         \/ GenesisRound > 0 /\ finalized = None /\ finalized' = GenesisRound /\ earliest' = 1
  BY DEF Initialize, InitGenesis
<1>2. GenesisRound \in Nat /\ GenesisRound # None
  BY RoundFacts
<1>. QED
  BY <1>1, <1>2, PSame DEF PInv

LEMMA PPrune == ASSUME FInv, PInv, Prune PROVE PInv'
<1>1. kept \in Nat /\ finalized \in Nat /\ finalized # None /\ earliest \in Nat /\ kept <= earliest /\ earliest <= finalized
  BY RoundFacts, Zenon DEF FInv, YInv, Numbers, PInv, Prune
<1>2. kept' = kept + 1 /\ finalized' = finalized
  BY DEF Prune
<1>3. CASE kept = earliest
  <2>1. earliest' = kept + 1 /\ kept # finalized
    BY <1>3 DEF Prune
  <2>. QED
    BY <1>1, <1>2, <1>3, <2>1 DEF PInv
<1>4. CASE kept # earliest
  <2>1. earliest' = earliest
    BY <1>4 DEF Prune
  <2>. QED
    BY <1>1, <1>2, <1>4, <2>1 DEF PInv
<1>. QED
  BY <1>3, <1>4, Zenon

LEMMA PNext == ASSUME GenesisRound <= 1 PROVE FInv /\ PInv /\ [Next]_vars => PInv'
<1> SUFFICES ASSUME FInv, PInv, [Next]_vars PROVE PInv'
  OBVIOUS
<1>1. CASE UNCHANGED vars
  BY <1>1, PSame DEF vars, db, history
<1>2. CASE LoopStep
  <2>1. UNCHANGED <<kept, finalized, earliest>>
    BY <1>2, ZenonT(40) DEF LoopStep, Apply, StartFinalize, TakeBlock, Heartbeat, HandleDiff, HandleFinalized, db, history
  <2>. QED
    BY <2>1, PSame
<1>3. CASE StartStep
  <2>1. ASSUME NEW v \in Rounds, Restore(v) PROVE PInv'
    <3>1. kept <= v /\ RecordFinalized(v) /\ kept' = kept /\ (finalized # None => finalized < v)
      BY <2>1, RoundFacts, SyncAssumption DEF Restore, Known, history, FInv, Numbers
    <3>. QED
      BY <3>1, PFinal, Zenon
  <2>2. ASSUME NEW v \in Rounds, NEW left, RestoreFails(v, left) PROVE PInv'
    BY <2>2, PSame DEF RestoreFails, history
  <2>3. CASE Start
    BY <2>3, PSame DEF Start, history, db
  <2>4. CASE FlushRestored
    BY <2>4, PSame DEF FlushRestored, db
  <2>. QED
    BY <1>3, <2>1, <2>2, <2>3, <2>4, PInitialize DEF StartStep
<1>4. CASE TaskStep
  <2>1. ASSUME NEW root \in fetching, FetchDiff(root) PROVE PInv'
    BY <2>1, PSame, ZenonT(40) DEF FetchDiff, db, history
  <2>. QED
    BY <1>4, <2>1, PFinalize DEF TaskStep
<1>5. CASE Commit \/ ExecutorCommit \/ Crash
  <2>1. UNCHANGED <<kept, finalized, earliest>>
    BY <1>5 DEF Commit, ExecutorCommit, Crash, db, history
  <2>. QED
    BY <2>1, PSame
<1>. QED
  BY <1>1, <1>2, <1>3, <1>4, <1>5, PPrune DEF Next

(* THEOREM.  "Make sure we never prune past what was synced" (node.go 1323):   *)
(* a runtime whose history starts at round 0 or 1 keeps the block of the last  *)
(* stored version through every prune, restore, crash and restart.  With a     *)
(* later genesis round it is not so: initGenesis then fills the database from  *)
(* version 1 on, and its earliest version is below the history.                *)
THEOREM PruningStaysBehind == ASSUME GenesisRound <= 1 PROVE Spec => []PrunedIsSynced
<1>1. Init => PInv
  BY DEF Init, PInv
<1>2. FInv /\ PInv /\ [Next]_vars => PInv'
  BY PNext
<1>3. FInv /\ PInv => PrunedIsSynced
  <2> SUFFICES ASSUME FInv, PInv PROVE PrunedIsSynced
    BY Zenon
  <2>1. kept \in Nat /\ (finalized # None => finalized \in Nat)
    BY RoundFacts DEF FInv, YInv, Numbers
  <2>. QED
    BY <2>1 DEF PInv, PrunedIsSynced
<1>. QED
  BY <1>1, <1>2, <1>3, FInit, FNext, PTL DEF Spec

=============================================================================
