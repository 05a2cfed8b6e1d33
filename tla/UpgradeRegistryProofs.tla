-------------------------- MODULE UpgradeRegistryProofs --------------------------
(* Proofs about the upgrade manager: an inductive invariant on the tables in   *)
(* memory and in the store, the block being executed and the chain.  And about *)
(* the registry, which never rewrites which deployment of a runtime was active *)
(* and lets no entity get past the admission policies.                         *)
EXTENDS UpgradeManager, FiniteSets, TLAPS

(* What is used of finite sets and natural numbers.  It follows from           *)
(* FiniteSetTheorems, which slow the provers down wherever they are in scope:  *)
(* the lemmas take these facts as a hypothesis, and the module ends with the   *)
(* proof that they hold.                                                       *)
Onto(f, S, T) == f \in [S -> T] /\ \A t \in T : \E s \in S : f[s] = t
CardinalityFact == \A S : IsFiniteSet(S) => Cardinality(S) \in Nat
EmptySetFact ==
    /\ IsFiniteSet({}) /\ Cardinality({}) = 0
    /\ \A S : IsFiniteSet(S) => (Cardinality(S) = 0 <=> S = {})
SubsetFact ==
    \A S : IsFiniteSet(S) => \A T \in SUBSET S :
        IsFiniteSet(T) /\ Cardinality(T) <= Cardinality(S) /\ (Cardinality(S) = Cardinality(T) => S = T)
AddFact ==
    \A S, x : IsFiniteSet(S) =>
        /\ IsFiniteSet(S \cup {x})
        /\ Cardinality(S \cup {x}) = IF x \in S THEN Cardinality(S) ELSE Cardinality(S) + 1
RemoveFact ==
    \A S, x : IsFiniteSet(S) =>
        /\ IsFiniteSet(S \ {x})
        /\ Cardinality(S \ {x}) = IF x \in S THEN Cardinality(S) - 1 ELSE Cardinality(S)
ImageFact ==
    \A S, T, f : IsFiniteSet(S) /\ Onto(f, S, T) => IsFiniteSet(T) /\ Cardinality(T) <= Cardinality(S)
LeastFact == \A T \in SUBSET Nat : T # {} => \E x \in T : \A y \in T : x <= y
SetFacts ==
    /\ CardinalityFact /\ EmptySetFact /\ SubsetFact
    /\ AddFact /\ RemoveFact /\ ImageFact /\ LeastFact

LEMMA CardinalityIsNat == ASSUME SetFacts, NEW S, IsFiniteSet(S) PROVE Cardinality(S) \in Nat
BY DEF SetFacts, CardinalityFact
LEMMA EmptySetIsFinite ==
  ASSUME SetFacts
  PROVE  /\ IsFiniteSet({}) /\ Cardinality({}) = 0
         /\ \A S : IsFiniteSet(S) => (Cardinality(S) = 0 <=> S = {})
BY DEF SetFacts, EmptySetFact
LEMMA SubsetIsFinite ==
  ASSUME SetFacts, NEW S, IsFiniteSet(S), NEW T \in SUBSET S
  PROVE  IsFiniteSet(T) /\ Cardinality(T) <= Cardinality(S) /\ (Cardinality(S) = Cardinality(T) => S = T)
BY DEF SetFacts, SubsetFact
LEMMA AddingOne ==
  ASSUME SetFacts, NEW S, NEW x, IsFiniteSet(S)
  PROVE  /\ IsFiniteSet(S \cup {x})
         /\ Cardinality(S \cup {x}) = IF x \in S THEN Cardinality(S) ELSE Cardinality(S) + 1
BY DEF SetFacts, AddFact
LEMMA RemovingOne ==
  ASSUME SetFacts, NEW S, NEW x, IsFiniteSet(S)
  PROVE  /\ IsFiniteSet(S \ {x})
         /\ Cardinality(S \ {x}) = IF x \in S THEN Cardinality(S) - 1 ELSE Cardinality(S)
BY DEF SetFacts, RemoveFact
LEMMA ImageIsFinite ==
  ASSUME SetFacts, NEW S, NEW T, NEW f, IsFiniteSet(S), Onto(f, S, T)
  PROVE  IsFiniteSet(T) /\ Cardinality(T) <= Cardinality(S)
BY DEF SetFacts, ImageFact
LEMMA LeastNatural ==
  ASSUME SetFacts, NEW T, T \subseteq Nat, T # {}
  PROVE  \E x \in T : \A y \in T : x <= y
BY DEF SetFacts, LeastFact


(* The first block of the upgrade epoch.                                       *)
FirstBlock(d, h) == h \in 1..MaxHeight /\ EpochAt[h] >= Epoch[d] /\ EpochAt[h - 1] < Epoch[d]

(* What an entry of either table says about the chain and the startup stage.   *)
Entry(d, e, h, ms) ==
  /\ e.upgradeHeight = InvalidUpgradeHeight => e.stage = 0 /\ EpochAt[h] < Epoch[d]
  /\ e.upgradeHeight # InvalidUpgradeHeight => FirstBlock(d, e.upgradeHeight) /\ e.upgradeHeight <= h + 1
  /\ e.upgradeHeight # InvalidUpgradeHeight /\ e.stage >= UpgradeStageStartup => d \in ms \cup (Descriptors \ HasStartup)
  /\ e.stage = UpgradeStageConsensus => e.upgradeHeight # InvalidUpgradeHeight /\ e.upgradeHeight <= h
Entries ==
  /\ \A d \in Pending(pending) : Entry(d, pending[d], height, migrated)
  /\ \A d \in Pending(store) : Entry(d, store[d], height, migrated)

(* The store and the node's table agree on which upgrades are in progress.     *)
Written ==
  node # "down" =>
    \A d \in Pending(store) : d \in Pending(pending) /\ pending[d].upgradeHeight = store[d].upgradeHeight

(* How far the block being executed has got.                                   *)
Control ==
  /\ node # "running" => phase = "idle" /\ ~calling
  /\ node = "down" => pending = Empty
  /\ node = "starting" => ~shouldStop
  /\ calling => phase # "idle"
  /\ ~calling => todo = {} /\ \A d \in Pending(pending) : pending[d].stage < UpgradeStageConsensus
  /\ phase # "idle" => height < MaxHeight /\ ~shouldStop
  /\ phase = "idle" => ran = {}
  /\ \A d \in todo : d \in Pending(pending) /\ pending[d].stage < UpgradeStageConsensus

(* The binary fits the upgrades in progress, whose startup stage is done.      *)
Fits ==
  node # "down" /\ ~shouldStop =>
    \A d \in Pending(pending) : pending[d].upgradeHeight # InvalidUpgradeHeight =>
      binary \in Runs[d] /\ (node = "running" => pending[d].stage >= UpgradeStageStartup)

(* A descriptor that BeginBlock has dealt with.                                *)
Covered(d) == phase = "EndBlock" \/ (phase = "BeginBlock" /\ d \notin todo)
Dealt ==
  \A d \in Pending(pending) :
    /\ Covered(d) /\ pending[d].upgradeHeight = InvalidUpgradeHeight => EpochAt[current] < Epoch[d]
    /\ Covered(d) /\ pending[d].upgradeHeight = current => <<d, "BeginBlock">> \in ran
    /\ phase = "EndBlock" /\ d \notin todo /\ pending[d].upgradeHeight = current => <<d, "EndBlock">> \in ran
RanNow ==
  \A r \in ran : r[1] \in Pending(pending) /\ pending[r[1]].upgradeHeight = current /\ (r[2] = "EndBlock" => phase = "EndBlock")

(* An acknowledged upgrade is on disk until it is applied.                     *)
Kept ==
  \A d \in submitted :
    \/ \E p \in Phases, h \in 1..height : <<d, p, h>> \in applied
    \/ d \in Pending(store) /\ store[d].upgradeHeight \in {InvalidUpgradeHeight, current}

(* The inductive invariant.  What is asked of the applied upgrades needs the   *)
(* agreement of the two tables, for a crash falls back to the store, and the   *)
(* progress of the block, for a replay runs the handlers again.                *)
UInv ==
  /\ TypeOK /\ Entries /\ Written /\ Control /\ Fits /\ Dealt /\ RanNow /\ Kept
  /\ NoPanic /\ AppliedOnce /\ StartupFirst

(* The epochs of the chain never go back.                                      *)
LEMMA EpochsGrow ==
  /\ \A h \in 0..MaxHeight : EpochAt[h] \in Nat /\ EpochAt[h + 1] \in Nat /\ EpochAt[h] <= EpochAt[h + 1]
  /\ \A d \in Descriptors : Epoch[d] \in Nat
  /\ MaxHeight \in Nat /\ MaxFaults \in Nat
BY UpgradeAssumption

(* The inductive invariant holds at first.                                     *)
LEMMA UpgradeInit == Init => UInv
<1>. SUFFICES ASSUME Init PROVE UInv
  OBVIOUS
<1>1. Pending(pending) = {} /\ Pending(store) = {}
  BY DEF Init, Pending, Empty
<1>3. Empty \in Tables
  BY DEF Empty, Tables
<1>4. height \in 0..MaxHeight /\ faults \in 0..MaxFaults
  BY EpochsGrow DEF Init
<1>2. TypeOK
  BY <1>1, <1>3, <1>4, Zenon DEF Init, TypeOK
<1>. QED
  BY <1>1, <1>2 DEF Init, UInv, Entries, Written, Control, Fits, Dealt, RanNow, Kept, NoPanic, AppliedOnce, StartupFirst, Empty

(* What flushDescriptorLocked keeps.                                           *)
LEMMA FlushedTable ==
  ASSUME NEW table \in Tables
  PROVE  /\ Flushed(table) \in Tables
         /\ \A d \in Pending(Flushed(table)) :
              d \in Pending(table) /\ Flushed(table)[d] = table[d] /\ table[d].stage < UpgradeStageConsensus
         /\ \A d \in Pending(table) : table[d].stage < UpgradeStageConsensus => d \in Pending(Flushed(table))
<1>1. \A d \in Descriptors : Flushed(table)[d] = IF d \in Pending(table) /\ table[d].stage >= UpgradeStageConsensus THEN None ELSE table[d]
  BY DEF Flushed
<1>2. Flushed(table) \in Tables
  BY DEF Flushed, Tables
<1>3. \A d \in Pending(table) : table[d] \in PendingUpgrade
  BY DEF Pending, Tables
<1>4. \A d \in Pending(table) : table[d].stage \in 0..2
  BY <1>3 DEF PendingUpgrade, Stages
<1>. QED
  BY <1>1, <1>2, <1>4 DEF Pending, UpgradeStageConsensus

(* An entry of a table.                                                        *)
LEMMA EntryTypes ==
  ASSUME NEW table \in Tables, NEW d \in Pending(table)
  PROVE  /\ table[d] \in PendingUpgrade /\ d \in Descriptors
         /\ table[d].upgradeHeight \in 0..(MaxHeight + 1) /\ table[d].stage \in 0..2
BY DEF Tables, Pending, PendingUpgrade, Stages

(* A table in which one upgrade's height or stage is set.                      *)
LEMMA SetHeight ==
  ASSUME NEW table \in Tables, NEW d \in Pending(table), NEW h \in 0..(MaxHeight + 1)
  PROVE  /\ [table EXCEPT ![d].upgradeHeight = h] \in Tables
         /\ Pending([table EXCEPT ![d].upgradeHeight = h]) = Pending(table)
         /\ [table EXCEPT ![d].upgradeHeight = h][d].upgradeHeight = h
         /\ [table EXCEPT ![d].upgradeHeight = h][d].stage = table[d].stage
         /\ \A o \in Descriptors \ {d} : [table EXCEPT ![d].upgradeHeight = h][o] = table[o]
<1>. DEFINE e == [table[d] EXCEPT !.upgradeHeight = h]
<1>1. table[d] \in PendingUpgrade /\ d \in Descriptors
  BY EntryTypes
<1>2. e \in PendingUpgrade /\ e.upgradeHeight = h /\ e.stage = table[d].stage
  BY <1>1 DEF PendingUpgrade
<1>3. [table EXCEPT ![d].upgradeHeight = h] = [table EXCEPT ![d] = e]
  BY DEF Tables
<1>. HIDE DEF e
<1>. QED
  BY <1>1, <1>2, <1>3, NoneAssumption DEF Tables, Pending

WithStage(table, d, s) == [table EXCEPT ![d].stage = s]

LEMMA SetStage ==
  ASSUME NEW table \in Tables, NEW d \in Pending(table), NEW s, s \in 0..2
  PROVE  /\ WithStage(table, d, s) \in Tables
         /\ Pending(WithStage(table, d, s)) = Pending(table)
         /\ WithStage(table, d, s)[d].stage = s
         /\ WithStage(table, d, s)[d].upgradeHeight = table[d].upgradeHeight
         /\ \A o \in Descriptors \ {d} : WithStage(table, d, s)[o] = table[o]
<1>. DEFINE e == [table[d] EXCEPT !.stage = s]
<1>1. table[d] \in PendingUpgrade /\ d \in Descriptors
  BY EntryTypes
<1>2. e \in PendingUpgrade /\ e.upgradeHeight = table[d].upgradeHeight /\ e.stage = s
  BY <1>1 DEF PendingUpgrade, Stages
<1>3. WithStage(table, d, s) = [table EXCEPT ![d] = e]
  BY DEF Tables, WithStage
<1>. HIDE DEF e
<1>. QED
  BY <1>1, <1>2, <1>3, NoneAssumption DEF Tables, Pending

(* An upgrade whose block is not behind the chain is not complete.             *)
LEMMA EarlyStage ==
  ASSUME TypeOK, Entries, NEW d \in Pending(pending), pending[d].upgradeHeight \in {InvalidUpgradeHeight, current}
  PROVE  pending[d].stage < UpgradeStageConsensus
<1>1. pending[d].stage \in 0..2 /\ height \in Nat
  BY EntryTypes DEF TypeOK
<1>. QED
  BY <1>1 DEF Entries, Entry, current, UpgradeStageConsensus, InvalidUpgradeHeight

(* New and checkStatus: the tables are what the store held.                    *)
LEMMA StartKeeps ==
  ASSUME UInv, NEW b \in Binaries, Start(b)
  PROVE  UInv'
<1>. USE DEF UInv
<1>1. /\ node = "down" /\ node' = "starting" /\ binary' = b /\ shouldStop' = FALSE
      /\ pending' = Flushed(store) /\ store' = Flushed(store)
      /\ UNCHANGED <<calling, todo, phase, ran, height, applied, migrated, submitted, panicked, faults>>
      /\ \A d \in Pending(store) : store[d].upgradeHeight # InvalidUpgradeHeight => b \in Runs[d]
  BY DEF Start
<1>2. /\ pending' \in Tables /\ store' \in Tables
      /\ \A d \in Pending(store)' : d \in Pending(store) /\ store'[d] = store[d] /\ store[d].stage < UpgradeStageConsensus
      /\ \A d \in Pending(store) : d \in Pending(store)'
      /\ Pending(pending)' = Pending(store)'
  BY <1>1, FlushedTable DEF TypeOK
<1>3. phase = "idle" /\ ran = {} /\ todo = {} /\ ~calling
  BY <1>1 DEF Control
<1>4. TypeOK'
  BY <1>1, <1>2, ZenonT(40) DEF TypeOK
<1>5. Entries'
  BY <1>1, <1>2 DEF Entries
<1>6. Written'
  BY <1>1, <1>2 DEF Written
<1>7. Control'
  BY <1>1, <1>2, <1>3 DEF Control
<1>8. Fits'
  BY <1>1, <1>2 DEF Fits
<1>9. Dealt'
  BY <1>1, <1>3 DEF Dealt, Covered
<1>10. RanNow' /\ StartupFirst'
  BY <1>1, <1>3 DEF RanNow, StartupFirst
<1>11. Kept' 
  BY <1>1, <1>2 DEF Kept, current
<1>12. NoPanic' /\ AppliedOnce'
  BY <1>1 DEF NoPanic, AppliedOnce
<1>. QED
  BY <1>4, <1>5, <1>6, <1>7, <1>8, <1>9, <1>10, <1>11, <1>12

(* The stage after the startup handlers.                                       *)
LEMMA StartupKeeps ==
  ASSUME UInv, StartupUpgrade
  PROVE  UInv'
<1>. USE DEF UInv
<1>1. /\ node = "starting" /\ node' = "running"
      /\ migrated' = migrated \union NeedsStartup
      /\ store' = Flushed(pending')
      /\ UNCHANGED <<binary, shouldStop, calling, todo, phase, ran, height, applied, submitted, panicked, faults>>
  BY DEF StartupUpgrade
<1>0. /\ NeedsStartup \subseteq Pending(pending)
      /\ \A d \in NeedsStartup : pending[d].upgradeHeight # InvalidUpgradeHeight
      /\ \A d \in Pending(pending) \ NeedsStartup : pending[d].upgradeHeight = InvalidUpgradeHeight \/ ~(pending[d].stage < UpgradeStageStartup)
  BY DEF NeedsStartup
<1>a. \A d \in Descriptors : pending'[d] = IF d \in NeedsStartup THEN [pending[d] EXCEPT !.stage = UpgradeStageStartup] ELSE pending[d]
  BY DEF StartupUpgrade
<1>b. \A d \in NeedsStartup : /\ [pending[d] EXCEPT !.stage = UpgradeStageStartup] \in PendingUpgrade
                              /\ pending'[d].upgradeHeight = pending[d].upgradeHeight /\ pending'[d].stage = UpgradeStageStartup
  <2>. TAKE d \in NeedsStartup
  <2>1. pending[d] \in PendingUpgrade /\ d \in Descriptors
    BY <1>0, EntryTypes DEF TypeOK
  <2>. QED
    BY <2>1, <1>a DEF PendingUpgrade, UpgradeStageStartup, Stages
<1>e. \A d \in NeedsStartup : pending'[d].upgradeHeight = pending[d].upgradeHeight /\ pending'[d].stage = 1
  BY <1>b, ZenonT(40) DEF UpgradeStageStartup
<1>f. \A d \in Descriptors \ NeedsStartup : pending'[d] = pending[d]
  BY <1>a, ZenonT(40)
<1>c. pending' \in Tables /\ Pending(pending)' = Pending(pending)
  BY <1>a, <1>b, <1>0, NoneAssumption, ZenonT(40) DEF TypeOK, Tables, Pending, StartupUpgrade
<1>2. /\ store' \in Tables
      /\ \A d \in Pending(store)' : d \in Pending(pending) /\ store'[d] = pending'[d] /\ store'[d].stage < UpgradeStageConsensus
      /\ \A d \in Pending(pending) : pending'[d].stage < UpgradeStageConsensus => d \in Pending(store)'
  BY <1>1, <1>c, FlushedTable
<1>3. phase = "idle" /\ ran = {} /\ todo = {} /\ ~calling
  BY <1>1 DEF Control
<1>d. ASSUME NEW d \in Pending(pending)
      PROVE  Entry(d, pending'[d], height', migrated')
  <2>1. CASE d \in NeedsStartup
    BY <2>1, <1>0, <1>1, <1>e DEF Entries, Entry, UpgradeStageStartup, UpgradeStageConsensus
  <2>2. CASE d \notin NeedsStartup
    <3>1. pending'[d] = pending[d]
      BY <2>2, <1>a, ZenonT(40) DEF Pending
    <3>. QED
      BY <3>1, <1>1 DEF Entries, Entry
  <2>. QED
    BY <2>1, <2>2
<1>4. TypeOK'
  <2>1. NeedsStartup \subseteq Descriptors
    BY <1>0 DEF Pending
  <2>. QED
    BY <1>1, <1>2, <1>c, <2>1 DEF TypeOK
<1>5. Entries'
  BY <1>c, <1>d, <1>2 DEF Entries
<1>6. Written'
  BY <1>1, <1>2, <1>c DEF Written
<1>7. Control'
  <2>1. \A d \in Pending(pending) : pending'[d].stage < UpgradeStageConsensus
    <3>. TAKE d \in Pending(pending)
    <3>1. CASE d \in NeedsStartup
      BY <3>1, <1>e DEF UpgradeStageConsensus
    <3>2. CASE d \notin NeedsStartup
      BY <3>2, <1>f, <1>3 DEF Control, Pending
    <3>. QED
      BY <3>1, <3>2
  <2>. QED
    BY <2>1, <1>1, <1>c, <1>3 DEF Control
<1>8. Fits'
  <2>. SUFFICES ASSUME NEW d \in Pending(pending), pending'[d].upgradeHeight # InvalidUpgradeHeight
                PROVE  binary \in Runs[d] /\ pending'[d].stage >= UpgradeStageStartup
    BY <1>1, <1>c DEF Fits
  <2>1. d \in Descriptors /\ pending[d].stage \in 0..2
    BY EntryTypes DEF TypeOK
  <2>2. pending'[d].upgradeHeight = pending[d].upgradeHeight
    BY <2>1, <1>a, <1>b, ZenonT(40)
  <2>3. ~shouldStop
    BY <1>1 DEF Control
  <2>4. pending'[d].stage >= UpgradeStageStartup
    <3>1. CASE d \in NeedsStartup
      BY <3>1, <1>e DEF UpgradeStageStartup
    <3>2. CASE d \notin NeedsStartup
      BY <3>2, <2>1, <2>2, <1>f, <1>0 DEF UpgradeStageStartup
    <3>. QED
      BY <3>1, <3>2
  <2>. QED
    BY <2>2, <2>3, <2>4, <1>1 DEF Fits
<1>9. Dealt'
  BY <1>1, <1>3 DEF Dealt, Covered
<1>10. RanNow' /\ StartupFirst'
  BY <1>1, <1>3 DEF RanNow, StartupFirst
<1>11. Kept' 
  <2>1. ASSUME NEW d \in Pending(store), store[d].upgradeHeight \in {InvalidUpgradeHeight, current}
        PROVE  d \in Pending(store)' /\ store'[d].upgradeHeight = store[d].upgradeHeight
    <3>1. d \in Pending(pending) /\ pending[d].upgradeHeight = store[d].upgradeHeight
      BY <1>1 DEF Written
    <3>2. pending[d].stage < UpgradeStageConsensus /\ d \in Descriptors
      BY <2>1, <3>1, EarlyStage DEF TypeOK, Pending
    <3>3. pending'[d].stage < UpgradeStageConsensus /\ pending'[d].upgradeHeight = pending[d].upgradeHeight
      <4>1. CASE d \in NeedsStartup
        BY <4>1, <1>e DEF UpgradeStageStartup, UpgradeStageConsensus
      <4>2. CASE d \notin NeedsStartup
        BY <4>2, <3>2, <1>a, ZenonT(40)
      <4>. QED
        BY <4>1, <4>2
    <3>. QED
      BY <3>1, <3>3, <1>2
  <2>. QED
    BY <2>1, <1>1 DEF Kept, current
<1>12. NoPanic' /\ AppliedOnce'
  BY <1>1 DEF NoPanic, AppliedOnce
<1>. QED
  BY <1>4, <1>5, <1>6, <1>7, <1>8, <1>9, <1>10, <1>11, <1>12

(* Going down keeps the store, or writes the table to it first.                *)
LEMMA DownKeeps ==
  ASSUME UInv, Down, faults' \in 0..MaxFaults, migrated \subseteq migrated', migrated' \subseteq Descriptors,
         store' = store \/ (node = "running" /\ store' = Flushed(pending))
  PROVE  UInv'
<1>. USE DEF UInv
<1>1. /\ node' = "down" /\ pending' = Empty /\ ~calling' /\ calling' = FALSE /\ todo' = {} /\ phase' = "idle" /\ ran' = {}
      /\ UNCHANGED <<binary, shouldStop, height, applied, submitted, panicked>>
  BY DEF Down
<1>2. pending' \in Tables /\ Pending(pending)' = {}
  BY <1>1 DEF Tables, Empty, Pending
<1>3. /\ store' \in Tables
      /\ \A d \in Pending(store)' : store'[d].stage < UpgradeStageConsensus
      /\ \A d \in Pending(store)' : \/ d \in Pending(store) /\ store'[d] = store[d]
                                    \/ d \in Pending(pending) /\ store'[d] = pending[d]
  BY <1>1, FlushedTable DEF TypeOK
<1>4. TypeOK'
  BY <1>1, <1>2, <1>3, ZenonT(40) DEF TypeOK
<1>5. ASSUME NEW d, NEW e, Entry(d, e, height, migrated)
      PROVE  Entry(d, e, height', migrated')
  BY <1>1, <1>5 DEF Entry
<1>6. Entries'
  BY <1>2, <1>3, <1>5, Zenon DEF Entries
<1>7. Written' /\ Control' /\ Fits' /\ Dealt' /\ RanNow' /\ StartupFirst'
  BY <1>1, <1>2 DEF Written, Control, Fits, Dealt, RanNow, StartupFirst
<1>8. Kept'
  <2>1. ASSUME NEW d \in Pending(store), store[d].upgradeHeight \in {InvalidUpgradeHeight, current}
        PROVE  d \in Pending(store)' /\ store'[d].upgradeHeight = store[d].upgradeHeight
    <3>1. CASE store' = store
      BY <3>1
    <3>2. CASE node = "running" /\ store' = Flushed(pending)
      <4>1. d \in Pending(pending) /\ pending[d].upgradeHeight = store[d].upgradeHeight
        BY <3>2 DEF Written
      <4>2. pending[d].stage < UpgradeStageConsensus
        BY <2>1, <4>1, EarlyStage
      <4>3. d \in Pending(Flushed(pending)) /\ Flushed(pending)[d] = pending[d]
        BY <4>1, <4>2, FlushedTable DEF TypeOK
      <4>. QED
        BY <4>1, <4>3, <3>2
    <3>. QED
      BY <3>1, <3>2
  <2>. QED
    BY <2>1, <1>1 DEF Kept, current
<1>9. NoPanic' /\ AppliedOnce'
  BY <1>1 DEF NoPanic, AppliedOnce
<1>. QED
  BY <1>4, <1>6, <1>7, <1>8, <1>9

(* Between two calls there is nothing to flush.                                *)
LEMMA FlushedSame ==
  ASSUME NEW table \in Tables, \A d \in Pending(table) : table[d].stage < UpgradeStageConsensus
  PROVE  Flushed(table) = table
<1>1. \A d \in Pending(table) : table[d].stage \in 0..2
  BY EntryTypes
<1>2. \A d \in Descriptors : ~(d \in Pending(table) /\ table[d].stage >= UpgradeStageConsensus)
  BY <1>1 DEF UpgradeStageConsensus
<1>. QED
  BY <1>2 DEF Flushed, Tables

(* SubmitDescriptor, written or not.                                           *)
LEMMA SubmitKeeps ==
  ASSUME UInv, NEW d \in Descriptors, SubmitDescriptor(d)
  PROVE  UInv'
<1>. USE DEF UInv
<1>. DEFINE new == [upgradeHeight |-> InvalidUpgradeHeight, stage |-> 0]
            table == [pending EXCEPT ![d] = new]
<1>1. /\ node = "running" /\ ~calling /\ height < MaxHeight /\ EpochAt[height + 1] < Epoch[d] /\ d \notin Pending(pending)
      /\ UNCHANGED <<node, binary, shouldStop, calling, todo, phase, ran, height, applied, migrated, panicked>>
      /\ pending' = Flushed(table)
      /\ \/ store' = Flushed(table) /\ submitted' = submitted \cup {d} /\ faults' = faults
         \/ store' = store /\ submitted' = submitted /\ faults < MaxFaults /\ faults' = faults + 1
  BY DEF SubmitDescriptor, Idle
<1>2. new \in PendingUpgrade /\ new # None /\ new.upgradeHeight = InvalidUpgradeHeight /\ new.stage = 0
  BY EpochsGrow, NoneAssumption DEF PendingUpgrade, InvalidUpgradeHeight, Stages
<1>. HIDE DEF new
<1>3. /\ table \in Tables /\ Pending(table) = Pending(pending) \cup {d} /\ table[d] = new
      /\ \A o \in Descriptors \ {d} : table[o] = pending[o]
  BY <1>2 DEF TypeOK, Tables, Pending
<1>4. todo = {} /\ \A o \in Pending(pending) : pending[o].stage < UpgradeStageConsensus
  BY <1>1 DEF Control
<1>5. \A o \in Pending(table) : table[o].stage < UpgradeStageConsensus
  <2>. TAKE o \in Pending(table)
  <2>1. CASE o = d
    BY <2>1, <1>2, <1>3 DEF UpgradeStageConsensus
  <2>2. CASE o # d
    BY <2>2, <1>3, <1>4 DEF Pending
  <2>. QED
    BY <2>1, <2>2
<1>6. Flushed(table) = table
  BY <1>3, <1>5, FlushedSame, ZenonT(40)
<1>. HIDE DEF table
<1>7. height \in 0..MaxHeight /\ EpochAt[height] < Epoch[d]
  BY <1>1, EpochsGrow DEF TypeOK
<1>8. TypeOK'
  <2>1. faults' \in 0..MaxFaults
    BY <1>1, EpochsGrow DEF TypeOK
  <2>2. submitted' \subseteq Descriptors
    BY <1>1 DEF TypeOK
  <2>. QED
    BY <2>1, <2>2, <1>1, <1>3, <1>5, <1>6 DEF TypeOK
<1>9. \A o \in Pending(table) : Entry(o, table[o], height, migrated)
  <2>. TAKE o \in Pending(table)
  <2>1. CASE o = d
    BY <2>1, <1>2, <1>3, <1>7 DEF Entry, InvalidUpgradeHeight, UpgradeStageStartup, UpgradeStageConsensus
  <2>2. CASE o # d
    BY <2>2, <1>3 DEF Entries, Pending
  <2>. QED
    BY <2>1, <2>2
<1>10. Entries'
  BY <1>1, <1>6, <1>9 DEF Entries
<1>11. Written'
  BY <1>1, <1>3, <1>6, Zenon DEF Written, Pending
<1>12. Control'
  BY <1>1, <1>3, <1>4, <1>5, <1>6, Zenon DEF Control
<1>13. Fits'
  BY <1>1, <1>2, <1>3, <1>6, Zenon DEF Fits, Pending
<1>14. Dealt'
  <2>. SUFFICES ASSUME NEW o \in Pending(table)
                PROVE  /\ Covered(o) /\ table[o].upgradeHeight = InvalidUpgradeHeight => EpochAt[current] < Epoch[o]
                       /\ Covered(o) /\ table[o].upgradeHeight = current => <<o, "BeginBlock">> \in ran
                       /\ phase = "EndBlock" /\ o \notin todo /\ table[o].upgradeHeight = current => <<o, "EndBlock">> \in ran
    BY <1>1, <1>6, ZenonT(40) DEF Dealt, Covered, current
  <2>1. CASE o = d
    BY <2>1, <1>1, <1>2, <1>3, <1>7 DEF current, InvalidUpgradeHeight
  <2>2. CASE o # d
    BY <2>2, <1>3 DEF Dealt, Pending
  <2>. QED
    BY <2>1, <2>2
<1>15. RanNow'
  BY <1>1, <1>3, <1>6 DEF RanNow, Pending, current
<1>16. Kept'
  BY <1>1, <1>2, <1>3, <1>6 DEF Kept, Written, Pending, current
<1>17. NoPanic' /\ AppliedOnce' /\ StartupFirst'
  BY <1>1 DEF NoPanic, AppliedOnce, StartupFirst
<1>. QED
  BY <1>8, <1>10, <1>11, <1>12, <1>13, <1>14, <1>15, <1>16, <1>17

(* CancelUpgrade.                                                              *)
LEMMA CancelKeeps ==
  ASSUME UInv, NEW d \in Descriptors, CancelUpgrade(d)
  PROVE  UInv'
<1>. USE DEF UInv
<1>. DEFINE table == [pending EXCEPT ![d] = None]
<1>1. /\ node = "running" /\ ~calling
      /\ d \in Pending(pending) => pending[d].upgradeHeight = InvalidUpgradeHeight
      /\ UNCHANGED <<node, binary, shouldStop, calling, todo, phase, ran, height, applied, migrated, panicked, faults>>
      /\ pending' = Flushed(table) /\ store' = Flushed(table) /\ submitted' = submitted \ {d}
  BY DEF CancelUpgrade, Idle
<1>3. /\ table \in Tables /\ Pending(table) = Pending(pending) \ {d}
      /\ \A o \in Pending(table) : table[o] = pending[o]
  BY DEF TypeOK, Tables, Pending
<1>4. todo = {} /\ \A o \in Pending(pending) : pending[o].stage < UpgradeStageConsensus
  BY <1>1 DEF Control
<1>5. \A o \in Pending(table) : table[o].stage < UpgradeStageConsensus
  BY <1>3, <1>4, ZenonT(40)
<1>6. Flushed(table) = table
  BY <1>3, <1>5, FlushedSame, ZenonT(40)
<1>. HIDE DEF table
<1>7. TypeOK'
  BY <1>1, <1>3, <1>5, <1>6 DEF TypeOK
<1>8. Entries' /\ Written'
  BY <1>1, <1>3, <1>6 DEF Entries, Written
<1>9. Control' /\ Fits'
  BY <1>1, <1>3, <1>4, <1>6 DEF Control, Fits
<1>10. Dealt'
  BY <1>1, <1>3, <1>6, ZenonT(40) DEF Dealt, Covered, current
<1>11. RanNow'
  <2>1. height \in Nat /\ current # InvalidUpgradeHeight
    BY DEF TypeOK, current, InvalidUpgradeHeight
  <2>. QED
    BY <2>1, <1>1, <1>3, <1>6 DEF RanNow, current
<1>12. Kept'
  BY <1>1, <1>3, <1>6 DEF Kept, Written, current
<1>13. NoPanic' /\ AppliedOnce' /\ StartupFirst'
  BY <1>1 DEF NoPanic, AppliedOnce, StartupFirst
<1>. QED
  BY <1>7, <1>8, <1>9, <1>10, <1>11, <1>12, <1>13

(* BeginBlock or EndBlock calls ConsensusUpgrade.                              *)
LEMMA CallKeeps ==
  ASSUME UInv, NEW p \in Phases, ConsensusUpgrade(p)
  PROVE  UInv'
<1>. USE DEF UInv
<1>1. /\ node = "running" /\ ~calling /\ height < MaxHeight /\ phase = Before(p) /\ ~shouldStop
      /\ phase' = p /\ calling' = TRUE /\ todo' = Pending(pending)
      /\ UNCHANGED <<node, binary, pending, store, shouldStop, ran, height, applied, migrated, submitted, panicked, faults>>
  BY DEF ConsensusUpgrade, Idle
<1>2. todo = {} /\ \A o \in Pending(pending) : pending[o].stage < UpgradeStageConsensus
  BY <1>1 DEF Control
<1>3. p = "EndBlock" => phase = "BeginBlock"
  BY <1>1 DEF Before, Phases
<1>4. p = "BeginBlock" => ran = {}
  BY <1>1 DEF Before, Control
<1>5. TypeOK'
  BY <1>1 DEF TypeOK, Phases, Pending
<1>6. Entries' /\ Written' /\ Fits' /\ Kept' /\ NoPanic' /\ AppliedOnce' /\ StartupFirst'
  BY <1>1, Zenon DEF Entries, Written, Fits, Kept, NoPanic, AppliedOnce, StartupFirst, current
<1>7. Control'
  BY <1>1, <1>2 DEF Control, Phases
<1>8. Dealt'
  BY <1>1, <1>2, <1>3, ZenonT(40) DEF Dealt, Covered, Phases, current
<1>9. RanNow'
  BY <1>1, <1>3, <1>4 DEF RanNow, Phases, current
<1>. QED
  BY <1>5, <1>6, <1>7, <1>8, <1>9

(* The facts about a visit that all of its outcomes share.                     *)
LEMMA Visiting ==
  ASSUME UInv, NEW d \in todo
  PROVE  /\ calling /\ phase \in Phases /\ ~shouldStop /\ height < MaxHeight
         /\ d \in Pending(pending) /\ d \in Descriptors /\ pending[d].stage < UpgradeStageConsensus
         /\ Entry(d, pending[d], height, migrated)
<1>. USE DEF UInv
<1>1. calling /\ phase # "idle"
  BY DEF Control
<1>. QED
  BY <1>1 DEF Control, Entries, Pending, TypeOK

(* The outcomes of a visit.                                                    *)
LEMMA TooEarlyKeeps ==
  ASSUME UInv, NEW d \in todo, TooEarly(d), UNCHANGED <<node, binary, height, applied, migrated, submitted, faults>>
  PROVE  UInv'
<1>. USE DEF UInv
<1>1. /\ pending[d].upgradeHeight = InvalidUpgradeHeight /\ EpochAt[current] < Epoch[d] /\ todo' = todo \ {d}
      /\ UNCHANGED <<pending, store, shouldStop, calling, phase, ran, panicked>>
  BY DEF TooEarly
<1>2. calling
  BY Visiting
<1>3. TypeOK'
  BY <1>1 DEF TypeOK
<1>4. Entries' /\ Written' /\ Fits' /\ Kept' /\ NoPanic' /\ AppliedOnce' /\ StartupFirst' /\ RanNow'
  BY <1>1 DEF Entries, Written, Fits, Kept, NoPanic, AppliedOnce, StartupFirst, RanNow, current
<1>5. Control'
  BY <1>1, <1>2 DEF Control
<1>6. Dealt'
  <2>1. height \in Nat /\ current # InvalidUpgradeHeight
    BY DEF TypeOK, current, InvalidUpgradeHeight
  <2>. QED
    BY <2>1, <1>1, ZenonT(40) DEF Dealt, Covered, current
<1>. QED
  BY <1>3, <1>4, <1>5, <1>6

LEMMA PerformKeeps ==
  ASSUME UInv, NEW d \in todo, node = "running", Perform(d), UNCHANGED <<node, binary, height, applied, migrated, submitted, faults>>
  PROVE  UInv'
<1>. USE DEF UInv
<1>1. /\ pending[d].upgradeHeight = current /\ ran' = ran \cup {<<d, phase>>} /\ todo' = todo \ {d}
      /\ UNCHANGED <<pending, store, shouldStop, calling, phase, panicked>>
  BY Visiting DEF Perform
<1>2. calling /\ phase \in Phases /\ ~shouldStop /\ d \in Pending(pending) /\ d \in Descriptors
  BY Visiting
<1>3. TypeOK'
  BY <1>1, <1>2 DEF TypeOK
<1>4. Entries' /\ Written' /\ Fits' /\ Kept' /\ NoPanic' /\ AppliedOnce'
  BY <1>1, Zenon DEF Entries, Written, Fits, Kept, NoPanic, AppliedOnce, current
<1>5. Control'
  BY <1>1, <1>2 DEF Control, Phases
<1>6. Dealt'
  <2>1. height \in Nat /\ current # InvalidUpgradeHeight
    BY DEF TypeOK, current, InvalidUpgradeHeight
  <2>. QED
    BY <2>1, <1>1, <1>2, ZenonT(40) DEF Dealt, Covered, current, Phases
<1>7. RanNow'
  <2>1. current' = current /\ Pending(pending)' = Pending(pending)
    BY <1>1, ZenonT(40) DEF current, Pending
  <2>2. ASSUME NEW r \in ran'
        PROVE  r[1] \in Pending(pending) /\ pending[r[1]].upgradeHeight = current /\ (r[2] = "EndBlock" => phase = "EndBlock")
    <3>1. CASE r \in ran
      BY <3>1 DEF RanNow
    <3>2. CASE r = <<d, phase>>
      BY <3>2, <1>1, <1>2
    <3>. QED
      BY <1>1, <3>1, <3>2
  <2>. QED
    BY <1>1, <2>1, <2>2 DEF RanNow
<1>8. StartupFirst'
  <2>1. height \in Nat /\ current # InvalidUpgradeHeight
    BY DEF TypeOK, current, InvalidUpgradeHeight
  <2>2. binary \in Runs[d] /\ pending[d].stage >= UpgradeStageStartup
    BY <2>1, <1>1, <1>2, Zenon DEF Fits
  <2>3. d \in migrated \cup (Descriptors \ HasStartup)
    BY <2>1, <2>2, <1>1, <1>2 DEF Entries, Entry
  <2>. QED
    BY <2>2, <2>3, <1>1 DEF StartupFirst
<1>. QED
  BY <1>3, <1>4, <1>5, <1>6, <1>7, <1>8

(* An epoch is reached or it is not.                                           *)
LEMMA EpochLess ==
  ASSUME TypeOK, height < MaxHeight, NEW d \in Descriptors
  PROVE  ~(EpochAt[current] < Epoch[d] /\ EpochAt[current] >= Epoch[d])
<1>1. EpochAt[height + 1] \in Nat /\ Epoch[d] \in Nat
  BY EpochsGrow DEF TypeOK
<1>. QED
  BY <1>1 DEF current

(* The table in which the upgrade's block has been recorded: only complete     *)
(* upgrades are gone, and only d has changed.                                  *)
LEMMA Recorded ==
  ASSUME UInv, NEW d \in todo, pending[d].upgradeHeight = InvalidUpgradeHeight, EpochAt[current] >= Epoch[d],
         NEW T, T = Flushed([pending EXCEPT ![d].upgradeHeight = current])
  PROVE  /\ T \in Tables /\ d \in Pending(T) /\ T[d].upgradeHeight = current /\ T[d].stage = 0
         /\ FirstBlock(d, current)
         /\ \A o \in Pending(T) : T[o].stage < UpgradeStageConsensus /\ o \in Pending(pending)
         /\ \A o \in Pending(T) \ {d} : T[o] = pending[o]
         /\ \A o \in Pending(pending) : pending[o].stage < UpgradeStageConsensus => o \in Pending(T)
         /\ \A o \in Pending(T) : Entry(o, T[o], height, migrated)
<1>. USE DEF UInv
<1>. DEFINE table == [pending EXCEPT ![d].upgradeHeight = current]
<1>1. /\ d \in Pending(pending) /\ d \in Descriptors /\ height < MaxHeight
      /\ Entry(d, pending[d], height, migrated)
  BY Visiting
<1>2. height \in 0..MaxHeight /\ height \in Nat /\ current \in 0..(MaxHeight + 1) /\ current \in 1..MaxHeight /\ current - 1 = height
  BY <1>1, EpochsGrow DEF TypeOK, current
<1>3. pending \in Tables
  BY DEF TypeOK
<1>4. /\ table \in Tables /\ Pending(table) = Pending(pending)
      /\ table[d].upgradeHeight = current /\ table[d].stage = pending[d].stage
      /\ \A o \in Descriptors \ {d} : table[o] = pending[o]
  BY <1>1, <1>2, <1>3, SetHeight
<1>. HIDE DEF table
<1>5. pending[d].stage = 0 /\ EpochAt[height] < Epoch[d]
  BY <1>1 DEF Entry
<1>6. FirstBlock(d, current)
  BY <1>2, <1>5 DEF FirstBlock
<1>7. /\ T \in Tables
      /\ \A o \in Pending(T) : o \in Pending(table) /\ T[o] = table[o] /\ table[o].stage < UpgradeStageConsensus
      /\ \A o \in Pending(table) : table[o].stage < UpgradeStageConsensus => o \in Pending(T)
  BY <1>4, FlushedTable, ZenonT(40) DEF table
<1>8. d \in Pending(T) /\ T[d].upgradeHeight = current /\ T[d].stage = 0
  <2>1. d \in Pending(table) /\ table[d].stage = 0 /\ table[d].stage < UpgradeStageConsensus
    BY <1>1, <1>4, <1>5 DEF UpgradeStageConsensus
  <2>2. d \in Pending(T) /\ T[d] = table[d]
    BY <2>1, <1>7, ZenonT(40)
  <2>. QED
    BY <2>1, <2>2, <1>4
<1>9. \A o \in Pending(T) \ {d} : T[o] = pending[o]
  BY <1>4, <1>7, ZenonT(40) DEF Pending
<1>10. \A o \in Pending(T) : T[o].stage < UpgradeStageConsensus /\ o \in Pending(pending)
  BY <1>4, <1>7, ZenonT(40)
<1>11. \A o \in Pending(pending) : pending[o].stage < UpgradeStageConsensus => o \in Pending(T)
  BY <1>4, <1>7, <1>8, ZenonT(40) DEF Pending
<1>12. Entry(d, T[d], height, migrated)
  BY <1>2, <1>6, <1>8 DEF Entry, InvalidUpgradeHeight, UpgradeStageStartup, UpgradeStageConsensus, current
<1>13. \A o \in Pending(T) : Entry(o, T[o], height, migrated)
  BY <1>9, <1>10, <1>12, ZenonT(40) DEF Entries
<1>. QED
  BY <1>6, <1>7, <1>8, <1>9, <1>10, <1>11, <1>13, ZenonT(40)

LEMMA StopKeeps ==
  ASSUME UInv, NEW d \in todo, node = "running", Stop(d), UNCHANGED <<node, binary, height, applied, migrated, submitted, faults>>
  PROVE  UInv'
<1>. USE DEF UInv
<1>1. /\ pending[d].upgradeHeight = InvalidUpgradeHeight /\ EpochAt[current] >= Epoch[d]
      /\ pending' = Flushed([pending EXCEPT ![d].upgradeHeight = current]) /\ store' = pending'
      /\ shouldStop' = TRUE /\ calling' = FALSE /\ todo' = {} /\ phase' = "idle" /\ ran' = {} /\ panicked' = panicked
  BY DEF Stop
<1>2. /\ pending' \in Tables /\ d \in Pending(pending)' /\ pending'[d].upgradeHeight = current
      /\ \A o \in Pending(pending)' : pending'[o].stage < UpgradeStageConsensus /\ o \in Pending(pending)
      /\ \A o \in Pending(pending)' \ {d} : pending'[o] = pending[o]
      /\ \A o \in Pending(pending) : pending[o].stage < UpgradeStageConsensus => o \in Pending(pending)'
      /\ \A o \in Pending(pending)' : Entry(o, pending'[o], height, migrated)
  BY <1>1, Recorded, ZenonT(40)
<1>3. TypeOK'
  BY <1>1, <1>2, ZenonT(40) DEF TypeOK
<1>4. Entries' /\ Written'
  BY <1>1, <1>2, ZenonT(40) DEF Entries, Written
<1>5. Control' /\ Fits' /\ Dealt' /\ RanNow' /\ StartupFirst'
  BY <1>1, <1>2, ZenonT(40) DEF Control, Fits, Dealt, RanNow, StartupFirst, Covered
<1>6. Kept'
  <2>1. ASSUME NEW o \in Pending(store), store[o].upgradeHeight \in {InvalidUpgradeHeight, current}
        PROVE  o \in Pending(store)' /\ store'[o].upgradeHeight \in {InvalidUpgradeHeight, current}
    <3>1. o \in Pending(pending) /\ pending[o].upgradeHeight = store[o].upgradeHeight
      BY DEF Written
    <3>2. pending[o].stage < UpgradeStageConsensus
      BY <2>1, <3>1, EarlyStage
    <3>. QED
      BY <2>1, <3>1, <3>2, <1>1, <1>2, ZenonT(40)
  <2>. QED
    BY <2>1, <1>1, ZenonT(40) DEF Kept, current
<1>7. NoPanic' /\ AppliedOnce'
  BY <1>1 DEF NoPanic, AppliedOnce
<1>. QED
  BY <1>3, <1>4, <1>5, <1>6, <1>7

LEMMA ProceedKeeps ==
  ASSUME UInv, NEW d \in todo, node = "running", Proceed(d), UNCHANGED <<node, binary, height, applied, migrated, submitted, faults>>
  PROVE  UInv'
<1>. USE DEF UInv
<1>0. /\ store' = Flushed([pending EXCEPT ![d].upgradeHeight = current])
      /\ pending' = [store' EXCEPT ![d].stage = UpgradeStageStartup]
      /\ panicked' = (panicked \/ store'[d].stage + 1 # UpgradeStageStartup)
  BY DEF Proceed
<1>1. /\ pending[d].upgradeHeight = InvalidUpgradeHeight /\ EpochAt[current] >= Epoch[d]
      /\ binary \in Runs[d] /\ d \notin HasStartup
      /\ ran' = ran \union {<<d, phase>>} /\ todo' = todo \ {d} /\ UNCHANGED <<shouldStop, calling, phase>>
  BY DEF Proceed, InPlace
<1>2. /\ store' \in Tables /\ d \in Pending(store)' /\ store'[d].upgradeHeight = current /\ store'[d].stage = 0
      /\ FirstBlock(d, current)
      /\ \A o \in Pending(store)' : store'[o].stage < UpgradeStageConsensus /\ o \in Pending(pending)
      /\ \A o \in Pending(store)' \ {d} : store'[o] = pending[o]
      /\ \A o \in Pending(pending) : pending[o].stage < UpgradeStageConsensus => o \in Pending(store)'
      /\ \A o \in Pending(store)' : Entry(o, store'[o], height, migrated)
  BY <1>0, <1>1, Recorded, ZenonT(40)
<1>3. /\ calling /\ phase \in Phases /\ ~shouldStop /\ d \in Pending(pending) /\ d \in Descriptors /\ height < MaxHeight
  BY Visiting
<1>4. /\ pending' \in Tables /\ Pending(pending)' = Pending(store)'
      /\ pending'[d].stage = 1 /\ pending'[d].upgradeHeight = current
      /\ \A o \in Pending(pending)' \ {d} : pending'[o] = store'[o] /\ pending'[o] = pending[o]
  <2>1. UpgradeStageStartup \in 0..2
    BY DEF UpgradeStageStartup
  <2>2. /\ pending' \in Tables /\ Pending(pending') = Pending(store')
        /\ pending'[d].stage = UpgradeStageStartup /\ pending'[d].upgradeHeight = store'[d].upgradeHeight
        /\ \A o \in Descriptors \ {d} : pending'[o] = store'[o]
    <3>1. store' \in Tables /\ d \in Pending(store')
      BY <1>2
    <3>2. pending' = WithStage(store', d, UpgradeStageStartup)
      BY <1>0 DEF WithStage
    <3>. QED
      BY <3>1, <3>2, <2>1, SetStage
  <2>3. Pending(store)' \subseteq Descriptors
    BY DEF Pending
  <2>4. pending'[d].stage = 1
    BY <2>2 DEF UpgradeStageStartup
  <2>. QED
    BY <2>2, <2>3, <2>4, <1>2
<1>p. panicked' = panicked
  <2>1. ~(store'[d].stage + 1 # UpgradeStageStartup)
    BY <1>2 DEF UpgradeStageStartup
  <2>. QED
    BY <2>1, <1>0, ZenonT(40) DEF TypeOK
<1>5. height \in Nat /\ current # InvalidUpgradeHeight
  BY DEF TypeOK, current, InvalidUpgradeHeight
<1>6. TypeOK'
  <2>1. ran' \subseteq Descriptors \X Phases
    BY <1>1, <1>3 DEF TypeOK
  <2>. QED
    BY <2>1, <1>p, <1>1, <1>2, <1>3, <1>4, ZenonT(40) DEF TypeOK
<1>7. Entries'
  <2>1. Entry(d, pending'[d], height, migrated)
    <3>1. current <= height + 1 /\ ~(1 = UpgradeStageConsensus)
      BY <1>5 DEF UpgradeStageConsensus, current
    <3>. QED
      BY <1>1, <1>2, <1>3, <1>4, <1>5, <3>1, ZenonT(40) DEF Entry
  <2>. QED
    BY <2>1, <1>2, <1>4 DEF Entries
<1>8. Written'
  BY <1>1, <1>2, <1>4, ZenonT(40) DEF Written
<1>9. Control'
  <2>1. \A o \in todo' : o \in Pending(pending)' /\ pending'[o].stage < UpgradeStageConsensus
    BY <1>1, <1>2, <1>4, ZenonT(40) DEF Control
  <2>. QED
    BY <2>1, <1>1, <1>3, ZenonT(40) DEF Control, Phases
<1>10. Fits'
  <2>. SUFFICES ASSUME NEW o \in Pending(pending)', pending'[o].upgradeHeight # InvalidUpgradeHeight
                PROVE  binary \in Runs[o] /\ pending'[o].stage >= UpgradeStageStartup
    BY DEF Fits
  <2>1. CASE o = d
    BY <2>1, <1>1, <1>4 DEF UpgradeStageStartup
  <2>2. CASE o # d
    BY <2>2, <1>2, <1>3, <1>4, Zenon DEF Fits
  <2>. QED
    BY <2>1, <2>2, Zenon
<1>11. Dealt'
  <2>1. phase = "BeginBlock"
    BY <1>1, <1>3, <1>5, EpochLess, ZenonT(40) DEF Dealt, Covered, Phases
  <2>. SUFFICES ASSUME NEW o \in Pending(pending)', o \notin todo'
                PROVE  /\ pending'[o].upgradeHeight = InvalidUpgradeHeight => EpochAt[current] < Epoch[o]
                       /\ pending'[o].upgradeHeight = current => <<o, "BeginBlock">> \in ran'
    BY <2>1, <1>1, ZenonT(40) DEF Dealt, Covered, current
  <2>2. CASE o = d
    BY <2>1, <2>2, <1>1, <1>4, <1>5
  <2>3. CASE o # d
    BY <2>1, <2>3, <1>1, <1>2, <1>4, ZenonT(40) DEF Dealt, Covered
  <2>. QED
    BY <2>2, <2>3
<1>12. RanNow'
  <2>1. ASSUME NEW r \in ran
        PROVE  r[1] \in Pending(pending)' /\ pending'[r[1]].upgradeHeight = current
    <3>1. r[1] \in Pending(pending) /\ pending[r[1]].upgradeHeight = current
      BY DEF RanNow
    <3>2. pending[r[1]].stage < UpgradeStageConsensus
      BY <3>1, EarlyStage, Zenon
    <3>. QED
      BY <3>1, <3>2, <1>2, <1>4, ZenonT(40)
  <2>2. d \in Pending(pending)' /\ pending'[d].upgradeHeight = current
    BY <1>2, <1>4
  <2>3. (<<d, phase>>)[1] = d /\ (<<d, phase>>)[2] = phase
    OBVIOUS
  <2>4. \A r \in ran : r[2] = "EndBlock" => phase = "EndBlock"
    BY Zenon DEF RanNow
  <2>. QED
    BY <2>1, <2>2, <2>3, <2>4, <1>1, ZenonT(40) DEF RanNow, current
<1>13. Kept'
  <2>1. ASSUME NEW o \in Pending(store), store[o].upgradeHeight \in {InvalidUpgradeHeight, current}
        PROVE  o \in Pending(store)' /\ store'[o].upgradeHeight \in {InvalidUpgradeHeight, current}
    <3>1. o \in Pending(pending) /\ pending[o].upgradeHeight = store[o].upgradeHeight
      BY DEF Written
    <3>2. pending[o].stage < UpgradeStageConsensus
      BY <2>1, <3>1, EarlyStage
    <3>. QED
      BY <2>1, <3>1, <3>2, <1>2
  <2>. QED
    BY <2>1, <1>1, Zenon DEF Kept, current
<1>14. NoPanic' /\ AppliedOnce'
  BY <1>p DEF NoPanic, AppliedOnce
<1>15. StartupFirst'
  BY <1>1 DEF StartupFirst
<1>. QED
  BY <1>6, <1>7, <1>8, <1>9, <1>10, <1>11, <1>12, <1>13, <1>14, <1>15

LEMMA CompleteKeeps ==
  ASSUME UInv, NEW d \in todo, node = "running", Complete(d), UNCHANGED <<node, binary, height, applied, migrated, submitted, faults>>
  PROVE  UInv'
<1>. USE DEF UInv
<1>1. /\ pending[d].upgradeHeight # InvalidUpgradeHeight /\ pending[d].upgradeHeight # current
      /\ todo' = todo \ {d} /\ UNCHANGED <<store, shouldStop, calling, phase, ran>>
  BY DEF Complete
<1>2. /\ calling /\ phase \in Phases /\ ~shouldStop /\ d \in Pending(pending) /\ d \in Descriptors
      /\ pending[d].stage < UpgradeStageConsensus /\ Entry(d, pending[d], height, migrated)
  BY Visiting, Zenon
<1>3. /\ pending' \in Tables /\ Pending(pending)' = Pending(pending)
      /\ pending'[d].stage = 2 /\ pending'[d].upgradeHeight = pending[d].upgradeHeight
      /\ \A o \in Descriptors \ {d} : pending'[o] = pending[o]
  <2>1. pending' = WithStage(pending, d, UpgradeStageConsensus)
    BY DEF Complete, WithStage
  <2>2. UpgradeStageConsensus \in 0..2 /\ UpgradeStageConsensus = 2
    BY DEF UpgradeStageConsensus
  <2>3. pending \in Tables
    BY Zenon DEF TypeOK
  <2>4. /\ pending' \in Tables /\ Pending(pending') = Pending(pending)
        /\ pending'[d].stage = UpgradeStageConsensus /\ pending'[d].upgradeHeight = pending[d].upgradeHeight
        /\ \A o \in Descriptors \ {d} : pending'[o] = pending[o]
    <3>1. UpgradeStageConsensus \in 0..2 /\ pending \in Tables /\ d \in Pending(pending)
      BY <2>2, <2>3, <1>2, ZenonT(40)
    <3>. QED
      BY <3>1, <2>1, SetStage
  <2>. QED
    BY <2>2, <2>4
<1>o. Pending(pending) \subseteq Descriptors
  BY DEF Pending
<1>4. pending[d].stage = 1 /\ pending[d].upgradeHeight <= height /\ height \in Nat
  <2>1. pending[d].stage \in 0..2 /\ pending[d].upgradeHeight \in 0..(MaxHeight + 1) /\ height \in Nat /\ MaxHeight \in Nat
    BY <1>2, EntryTypes, EpochsGrow DEF TypeOK
  <2>2. pending[d].stage >= UpgradeStageStartup
    BY <1>1, <1>2, ZenonT(40) DEF Fits
  <2>3. pending[d].upgradeHeight <= height + 1
    BY <1>1, <1>2, ZenonT(40) DEF Entry
  <2>. QED
    BY <2>1, <2>2, <2>3, <1>1, <1>2 DEF UpgradeStageStartup, UpgradeStageConsensus, current
<1>p. panicked' = panicked
  <2>1. ~(pending[d].upgradeHeight > current) /\ ~(pending[d].stage + 1 # UpgradeStageConsensus)
    <3>1. pending[d].upgradeHeight \in 0..(MaxHeight + 1) /\ MaxHeight \in Nat
      BY <1>2, EntryTypes, EpochsGrow, Zenon DEF TypeOK
    <3>. QED
      BY <3>1, <1>4 DEF UpgradeStageConsensus, current
  <2>. QED
    BY <2>1, ZenonT(40) DEF TypeOK, Complete
<1>5. TypeOK'
  BY <1>p, <1>1, <1>3 DEF TypeOK
<1>6. Entries'
  <2>1. Entry(d, pending'[d], height, migrated)
    BY <1>1, <1>2, <1>3, <1>4 DEF Entry, UpgradeStageStartup, UpgradeStageConsensus
  <2>. QED
    BY <2>1, <1>1, <1>3, <1>o, ZenonT(40) DEF Entries
<1>7. Written'
  BY <1>1, <1>3, <1>o, Zenon DEF Written
<1>8. Control'
  BY <1>1, <1>2, <1>3, <1>o, ZenonT(40) DEF Control, Phases
<1>9. Fits'
  <2>. SUFFICES ASSUME NEW o \in Pending(pending), pending'[o].upgradeHeight # InvalidUpgradeHeight
                PROVE  binary \in Runs[o] /\ pending'[o].stage >= UpgradeStageStartup
    BY <1>3, Zenon DEF Fits
  <2>1. CASE o = d
    <3>1. pending'[o].stage >= UpgradeStageStartup
      BY <2>1, <1>3 DEF UpgradeStageStartup
    <3>. QED
      BY <3>1, <2>1, <1>1, <1>2, Zenon DEF Fits
  <2>2. CASE o # d
    BY <2>2, <1>2, <1>3, <1>o DEF Fits
  <2>. QED
    BY <2>1, <2>2, Zenon
<1>10. Dealt'
  BY <1>1, <1>3, <1>o, ZenonT(40) DEF Dealt, Covered, current
<1>11. RanNow'
  BY <1>1, <1>3, <1>o, ZenonT(40) DEF RanNow, current
<1>12. Kept' /\ NoPanic' /\ AppliedOnce' /\ StartupFirst'
  BY <1>1, <1>p DEF Kept, NoPanic, AppliedOnce, StartupFirst, current
<1>. QED
  BY <1>5, <1>6, <1>7, <1>8, <1>9, <1>10, <1>11, <1>12

(* The end of the loop.                                                        *)
LEMMA ReturnKeeps ==
  ASSUME UInv, Return
  PROVE  UInv'
<1>. USE DEF UInv
<1>1. /\ node = "running" /\ calling /\ todo = {} /\ calling' = FALSE
      /\ pending' = Flushed(pending) /\ store' = Flushed(pending)
      /\ UNCHANGED <<node, binary, shouldStop, todo, phase, ran, height, applied, migrated, submitted, panicked, faults>>
  BY DEF Return
<1>2. /\ pending' \in Tables /\ store' \in Tables /\ Pending(store)' = Pending(pending)' /\ store' = pending'
      /\ \A o \in Pending(pending)' : o \in Pending(pending) /\ pending'[o] = pending[o] /\ pending[o].stage < UpgradeStageConsensus
      /\ \A o \in Pending(pending) : pending[o].stage < UpgradeStageConsensus => o \in Pending(pending)'
  BY <1>1, FlushedTable DEF TypeOK
<1>3. TypeOK'
  BY <1>1, <1>2, ZenonT(40) DEF TypeOK
<1>4. Entries' /\ Written' /\ Fits'
  BY <1>1, <1>2, ZenonT(40) DEF Entries, Written, Fits
<1>5. Control'
  BY <1>1, <1>2, ZenonT(40) DEF Control
<1>6. Dealt'
  BY <1>1, <1>2, ZenonT(40) DEF Dealt, Covered, current
<1>7. RanNow'
  <2>1. \A r \in ran : r[1] \in Pending(pending) /\ pending[r[1]].upgradeHeight = current
    BY DEF RanNow
  <2>2. \A r \in ran : r[1] \in Pending(pending)' /\ pending'[r[1]] = pending[r[1]]
    BY <2>1, <1>2, EarlyStage, Zenon
  <2>. QED
    BY <2>1, <2>2, <1>1 DEF RanNow, current
<1>8. Kept'
  <2>1. ASSUME NEW o \in Pending(store), store[o].upgradeHeight \in {InvalidUpgradeHeight, current}
        PROVE  o \in Pending(store)' /\ store'[o].upgradeHeight \in {InvalidUpgradeHeight, current}
    <3>1. o \in Pending(pending) /\ pending[o].upgradeHeight = store[o].upgradeHeight
      BY <1>1 DEF Written
    <3>2. pending[o].stage < UpgradeStageConsensus
      BY <2>1, <3>1, EarlyStage
    <3>. QED
      BY <2>1, <3>1, <3>2, <1>2
  <2>. QED
    BY <2>1, <1>1 DEF Kept, current
<1>9. NoPanic' /\ AppliedOnce' /\ StartupFirst'
  BY <1>1 DEF NoPanic, AppliedOnce, StartupFirst
<1>. QED
  BY <1>3, <1>4, <1>5, <1>6, <1>7, <1>8, <1>9

(* The block is committed with what its handlers did.                          *)
LEMMA CommitKeeps ==
  ASSUME UInv, Commit
  PROVE  UInv'
<1>. USE DEF UInv
<1>1. /\ node = "running" /\ ~calling /\ phase = "EndBlock" /\ phase' = "idle" /\ height' = current
      /\ applied' = applied \union {<<r[1], r[2], current>> : r \in ran} /\ ran' = {}
      /\ UNCHANGED <<node, binary, pending, store, shouldStop, calling, todo, migrated, submitted, panicked, faults>>
  BY DEF Commit, Idle
<1>2. /\ todo = {} /\ height < MaxHeight /\ height \in Nat /\ MaxHeight \in Nat /\ current = height + 1
      /\ current \in 1..MaxHeight /\ height' \in 0..MaxHeight /\ current # InvalidUpgradeHeight
  BY <1>1, EpochsGrow DEF Control, TypeOK, current, InvalidUpgradeHeight
<1>3. \A o \in Pending(pending) :
        /\ pending[o].upgradeHeight = InvalidUpgradeHeight => EpochAt[current] < Epoch[o]
        /\ pending[o].upgradeHeight = current => \A p \in Phases : <<o, p>> \in ran
  BY <1>1, <1>2, ZenonT(40) DEF Dealt, Covered, Phases
<1>4. TypeOK'
  <2>1. applied' \subseteq Descriptors \X Phases \X (1..MaxHeight)
    BY <1>1, <1>2 DEF TypeOK
  <2>. QED
    BY <2>1, <1>1, <1>2 DEF TypeOK
<1>5. ASSUME NEW o \in Descriptors, NEW e \in PendingUpgrade, Entry(o, e, height, migrated),
             e.upgradeHeight = InvalidUpgradeHeight => EpochAt[current] < Epoch[o]
      PROVE  Entry(o, e, current, migrated)
  <2>1. e.upgradeHeight \in 0..(MaxHeight + 1)
    BY DEF PendingUpgrade
  <2>. QED
    BY <2>1, <1>2, <1>5 DEF Entry
<1>6. Entries'
  <2>1. ASSUME NEW o \in Pending(pending)
        PROVE  Entry(o, pending[o], current, migrated)
    <3>1. o \in Descriptors /\ pending[o] \in PendingUpgrade
      BY EntryTypes, Zenon DEF TypeOK
    <3>. QED
      BY <3>1, <1>3, <1>5, ZenonT(40) DEF Entries
  <2>2. ASSUME NEW o \in Pending(store)
        PROVE  Entry(o, store[o], current, migrated)
    <3>1. o \in Descriptors /\ store[o] \in PendingUpgrade
      BY EntryTypes DEF TypeOK
    <3>2. o \in Pending(pending) /\ pending[o].upgradeHeight = store[o].upgradeHeight
      BY <1>1 DEF Written
    <3>. QED
      BY <3>1, <3>2, <1>3, <1>5 DEF Entries
  <2>. QED
    BY <2>1, <2>2, <1>1 DEF Entries
<1>7. Written' /\ Fits' /\ NoPanic' /\ StartupFirst' /\ RanNow'
  BY <1>1, Zenon DEF Written, Fits, NoPanic, StartupFirst, RanNow
<1>8. Control'
  BY <1>1, <1>2, Zenon DEF Control
<1>9. Dealt'
  BY <1>1 DEF Dealt, Covered
<1>10. Kept'
  <2>. SUFFICES ASSUME NEW d \in submitted
                PROVE  \/ \E p \in Phases, h \in 1..height' : <<d, p, h>> \in applied'
                       \/ d \in Pending(store) /\ store[d].upgradeHeight = InvalidUpgradeHeight
    BY <1>1, Zenon DEF Kept
  <2>1. CASE \E p \in Phases, h \in 1..height : <<d, p, h>> \in applied
    <3>1. 1..height \subseteq 1..height'
      BY <1>1, <1>2
    <3>. QED
      BY <2>1, <3>1, <1>1
  <2>2. CASE d \in Pending(store) /\ store[d].upgradeHeight = current
    <3>1. d \in Pending(pending) /\ pending[d].upgradeHeight = current
      BY <2>2, <1>1 DEF Written
    <3>2. "BeginBlock" \in Phases /\ <<d, "BeginBlock">> \in ran
      BY <3>1, <1>3, ZenonT(40) DEF Phases
    <3>3. <<d, "BeginBlock", current>> \in applied'
      BY <3>2, <1>1
    <3>4. current \in 1..height'
      BY <1>1, <1>2
    <3>. QED
      BY <3>2, <3>3, <3>4
  <2>. QED
    BY <2>1, <2>2 DEF Kept
<1>11. AppliedOnce'
  <2>. SUFFICES ASSUME NEW a \in applied'
                PROVE  /\ EpochAt[a[3]] >= Epoch[a[1]] /\ EpochAt[a[3] - 1] < Epoch[a[1]]
                       /\ \A p \in Phases : <<a[1], p, a[3]>> \in applied'
    BY DEF AppliedOnce
  <2>1. CASE a \in applied
    BY <2>1, <1>1 DEF AppliedOnce
  <2>2. ASSUME NEW r \in ran, a = <<r[1], r[2], current>>
        PROVE  /\ EpochAt[a[3]] >= Epoch[a[1]] /\ EpochAt[a[3] - 1] < Epoch[a[1]]
               /\ \A p \in Phases : <<a[1], p, a[3]>> \in applied'
    <3>. DEFINE d == r[1]
    <3>1. d \in Pending(pending) /\ pending[d].upgradeHeight = current
      BY Zenon DEF RanNow
    <3>2. FirstBlock(d, current)
      BY <3>1, <1>2 DEF Entries, Entry
    <3>3. \A p \in Phases : <<d, p>> \in ran
      BY <3>1, <1>3
    <3>4. \A p \in Phases : <<d, p, current>> \in applied'
      <4>. TAKE p \in Phases
      <4>. DEFINE q == <<d, p>>
      <4>1. q \in ran /\ q[1] = d /\ q[2] = p
        BY <3>3
      <4>. HIDE DEF q, d
      <4>2. <<q[1], q[2], current>> \in applied'
        BY <4>1, <1>1, Zenon
      <4>. QED
        BY <4>1, <4>2
    <3>5. a[1] = d /\ a[3] = current
      BY <2>2
    <3>. QED
      BY <3>2, <3>4, <3>5 DEF FirstBlock
  <2>. QED
    BY <2>1, <2>2, <1>1
<1>. QED
  BY <1>4, <1>6, <1>7, <1>8, <1>9, <1>10, <1>11

(* Every step keeps the invariant.                                             *)
LEMMA UpgradeStep == UInv /\ [Next]_vars => UInv'
<1>. SUFFICES ASSUME UInv, [Next]_vars
              PROVE  UInv'
  OBVIOUS
<1>1. CASE StartupFailed \/ Crash \/ Close
  <2>1. NeedsStartup \subseteq Descriptors /\ migrated \subseteq Descriptors
    BY Zenon DEF NeedsStartup, Pending, UInv, TypeOK
  <2>2. faults' \in 0..MaxFaults
    BY <1>1, EpochsGrow DEF StartupFailed, Crash, Close, UInv, TypeOK
  <2>. QED
    BY <2>1, <2>2, <1>1, DownKeeps DEF StartupFailed, Crash, Close
<1>2. ASSUME NEW d \in Descriptors, Visit(d)
      PROVE  UInv'
  BY <1>2, TooEarlyKeeps, StopKeeps, ProceedKeeps, PerformKeeps, CompleteKeeps DEF Visit
<1>3. CASE UNCHANGED vars
  <2>1. TypeOK' /\ Entries' /\ Written'
    BY <1>3, Zenon DEF vars, UInv, TypeOK, Entries, Written
  <2>2. Control' /\ Fits' /\ Dealt' /\ RanNow'
    BY <1>3, Zenon DEF vars, UInv, Control, Fits, Dealt, RanNow, Covered, current
  <2>3. Kept' /\ NoPanic' /\ AppliedOnce' /\ StartupFirst'
    BY <1>3 DEF vars, UInv, Kept, NoPanic, AppliedOnce, StartupFirst, current
  <2>. QED
    BY <2>1, <2>2, <2>3, Zenon DEF UInv
<1>. QED
  BY <1>1, <1>2, <1>3, StartKeeps, StartupKeeps, SubmitKeeps, CancelKeeps, CallKeeps, ReturnKeeps, CommitKeeps DEF Next

(* An acknowledged upgrade is applied or its epoch has not come.               *)
LEMMA UpgradeSkips == UInv => NeverSkipped
<1>. SUFFICES ASSUME UInv, NEW d \in submitted, Reached(d)
              PROVE  \E p \in Phases, h \in 1..height : <<d, p, h>> \in applied
  BY DEF NeverSkipped
<1>1. CASE d \in Pending(store) /\ store[d].upgradeHeight \in {InvalidUpgradeHeight, current}
  <2>1. height \in 0..MaxHeight /\ d \in Descriptors
    BY <1>1, Zenon DEF UInv, TypeOK, Pending
  <2>2. current - 1 = height /\ current # InvalidUpgradeHeight
    BY <2>1, EpochsGrow DEF current, InvalidUpgradeHeight
  <2>3. Entry(d, store[d], height, migrated)
    BY <1>1, Zenon DEF UInv, Entries
  <2>4. EpochAt[height] < Epoch[d]
    BY <2>2, <2>3, <1>1, ZenonT(40) DEF Entry, FirstBlock
  <2>5. EpochAt[height] \in Nat /\ Epoch[d] \in Nat
    BY <2>1, EpochsGrow
  <2>6. EpochAt[height] >= Epoch[d]
    BY Zenon DEF Reached
  <2>. QED
    BY <2>4, <2>5, <2>6
<1>. QED
  BY <1>1 DEF UInv, Kept

(* THEOREM.  For any descriptors, binaries and epochs, and however many        *)
(* crashes, failed writes, restarts and replays there are, the effects of an   *)
(* upgrade are in the first block of its epoch and in no other, and its        *)
(* handler took part in both BeginBlock and EndBlock (ConsensusUpgrade).       *)
THEOREM UpgradesApplyOnce == Spec => []AppliedOnce
<1>1. UInv => AppliedOnce
  BY DEF UInv
<1>. QED
  BY <1>1, UpgradeInit, UpgradeStep, PTL DEF Spec

(* THEOREM.  The chain does not pass the epoch of an acknowledged upgrade      *)
(* without it, the panics of PushStage and ConsensusUpgrade are not reached,   *)
(* and a handler only runs in a binary meant for it after its startup stage.   *)
THEOREM UpgradesNotSkipped == Spec => [](NeverSkipped /\ NoPanic /\ StartupFirst)
<1>1. UInv => NeverSkipped /\ NoPanic /\ StartupFirst
  BY UpgradeSkips, Zenon DEF UInv
<1>. QED
  BY <1>1, UpgradeInit, UpgradeStep, PTL DEF Spec

-----------------------------------------------------------------------------
(* The registry's runtimes (go/registry/api/{api,runtime}.go).                 *)
CONSTANTS Computes, KeyManagers, RuntimeDescriptors, MaxEpoch, Limits, NodeIds, Candidates, EntityNodes,
          RuntimeOf, Whitelist, PerRole, MaxExpiration, GenesisSize
VARIABLES now, limit, runtimes, past, epoch, nodes

INSTANCE RegistryRuntimes WITH Descriptors <- RuntimeDescriptors
INSTANCE RegistryNodes WITH Ids <- NodeIds, Runtimes <- RuntimeOf

(* What a decoded descriptor looks like: an identifier, a kind and deployments *)
(* whose versions and epochs are natural numbers.                              *)
DescriptorsTyped ==
    \A rt \in RuntimeDescriptors :
        /\ rt.id \in Ids
        /\ rt.kind \in {"compute", "keymanager"}
        /\ \A d \in rt.deployments : d.version \in Nat /\ d.from \in Nat /\ d # NoDeployment

-----------------------------------------------------------------------------
DueAt(rt, e) == {d \in rt.deployments : d.from <= e}

(* ActiveDeployment, whose loop keeps the deployment with the greatest         *)
(* ValidFrom that is not in the future, returns one that is due.               *)
LEMMA ActiveIsLatest ==
  ASSUME SetFacts, DescriptorsTyped, NEW rt \in RuntimeDescriptors, NEW e \in Nat, DueAt(rt, e) # {}
  PROVE  /\ ActiveDeployment(rt, e) \in DueAt(rt, e)
         /\ \A x \in DueAt(rt, e) : x.from <= ActiveDeployment(rt, e).from
<1> DEFINE T == {e - d.from : d \in DueAt(rt, e)}
<1>1. \A d \in DueAt(rt, e) : d.from \in Nat /\ d.from <= e
  BY DEF DescriptorsTyped, DueAt
<1>2. T \subseteq Nat /\ T # {}
  BY <1>1
<1>3. PICK m \in T : \A y \in T : m <= y
  BY <1>2, LeastNatural, ZenonT(40)
<1>4. PICK d \in DueAt(rt, e) : m = e - d.from
  BY <1>3
<1>5. ASSUME NEW x \in DueAt(rt, e) PROVE x.from <= d.from
  <2>1. e - x.from \in T
    OBVIOUS
  <2>2. m <= e - x.from
    BY <1>3, <2>1
  <2>. QED
    BY <1>1, <1>4, <2>2
<1>6. ActiveDeployment(rt, e) = CHOOSE z \in DueAt(rt, e) : \A x \in DueAt(rt, e) : x.from <= z.from
  BY ZenonT(40) DEF ActiveDeployment, DueAt
<1>. QED
  BY <1>5, <1>6

(* There is an active deployment exactly when one is due.                      *)
LEMMA ActiveIsDue ==
  ASSUME SetFacts, DescriptorsTyped, NEW rt \in RuntimeDescriptors, NEW e \in Nat
  PROVE  ActiveDeployment(rt, e) # NoDeployment <=> DueAt(rt, e) # {}
<1>1. CASE DueAt(rt, e) = {}
  BY <1>1 DEF ActiveDeployment, DueAt
<1>2. CASE DueAt(rt, e) # {}
  BY <1>2, ActiveIsLatest, Zenon DEF DueAt, DescriptorsTyped
<1>. QED
  BY <1>1, <1>2

(* An active deployment has a version, and only a later version replaces it.   *)
LEMMA ActiveGrows ==
  ASSUME SetFacts, DescriptorsTyped, NEW rt \in RuntimeDescriptors, Increasing(rt.deployments), NEW e \in Nat,
         ActiveDeployment(rt, e) # NoDeployment
  PROVE  /\ ActiveDeployment(rt, e).version \in Nat
         /\ ActiveDeployment(rt, e + 1) # NoDeployment
         /\ ActiveDeployment(rt, e + 1).version \in Nat
         /\ ActiveDeployment(rt, e).version <= ActiveDeployment(rt, e + 1).version
<1> DEFINE a == ActiveDeployment(rt, e)
           b == ActiveDeployment(rt, e + 1)
<1>1. DueAt(rt, e) # {} /\ a \in DueAt(rt, e)
  BY ActiveIsDue, ActiveIsLatest, Zenon
<1>2. a \in rt.deployments /\ a.from \in Nat /\ a.version \in Nat /\ a.from <= e
  BY <1>1 DEF DueAt, DescriptorsTyped
<1>3. a \in DueAt(rt, e + 1)
  BY <1>2 DEF DueAt
<1>4. b \in DueAt(rt, e + 1) /\ a.from <= b.from
  BY <1>3, ActiveIsLatest
<1>5. b \in rt.deployments /\ b.from \in Nat /\ b.version \in Nat /\ b # NoDeployment
  BY <1>4 DEF DueAt, DescriptorsTyped
<1> HIDE DEF a, b
<1>6. a.version <= b.version
  BY <1>2, <1>4, <1>5 DEF Increasing
<1>. QED
  BY <1>2, <1>5, <1>6 DEF a, b

-----------------------------------------------------------------------------
(* What the active deployment of a runtime in epoch n is to the record S of    *)
(* the ones before it: nothing active is later or newer.                       *)
Follows(rt, S, n) ==
    /\ rt \in RuntimeDescriptors /\ Increasing(rt.deployments)
    /\ S # {} => ActiveDeployment(rt, n) # NoDeployment
    /\ \A p \in S : /\ p[1] \in Nat /\ p[1] <= n
                    /\ p[2].version \in Nat /\ p[2].version <= ActiveDeployment(rt, n).version
                    /\ p[1] = n => p[2] = ActiveDeployment(rt, n)

Ordered(S) ==
    \A p, q \in S : /\ p[1] = q[1] => p[2] = q[2]
                    /\ p[1] < q[1] => p[2].version <= q[2].version

Tracked(rt, S, n) == Ordered(S) /\ IF rt = NoRuntime THEN S = {} ELSE Follows(rt, S, n)

RInv ==
    /\ now \in Nat
    /\ DOMAIN runtimes = Ids /\ DOMAIN past = Ids
    /\ \A i \in Ids : Tracked(runtimes[i], past[i], now)

(* Recording what is active in an epoch keeps the history in order.            *)
LEMMA RecordActive ==
  ASSUME SetFacts, DescriptorsTyped, NEW n \in Nat, NEW rt, NEW S, Follows(rt, S, n), Ordered(S),
         NEW a, a = ActiveDeployment(rt, n), a # NoDeployment
  PROVE  Follows(rt, S \cup {<<n, a>>}, n) /\ Ordered(S \cup {<<n, a>>})
<1>1. a.version \in Nat
  BY ActiveGrows, Zenon DEF Follows
<1>2. Follows(rt, S \cup {<<n, a>>}, n)
  BY <1>1 DEF Follows
<1>3. ASSUME NEW p \in S \cup {<<n, a>>}, NEW q \in S \cup {<<n, a>>}
      PROVE  (p[1] = q[1] => p[2] = q[2]) /\ (p[1] < q[1] => p[2].version <= q[2].version)
  <2>1. CASE p \in S /\ q \in S
    BY <2>1, Zenon DEF Ordered
  <2>2. CASE p = <<n, a>>
    BY <1>2, <1>3, <2>2 DEF Follows
  <2>3. CASE q = <<n, a>>
    BY <1>2, <1>3, <2>3 DEF Follows
  <2>. QED
    BY <1>3, <2>1, <2>2, <2>3, Zenon
<1>. QED
  BY <1>2, <1>3, Zenon DEF Ordered

(* What the consensus application records for one runtime.                     *)
DueOf(rt, e) ==
    IF rt = NoRuntime \/ ActiveDeployment(rt, e) = NoDeployment THEN {} ELSE {<<e, ActiveDeployment(rt, e)>>}

(* The same when nothing may be due.                                           *)
LEMMA RecordDue ==
  ASSUME SetFacts, DescriptorsTyped, NEW n \in Nat, NEW rt, NEW S, Tracked(rt, S, n)
  PROVE  Tracked(rt, S \cup DueOf(rt, n), n)
<1>1. CASE DueOf(rt, n) = {}
  <2>1. S \cup DueOf(rt, n) = S
    BY <1>1
  <2>. QED
    BY <2>1
<1>2. CASE DueOf(rt, n) # {}
  <2> DEFINE a == ActiveDeployment(rt, n)
  <2>1. rt # NoRuntime /\ a # NoDeployment /\ DueOf(rt, n) = {<<n, a>>}
    BY <1>2 DEF DueOf
  <2>2. Follows(rt, S, n) /\ Ordered(S)
    BY <2>1 DEF Tracked
  <2>3. Follows(rt, S \cup {<<n, a>>}, n) /\ Ordered(S \cup {<<n, a>>})
    BY <2>1, <2>2, RecordActive
  <2>. QED
    BY <2>1, <2>3 DEF Tracked
<1>. QED
  BY <1>1, <1>2

(* An epoch passes: what was active before is not newer than what is now.      *)
LEMMA NextEpoch ==
  ASSUME SetFacts, DescriptorsTyped, NEW n \in Nat, NEW rt, NEW S, Tracked(rt, S, n)
  PROVE  Tracked(rt, S, n + 1)
<1>1. CASE rt = NoRuntime \/ S = {}
  BY <1>1 DEF Tracked, Follows
<1>2. CASE rt # NoRuntime /\ S # {}
  <2>1. Follows(rt, S, n)
    BY <1>2, Zenon DEF Tracked
  <2>2. rt \in RuntimeDescriptors /\ Increasing(rt.deployments) /\ ActiveDeployment(rt, n) # NoDeployment
    BY <1>2, <2>1 DEF Follows
  <2>3. /\ ActiveDeployment(rt, n).version \in Nat
        /\ ActiveDeployment(rt, n + 1) # NoDeployment
        /\ ActiveDeployment(rt, n + 1).version \in Nat
        /\ ActiveDeployment(rt, n).version <= ActiveDeployment(rt, n + 1).version
    BY <2>2, ActiveGrows, Zenon
  <2>4. ASSUME NEW p \in S
        PROVE  /\ p[1] \in Nat /\ p[1] <= n + 1 /\ p[1] # n + 1
               /\ p[2].version \in Nat /\ p[2].version <= ActiveDeployment(rt, n + 1).version
    BY <2>1, <2>3 DEF Follows
  <2>5. Follows(rt, S, n + 1)
    BY <2>2, <2>3, <2>4, Zenon DEF Follows
  <2>. QED
    BY <1>2, <2>5 DEF Tracked
<1>. QED
  BY <1>1, <1>2, Zenon

-----------------------------------------------------------------------------
(* Nothing is registered and nothing has been active.                          *)
LEMMA RInit == InitRuntimes => RInv
<1> SUFFICES ASSUME InitRuntimes PROVE RInv
  OBVIOUS
<1>1. now \in Nat /\ DOMAIN runtimes = Ids /\ DOMAIN past = Ids
  BY DEF InitRuntimes
<1>2. ASSUME NEW i \in Ids PROVE Tracked(runtimes[i], past[i], now)
  <2>1. runtimes[i] = NoRuntime /\ past[i] = {}
    BY Zenon DEF InitRuntimes
  <2> QED BY <2>1, Zenon DEF Tracked, Ordered
<1> QED BY <1>1, <1>2, Zenon DEF RInv

(* A new epoch records what is active in it.                                   *)
LEMMA REpoch == ASSUME SetFacts, DescriptorsTyped, RInv, RuntimesEpoch PROVE RInv'
<1>1. now \in Nat /\ now' = now + 1 /\ runtimes' = runtimes
  BY DEF RInv, RuntimesEpoch
<1>2. \A i \in Ids : Due(runtimes, now')[i] = DueOf(runtimes[i], now + 1)
  BY <1>1, Zenon DEF Due, DueOf
<1>3. DOMAIN past' = Ids /\ \A i \in Ids : past'[i] = past[i] \cup DueOf(runtimes[i], now + 1)
  BY <1>1, <1>2 DEF RuntimesEpoch
<1>4. ASSUME NEW i \in Ids PROVE Tracked(runtimes'[i], past'[i], now')
  <2>1. Tracked(runtimes[i], past[i], now + 1)
    BY <1>1, NextEpoch DEF RInv
  <2>2. now + 1 \in Nat
    BY <1>1
  <2>3. Tracked(runtimes[i], past[i] \cup DueOf(runtimes[i], now + 1), now + 1)
    BY <2>1, <2>2, RecordDue, Zenon
  <2>. QED
    BY <1>1, <1>3, <2>3, ZenonT(40)
<1>. QED
  BY <1>1, <1>3, <1>4 DEF RInv

(* A descriptor is registered for the first time, with nothing due, or updated *)
(* without a change to what is active.                                         *)
LEMMA RRegister ==
  ASSUME SetFacts, DescriptorsTyped, RInv, NEW rt \in RuntimeDescriptors, RegisterRuntime(rt)
  PROVE  RInv'
<1>1. now \in Nat /\ now' = now /\ rt.id \in Ids /\ rt # NoRuntime /\ Increasing(rt.deployments)
  <2>1. rt # NoRuntime
    BY Zenon DEF DescriptorsTyped, NoRuntime, Absent
  <2>. QED
    BY <2>1, Zenon DEF RInv, RegisterRuntime, VerifyRuntime, ValidateDeployments, DescriptorsTyped
<1>2. /\ DOMAIN runtimes' = Ids /\ runtimes'[rt.id] = rt
      /\ \A i \in Ids \ {rt.id} : runtimes'[i] = runtimes[i]
  BY <1>1, Zenon DEF RInv, RegisterRuntime
<1>3. Due(runtimes', now)[rt.id] = DueOf(rt, now)
  BY <1>1, <1>2, Zenon DEF Due, DueOf
<1>4. /\ DOMAIN past' = Ids /\ past'[rt.id] = past[rt.id] \cup DueOf(rt, now)
      /\ \A i \in Ids \ {rt.id} : past'[i] = past[i]
  BY <1>1, <1>3, ZenonT(40) DEF RInv, RegisterRuntime
<1>5. Tracked(rt, past[rt.id], now)
  <2>1. Tracked(runtimes[rt.id], past[rt.id], now)
    BY <1>1, Zenon DEF RInv
  <2>2. CASE runtimes[rt.id] = NoRuntime
    BY <1>1, <2>1, <2>2, Zenon DEF Tracked, Follows
  <2>3. CASE runtimes[rt.id] # NoRuntime
    <3>1. ActiveDeployment(rt, now) = ActiveDeployment(runtimes[rt.id], now)
      BY <2>3, Zenon DEF RegisterRuntime, VerifyRuntimeUpdate, DeploymentsUpdate
    <3>. QED
      BY <1>1, <2>1, <2>3, <3>1, Zenon DEF Tracked, Follows
  <2>. QED
    BY <2>2, <2>3, Zenon
<1>6. Tracked(rt, past[rt.id] \cup DueOf(rt, now), now)
  BY <1>1, <1>5, RecordDue, Zenon
<1>7. ASSUME NEW i \in Ids PROVE Tracked(runtimes'[i], past'[i], now')
  BY <1>1, <1>2, <1>4, <1>6 DEF RInv
<1>. QED
  BY <1>1, <1>2, <1>4, <1>7, Zenon DEF RInv

LEMMA HistoryIsKeptIf == ASSUME SetFacts, DescriptorsTyped PROVE RuntimesSpec => []HistoryStands
<1>1. InitRuntimes => RInv
  BY RInit
<1>2. RInv /\ [NextRuntimes]_rvars => RInv'
  <2> SUFFICES ASSUME RInv, [NextRuntimes]_rvars PROVE RInv'
    OBVIOUS
  <2>1. CASE RuntimesEpoch
    BY <2>1, REpoch
  <2>2. ASSUME NEW rt \in RuntimeDescriptors, RegisterRuntime(rt) PROVE RInv'
    BY <2>2, RRegister, Zenon
  <2>3. CASE UNCHANGED rvars
    BY <2>3, Zenon DEF rvars, RInv
  <2>. QED
    BY <2>1, <2>2, <2>3 DEF NextRuntimes
<1>3. RInv => HistoryStands
  BY DEF RInv, Tracked, Ordered, HistoryStands
<1>. QED
  BY <1>1, <1>2, <1>3, PTL DEF RuntimesSpec

-----------------------------------------------------------------------------
(* The nodes (go/registry/api/{api,admission}.go).                             *)

(* What a decoded node descriptor looks like; the limits are numbers.          *)
NodesTyped ==
    /\ IsFiniteSet(NodeIds)
    /\ \A n \in Candidates : n.id \in NodeIds /\ n # NoNode /\ n.expiration \in Nat
    /\ \A r \in DOMAIN Whitelist : \A e \in DOMAIN Whitelist[r] :
         \A role \in DOMAIN Whitelist[r][e] : Whitelist[r][e][role] \in Nat
    /\ \A r \in DOMAIN PerRole : \A role \in DOMAIN PerRole[r] :
         \A e \in DOMAIN PerRole[r][role] : PerRole[r][role][e] \in Nat

(* The nodes of S that are live at epoch t, of one entity, runtime and role.   *)
IsLive(m, r, e, role, t) ==
    m.entity = e /\ ~(m.expiration < t) /\ HasRuntime(m, r) /\ role \in m.roles
Live(S, r, e, role, t) == {m \in S : IsLive(m, r, e, role, t)}

(* The policies are respected by the nodes of S.                               *)
Policies(S, t) ==
    /\ \A r \in DOMAIN Whitelist : \A e \in DOMAIN Whitelist[r] :
         \A role \in DOMAIN Whitelist[r][e] :
           Cardinality(Live(S, r, e, role, t)) <= Whitelist[r][e][role]
    /\ \A r \in DOMAIN PerRole : \A role \in DOMAIN PerRole[r] :
         \A e \in DOMAIN PerRole[r][role] :
           PerRole[r][role][e] > 0 => Cardinality(Live(S, r, e, role, t)) <= PerRole[r][role][e]

(* Nodes are registered under their identifiers.                               *)
NodesOK ==
    /\ epoch \in Nat /\ nodes \in [NodeIds -> Candidates \union {NoNode}]
    /\ \A i \in NodeIds : nodes[i] # NoNode => nodes[i].id = i

NInv == NodesOK /\ Policies(Registered, epoch)

LEMMA Respected == AdmissionRespected <=> Policies(Registered, epoch)
<1>1. ASSUME NEW r, NEW e, NEW role
      PROVE  Live(Registered, r, e, role, epoch)
               = {m \in Registered : /\ m.entity = e /\ ~IsExpired(m)
                                       /\ HasRuntime(m, r) /\ role \in m.roles}
  BY DEF Live, IsLive, IsExpired
<1>2. ASSUME NEW r, NEW e, NEW role
      PROVE  Cardinality({m \in Registered : /\ m.entity = e /\ ~IsExpired(m)
                                                 /\ HasRuntime(m, r) /\ role \in m.roles})
               = Cardinality(Live(Registered, r, e, role, epoch))
  BY <1>1, ZenonT(40)
<1> QED BY <1>2, ZenonT(40) DEF AdmissionRespected, Policies

LEMMA RegisteredFacts ==
  ASSUME SetFacts, NodesTyped, NodesOK
  PROVE  /\ IsFiniteSet(Registered) /\ Registered \subseteq Candidates
         /\ \A m \in Registered : m.id \in NodeIds /\ nodes[m.id] = m
<1> DEFINE T == {nodes[i] : i \in NodeIds}
<1>1. Onto(nodes, NodeIds, T)
  <2>1. nodes = [i \in NodeIds |-> nodes[i]]
    BY DEF NodesOK
  <2> QED BY <2>1 DEF Onto
<1>2. Registered = T \ {NoNode}
  BY Zenon DEF Registered
<1> HIDE DEF T
<1>3. IsFiniteSet(T)
  BY <1>1, ImageIsFinite, Zenon DEF NodesTyped
<1>4. Registered \in SUBSET T
  BY <1>2
<1>5. IsFiniteSet(Registered)
  BY <1>3, <1>4, SubsetIsFinite
<1>6. \A m \in Registered : m \in Candidates /\ m.id \in NodeIds /\ nodes[m.id] = m
  BY <1>2 DEF NodesOK, T
<1> QED BY <1>5, <1>6

(* The live nodes are no more than the limit allows, by what a registration    *)
(* finds: either none is new, or the policy counted the others before it.      *)
AllowedIn(S, t, S2, t2, r, e, role, max) ==
    \/ Live(S2, r, e, role, t2) \subseteq Live(S, r, e, role, t)
    \/ \E n : LET o == Live(S2, r, e, role, t2) \ {n}
              IN  (o = {} /\ max > 0) \/ Cardinality(o) + 1 <= max

LEMMA LimitKept ==
  ASSUME SetFacts, NEW S, IsFiniteSet(S), NEW S2, IsFiniteSet(S2), NEW t, NEW t2, NEW r, NEW e, NEW role,
         NEW max \in Nat, Cardinality(Live(S, r, e, role, t)) <= max,
         AllowedIn(S, t, S2, t2, r, e, role, max)
  PROVE  Cardinality(Live(S2, r, e, role, t2)) <= max
<1> DEFINE L == Live(S, r, e, role, t)
           M == Live(S2, r, e, role, t2)
<1>1. L \in SUBSET S /\ M \in SUBSET S2
  BY DEF Live
<1>2. M \subseteq L \/ \E n : (M \ {n} = {} /\ max > 0) \/ Cardinality(M \ {n}) + 1 <= max
  BY ZenonT(40) DEF AllowedIn
<1>a. Cardinality(L) <= max
  OBVIOUS
<1> HIDE DEF L, M
<1>3. IsFiniteSet(L) /\ IsFiniteSet(M) /\ Cardinality(L) \in Nat /\ Cardinality(M) \in Nat
  BY <1>1, SubsetIsFinite, CardinalityIsNat, Zenon
<1>4. CASE M \subseteq L
  <2>1. M \in SUBSET L
    BY <1>4
  <2>2. Cardinality(M) <= Cardinality(L)
    BY <1>3, <2>1, SubsetIsFinite, Zenon
  <2> QED BY <1>3, <1>a, <2>2 DEF M
<1>5. ASSUME NEW n, (M \ {n} = {} /\ max > 0) \/ Cardinality(M \ {n}) + 1 <= max
      PROVE  Cardinality(M) <= max
  <2> DEFINE o == M \ {n}
  <2>1. IsFiniteSet(o) /\ Cardinality(o) = IF n \in M THEN Cardinality(M) - 1 ELSE Cardinality(M)
    BY <1>3, RemovingOne, Zenon
  <2>2. Cardinality(o) \in Nat /\ (o = {} => Cardinality(o) = 0)
    BY <2>1, CardinalityIsNat, EmptySetIsFinite
  <2>3. (o = {} /\ max > 0) \/ Cardinality(o) + 1 <= max
    BY <1>5, Zenon
  <2> HIDE DEF o
  <2> QED BY <1>3, <2>1, <2>2, <2>3
<1> QED BY <1>2, <1>4, <1>5, ZenonT(40) DEF M

LEMMA PoliciesKept ==
  ASSUME SetFacts, NodesTyped, NEW S, IsFiniteSet(S), NEW S2, IsFiniteSet(S2), NEW t, NEW t2,
         Policies(S, t),
         \A r \in DOMAIN Whitelist : \A e \in DOMAIN Whitelist[r] :
           \A role \in DOMAIN Whitelist[r][e] :
             AllowedIn(S, t, S2, t2, r, e, role, Whitelist[r][e][role]),
         \A r \in DOMAIN PerRole : \A role \in DOMAIN PerRole[r] :
           \A e \in DOMAIN PerRole[r][role] :
             PerRole[r][role][e] > 0 => AllowedIn(S, t, S2, t2, r, e, role, PerRole[r][role][e])
  PROVE  Policies(S2, t2)
<1>1. ASSUME NEW r \in DOMAIN Whitelist, NEW e \in DOMAIN Whitelist[r],
             NEW role \in DOMAIN Whitelist[r][e]
      PROVE  Cardinality(Live(S2, r, e, role, t2)) <= Whitelist[r][e][role]
  <2>1. /\ Cardinality(Live(S, r, e, role, t)) <= Whitelist[r][e][role]
        /\ Whitelist[r][e][role] \in Nat
    BY Zenon DEF Policies, NodesTyped
  <2>2. AllowedIn(S, t, S2, t2, r, e, role, Whitelist[r][e][role])
    BY Zenon
  <2> QED BY <2>1, <2>2, LimitKept, Zenon
<1>2. ASSUME NEW r \in DOMAIN PerRole, NEW role \in DOMAIN PerRole[r],
             NEW e \in DOMAIN PerRole[r][role], PerRole[r][role][e] > 0
      PROVE  Cardinality(Live(S2, r, e, role, t2)) <= PerRole[r][role][e]
  <2>1. /\ Cardinality(Live(S, r, e, role, t)) <= PerRole[r][role][e]
        /\ PerRole[r][role][e] \in Nat
    BY <1>2, Zenon DEF Policies, NodesTyped
  <2>2. AllowedIn(S, t, S2, t2, r, e, role, PerRole[r][role][e])
    BY <1>2, Zenon
  <2> QED BY <2>1, <2>2, LimitKept, Zenon
<1> QED BY <1>1, <1>2, Zenon DEF Policies

LEMMA FewerLive ==
  ASSUME SetFacts, NodesTyped, NEW S, IsFiniteSet(S), NEW S2 \in SUBSET S, NEW t, NEW t2, Policies(S, t),
         \A m \in S2 : m.expiration < t => m.expiration < t2
  PROVE  Policies(S2, t2)
<1>1. IsFiniteSet(S2)
  BY SubsetIsFinite
<1>2. ASSUME NEW r, NEW e, NEW role, NEW max PROVE AllowedIn(S, t, S2, t2, r, e, role, max)
  <2>1. Live(S2, r, e, role, t2) \subseteq Live(S, r, e, role, t)
    BY DEF Live, IsLive
  <2> QED BY <2>1, Zenon DEF AllowedIn
<1> QED BY <1>1, <1>2, PoliciesKept, Zenon

LEMMA NodesInit ==
  ASSUME NodesTyped, InitNodes
  PROVE  NodesOK
<1>1. PICK doc \in Documents :
        nodes = [i \in NodeIds |-> IF \E j \in DOMAIN doc : doc[j].id = i
                                   THEN doc[CHOOSE j \in DOMAIN doc : doc[j].id = i]
                                   ELSE NoNode]
  BY DEF InitNodes
<1>2. \A j \in DOMAIN doc : doc[j] \in Candidates
  BY Zenon DEF Documents
<1>3. ASSUME NEW i \in NodeIds
      PROVE  nodes[i] = NoNode \/ (nodes[i] \in Candidates /\ nodes[i].id = i)
  <2>1. CASE \E j \in DOMAIN doc : doc[j].id = i
    <3> DEFINE k == CHOOSE j \in DOMAIN doc : doc[j].id = i
    <3>1. k \in DOMAIN doc /\ doc[k].id = i
      BY <2>1
    <3>2. nodes[i] = doc[k]
      BY <1>1, <2>1
    <3> QED BY <1>2, <3>1, <3>2
  <2>2. CASE ~\E j \in DOMAIN doc : doc[j].id = i
    BY <1>1, <2>2
  <2> QED BY <2>1, <2>2, Zenon
<1>4. nodes = [i \in NodeIds |-> nodes[i]]
  BY <1>1
<1>5. nodes \in [NodeIds -> Candidates \union {NoNode}]
  BY <1>3, <1>4
<1>6. epoch \in Nat
  BY DEF InitNodes
<1> QED BY <1>3, <1>5, <1>6 DEF NodesOK

LEMMA EpochKeeps ==
  ASSUME SetFacts, NodesTyped, NInv, NodesEpoch
  PROVE  NInv'
<1>1. epoch' = epoch + 1 /\ nodes' = nodes /\ Registered' = Registered
  BY DEF NodesEpoch, Registered
<1>2. epoch \in Nat /\ IsFiniteSet(Registered) /\ Registered \subseteq Candidates
  BY RegisteredFacts DEF NInv, NodesOK
<1>3. NodesOK'
  BY <1>1, <1>2 DEF NInv, NodesOK
<1>4. \A m \in Registered : m.expiration < epoch => m.expiration < epoch + 1
  BY <1>2 DEF NodesTyped
<1>5. Policies(Registered, epoch + 1)
  BY <1>2, <1>4, FewerLive DEF NInv
<1> QED BY <1>1, <1>3, <1>5, Zenon DEF NInv

LEMMA RemoveKeeps ==
  ASSUME SetFacts, NodesTyped, NInv, NEW i \in NodeIds, RemoveNode(i)
  PROVE  NInv'
<1>1. epoch' = epoch /\ nodes' = [nodes EXCEPT ![i] = NoNode]
  BY Zenon DEF RemoveNode
<1>2. NodesOK /\ IsFiniteSet(Registered) /\ Policies(Registered, epoch)
  BY RegisteredFacts DEF NInv
<1>3. NodesOK'
  BY <1>1, <1>2, Zenon DEF NodesOK
<1>4. Registered' \in SUBSET Registered
  BY <1>1, <1>2 DEF Registered, NodesOK
<1>5. Policies(Registered', epoch)
  BY <1>2, <1>4, FewerLive
<1> QED BY <1>1, <1>3, <1>5 DEF NInv

(* A registration: the live nodes of the entity with the role, other than the  *)
(* new one, are those that verifyNodeCountWithRoleForRuntime counted.          *)
LEMMA RegisterKeeps ==
  ASSUME SetFacts, NodesTyped, NInv, NEW n \in Candidates, RegisterNode(n)
  PROVE  NInv'
<1> DEFINE S == Registered
           T == Registered'
<1>1. epoch' = epoch /\ nodes' = [nodes EXCEPT ![n.id] = n] /\ n.id \in NodeIds /\ n # NoNode
  BY Zenon DEF RegisterNode, NodesTyped
<1>2. /\ NodesOK /\ IsFiniteSet(S) /\ Policies(S, epoch)
      /\ \A m \in S : m.id \in NodeIds /\ nodes[m.id] = m
  BY RegisteredFacts, Zenon DEF NInv
<1>3. NodesOK'
  BY <1>1, <1>2, Zenon DEF NodesOK
<1>4. T \subseteq (S \union {n}) /\ \A m \in T : m = n \/ m.id # n.id
  BY <1>1, <1>2 DEF Registered, NodesOK
<1>5. T \in SUBSET (S \union {n}) /\ IsFiniteSet(S \union {n})
  BY <1>2, <1>4, AddingOne
<1>6. IsFiniteSet(T)
  BY <1>5, SubsetIsFinite
<1>7. VerifyAdmission(n)
  BY Zenon DEF RegisterNode
<1>8. ASSUME NEW r, NEW e, NEW role
      PROVE  \/ Live(T, r, e, role, epoch) \subseteq Live(S, r, e, role, epoch)
             \/ /\ n.entity = e /\ role \in n.roles /\ \E x \in n.runtimes : x.id = r
                /\ Live(T, r, e, role, epoch) \ {n} \subseteq OthersWithRole(n, r, role)
  <2>1. CASE IsLive(n, r, e, role, epoch)
    <3>1. n.entity = e /\ role \in n.roles /\ \E x \in n.runtimes : x.id = r
      BY <2>1, Zenon DEF IsLive, HasRuntime
    <3>2. Live(T, r, e, role, epoch) \ {n} \subseteq OthersWithRole(n, r, role)
      BY <1>4, <3>1, Zenon DEF Live, IsLive, OthersWithRole, IsExpired
    <3> QED BY <3>1, <3>2, Zenon
  <2>2. CASE ~IsLive(n, r, e, role, epoch)
    BY <1>4, <2>2, Zenon DEF Live
  <2> QED BY <2>1, <2>2, Zenon
<1>9. ASSUME NEW r, NEW role, NEW e, NEW max \in Nat, max > 0, VerifyNodeCount(n, r, role, max),
             Live(T, r, e, role, epoch) \ {n} \subseteq OthersWithRole(n, r, role)
      PROVE  AllowedIn(S, epoch, T, epoch, r, e, role, max)
  <2> DEFINE O == OthersWithRole(n, r, role)
             o == Live(T, r, e, role, epoch) \ {n}
  <2>1. O \in SUBSET S /\ o \in SUBSET O
    BY <1>9, Zenon DEF OthersWithRole
  <2>2. O # {} => Cardinality(O) + 1 <= max
    BY <1>9, ZenonT(40) DEF VerifyNodeCount
  <2> HIDE DEF O
  <2>3. (o = {} /\ max > 0) \/ Cardinality(o) + 1 <= max
    <3> HIDE DEF o
    <3>1. IsFiniteSet(O) /\ IsFiniteSet(o) /\ Cardinality(O) \in Nat /\ Cardinality(o) \in Nat
      BY <1>2, <2>1, SubsetIsFinite, CardinalityIsNat
    <3>2. Cardinality(o) <= Cardinality(O)
      BY <2>1, <3>1, SubsetIsFinite
    <3>3. O = {} => o = {}
      BY <2>1, Zenon
    <3> QED BY <1>9, <2>2, <3>1, <3>2, <3>3
  <2> QED BY <2>3, ZenonT(40) DEF AllowedIn
<1> HIDE DEF S, T
<1>10. ASSUME NEW r \in DOMAIN Whitelist, NEW e \in DOMAIN Whitelist[r],
              NEW role \in DOMAIN Whitelist[r][e]
       PROVE  AllowedIn(S, epoch, T, epoch, r, e, role, Whitelist[r][e][role])
  <2>1. CASE Live(T, r, e, role, epoch) \subseteq Live(S, r, e, role, epoch)
    BY <2>1, Zenon DEF AllowedIn
  <2>2. CASE /\ n.entity = e /\ role \in n.roles /\ \E x \in n.runtimes : x.id = r
             /\ Live(T, r, e, role, epoch) \ {n} \subseteq OthersWithRole(n, r, role)
    <3>1. VerifyWhitelist(n, r)
      BY <1>7, <2>2, Zenon DEF VerifyAdmission
    <3>2. Whitelist[r][e][role] > 0 /\ VerifyNodeCount(n, r, role, Whitelist[r][e][role])
      BY <1>10, <2>2, <3>1, Zenon DEF VerifyWhitelist
    <3>3. Whitelist[r][e][role] \in Nat
      BY <1>10, Zenon DEF NodesTyped
    <3> QED BY <1>9, <2>2, <3>2, <3>3, Zenon
  <2> QED BY <1>8, <2>1, <2>2, Zenon
<1>11. ASSUME NEW r \in DOMAIN PerRole, NEW role \in DOMAIN PerRole[r],
              NEW e \in DOMAIN PerRole[r][role], PerRole[r][role][e] > 0
       PROVE  AllowedIn(S, epoch, T, epoch, r, e, role, PerRole[r][role][e])
  <2>1. CASE Live(T, r, e, role, epoch) \subseteq Live(S, r, e, role, epoch)
    BY <2>1, Zenon DEF AllowedIn
  <2>2. CASE /\ n.entity = e /\ role \in n.roles /\ \E x \in n.runtimes : x.id = r
             /\ Live(T, r, e, role, epoch) \ {n} \subseteq OthersWithRole(n, r, role)
    <3>1. VerifyPerRole(n, r)
      BY <1>7, <2>2, Zenon DEF VerifyAdmission
    <3>2. VerifyNodeCount(n, r, role, PerRole[r][role][e])
      BY <1>11, <2>2, <3>1, Zenon DEF VerifyPerRole
    <3>3. PerRole[r][role][e] \in Nat
      BY <1>11, Zenon DEF NodesTyped
    <3> QED BY <1>9, <1>11, <2>2, <3>2, <3>3, Zenon
  <2> QED BY <1>8, <2>1, <2>2, ZenonT(40)
<1>12. Policies(T, epoch)
  BY <1>2, <1>6, <1>10, <1>11, PoliciesKept, Zenon
<1> QED BY <1>1, <1>3, <1>12, Zenon DEF NInv, T

LEMMA AdmissionIsKeptIf ==
  ASSUME SetFacts, NodesTyped
  PROVE  AdmissionRespected /\ NodesSpec => []AdmissionRespected
<1>1. AdmissionRespected /\ InitNodes => NInv
  BY NodesInit, Respected DEF NInv
<1>2. NInv /\ [NextNodes]_(nvars) => NInv'
  <2> SUFFICES ASSUME NInv, [NextNodes]_(nvars) PROVE NInv'
    OBVIOUS
  <2>1. CASE UNCHANGED nvars
    BY <2>1 DEF nvars, NInv, NodesOK, Registered
  <2>2. CASE NextNodes
    BY <2>2, EpochKeeps, RegisterKeeps, RemoveKeeps DEF NextNodes
  <2> QED BY <2>1, <2>2, Zenon
<1>3. NInv => AdmissionRespected
  BY Respected DEF NInv
<1> QED BY <1>1, <1>2, <1>3, PTL DEF NodesSpec

-----------------------------------------------------------------------------
(* The facts hold, and with them the theorems of the parts above.               *)
INSTANCE FiniteSetTheorems

LEMMA SetFactsHold == SetFacts
<1>1. CardinalityFact
  BY FS_CardinalityType, ZenonT(40) DEF CardinalityFact
<1>2. EmptySetFact
  BY FS_EmptySet, ZenonT(40) DEF EmptySetFact
<1>3. SubsetFact
  BY FS_Subset, ZenonT(40) DEF SubsetFact
<1>4. AddFact
  BY FS_AddElement, ZenonT(40) DEF AddFact
<1>5. RemoveFact
  BY FS_RemoveElement, ZenonT(40) DEF RemoveFact
<1>6. ImageFact
  <2>1. ASSUME NEW S, NEW T, NEW f, Onto(f, S, T) PROVE f \in Surjection(S, T)
    BY <2>1 DEF Onto, Surjection
  <2> QED BY <2>1, FS_Surjection, ZenonT(40) DEF ImageFact
<1>7. LeastFact
  <2> SUFFICES ASSUME NEW T \in SUBSET Nat, T # {} PROVE \E x \in T : \A y \in T : x <= y
    BY DEF LeastFact
  <2> DEFINE R == OpToRel(<, Nat)
  <2>1. IsWellFoundedOn(R, Nat)
    BY NatLessThanWellFounded, ZenonT(40)
  <2>2. \A x, y \in Nat : x < y => <<x, y>> \in R
    BY DEF OpToRel
  <2> HIDE DEF R
  <2>3. PICK x \in T : \A y \in T : ~(<<y, x>> \in R)
    BY <2>1, WFMin, ZenonT(40)
  <2>4. \A y \in T : ~(y < x)
    BY <2>2, <2>3, ZenonT(40)
  <2>5. \A y \in T : x <= y
    BY <2>4
  <2> QED BY <2>5
<1> QED BY <1>1, <1>2, <1>3, <1>4, <1>5, <1>6, <1>7, Zenon DEF SetFacts

(* THEOREM.  Whatever descriptors are registered and updated, and in whatever  *)
(* epochs, the checks of VerifyRuntimeNew and VerifyRuntimeUpdate keep the     *)
(* history of active deployments: one per epoch, never an older version later. *)
THEOREM HistoryIsKept == ASSUME DescriptorsTyped PROVE RuntimesSpec => []HistoryStands
BY SetFactsHold, HistoryIsKeptIf

(* THEOREM.  Registrations, updates, expirations and removals never let an     *)
(* entity have more live nodes in a role of a runtime than the runtime's       *)
(* admission policies allow it, if the genesis document did not (it is not     *)
(* checked against them): verifyNodeCountWithRoleForRuntime counts enough.     *)
THEOREM AdmissionIsKept ==
  ASSUME NodesTyped
  PROVE  AdmissionRespected /\ NodesSpec => []AdmissionRespected
BY SetFactsHold, AdmissionIsKeptIf
=============================================================================
