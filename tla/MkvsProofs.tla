------------------------------ MODULE MkvsProofs ------------------------------
(* Proofs about the key-value store: the overlay through which a tree is       *)
(* changed acts as one map, and a migration of the node database that is       *)
(* interrupted anywhere still ends with a complete database.                   *)
EXTENDS Integers, FiniteSets, TLAPS

(* What is used of finite sets and natural numbers.  It follows from           *)
(* FiniteSetTheorems, which slow the provers down wherever they are in scope:  *)
(* the lemmas take these facts as a hypothesis, and the module ends with the   *)
(* proof that they hold.                                                       *)
LeastFact == \A T \in SUBSET Nat : T # {} => \E x \in T : \A y \in T : x <= y
SetFacts == LeastFact

LEMMA LeastNatural ==
  ASSUME SetFacts, NEW T, T \subseteq Nat, T # {}
  PROVE  \E x \in T : \A y \in T : x <= y
BY DEF SetFacts, LeastFact


-----------------------------------------------------------------------------
(* The overlay of a tree.                                                      *)
CONSTANTS Keys, Values
VARIABLES inner, overlay, dirty, iter, view
INSTANCE Overlay

(* Where the two iterators are: the first clean key of the inner tree and the  *)
(* first key of the overlay that have not been passed.                         *)
AtFirst ==
  iter.next # 0 =>
    /\ iter.inner = First(Holding(inner) \ dirty, iter.next)
    /\ iter.overlay = First(DOMAIN overlay, iter.next)
OType ==
  /\ inner \in [Keys -> Values \cup {Absent}] /\ view \in [Keys -> Values \cup {Absent}]
  /\ dirty \subseteq Keys /\ DOMAIN overlay \subseteq dirty
  /\ \A k \in DOMAIN overlay : overlay[k] \in Values
  /\ DOMAIN iter = {"inner", "overlay", "next"} /\ iter.next \in Nat
  /\ iter.next = 0 => iter.inner = End /\ iter.overlay = End
OInv == OType /\ (\A k \in Keys : GetKey(k) = view[k]) /\ AtFirst

(* The first key of a set at or after k: it is in the set, and none is before. *)
LEMMA FirstFacts ==
  ASSUME SetFacts, NEW S, S \subseteq Nat \ {0}, NEW k \in Nat
  PROVE  \/ First(S, k) = End /\ \A j \in S : j < k
         \/ /\ First(S, k) \in S /\ First(S, k) >= k /\ First(S, k) # End
            /\ \A j \in S : j >= k => First(S, k) <= j
<1>1. CASE \A j \in S : j < k
  BY <1>1 DEF First
<1>2. CASE ~ \A j \in S : j < k
  <2>. DEFINE T == {j \in S : j >= k}
              P(j) == j \in S /\ j >= k /\ \A i \in S : i >= k => j <= i
  <2>1. T \subseteq Nat /\ T # {}
    <3>1. PICK j \in S : ~(j < k)
      BY <1>2
    <3>2. j \in T
      BY <3>1
    <3>. QED
      BY <3>2, ZenonT(40)
  <2>2. PICK j \in T : \A i \in T : j <= i
    BY <2>1, LeastNatural, ZenonT(40)
  <2>3. j \in S /\ P(j)
    BY <2>2
  <2>. HIDE DEF P
  <2>4. First(S, k) = CHOOSE x \in S : P(x)
    BY <1>2 DEF First, P
  <2>5. (CHOOSE x \in S : P(x)) \in S /\ P(CHOOSE x \in S : P(x))
    BY <2>3, ZenonT(40)
  <2>6. First(S, k) \in S /\ P(First(S, k))
    BY <2>4, <2>5
  <2>. QED
    BY <2>6 DEF P, End
<1>. QED
  BY <1>1, <1>2

(* The two properties determine it.                                            *)
LEMMA FirstIs ==
  ASSUME SetFacts, NEW S, S \subseteq Nat \ {0}, NEW k \in Nat, NEW x \in S, x >= k, \A j \in S : j >= k => x <= j
  PROVE  First(S, k) = x
<1>1. ~(\A j \in S : j < k)
  OBVIOUS
<1>. DEFINE y == First(S, k)
<1>2. y \in S /\ y >= k /\ \A j \in S : j >= k => y <= j
  BY <1>1, FirstFacts, ZenonT(40)
<1>. HIDE DEF y
<1>3. x <= y /\ y <= x /\ x \in Nat /\ y \in Nat
  BY <1>2
<1>4. y = x
  BY <1>3
<1>. QED
  BY <1>4 DEF y

(* Later starts that pass no key of the set make no difference.                *)
LEMMA FirstLater ==
  ASSUME SetFacts, NEW S, S \subseteq Nat \ {0}, NEW k \in Nat, NEW l \in Nat, k <= l,
         First(S, k) = End \/ l <= First(S, k)
  PROVE  First(S, l) = First(S, k)
<1>. DEFINE x == First(S, k)
<1>1. CASE x = End
  <2>1. \A j \in S : j < k
    BY <1>1, FirstFacts, ZenonT(40) DEF End
  <2>2. \A j \in S : j < l
    BY <2>1
  <2>. QED
    BY <1>1, <2>2, ZenonT(40) DEF First
<1>2. CASE x # End
  <2>1. x \in S /\ x >= l /\ \A j \in S : j >= k => x <= j
    BY <1>2, FirstFacts, ZenonT(40)
  <2>. HIDE DEF x
  <2>2. \A j \in S : j >= l => x <= j
    BY <2>1
  <2>3. First(S, l) = x
    BY <2>1, <2>2, FirstIs, ZenonT(40)
  <2>. QED
    BY <2>3 DEF x
<1>. QED
  BY <1>1, <1>2

(* Skipping to a subset from the first key of the set.                         *)
LEMMA FirstOfSubset ==
  ASSUME SetFacts, NEW S, S \subseteq Nat \ {0}, NEW T, T \subseteq S, NEW k \in Nat
  PROVE  First(T, k) = IF First(S, k) = End THEN End ELSE First(T, First(S, k))
<1>. DEFINE x == First(S, k)
<1>1. CASE x = End
  <2>1. \A j \in S : j < k
    BY <1>1, FirstFacts, ZenonT(40) DEF End
  <2>. QED
    BY <1>1, <2>1 DEF First
<1>2. CASE x # End
  <2>1. x \in S /\ x >= k /\ x \in Nat /\ \A j \in S : j >= k => x <= j
    BY <1>2, FirstFacts, ZenonT(40)
  <2>. HIDE DEF x
  <2>2. T \subseteq Nat \ {0}
    OBVIOUS
  <2>3. First(T, k) = End \/ x <= First(T, k)
    BY <2>1, <2>2, FirstFacts, ZenonT(40)
  <2>4. First(T, x) = First(T, k)
    BY <2>1, <2>2, <2>3, FirstLater, ZenonT(40)
  <2>. QED
    BY <1>2, <2>4 DEF x
<1>. QED
  BY <1>1, <1>2

LEMMA OSettings ==
  ASSUME OverlaySettings, OType
  PROVE  /\ Absent \notin Values /\ DOMAIN inner = Keys /\ DOMAIN view = Keys
         /\ Holding(inner) \subseteq Nat \ {0} /\ DOMAIN overlay \subseteq Nat \ {0}
         /\ Holding(inner) \ dirty \subseteq Holding(inner)
  BY ZenonT(40) DEF OverlaySettings, OType, Absent, Holding

LEMMA OInvInit == ASSUME OverlaySettings, InitOverlay PROVE OInv
<1>1. DOMAIN overlay = {} /\ dirty = {} /\ view = inner /\ iter = Closed /\ inner \in [Keys -> Values \cup {Absent}]
  BY DEF InitOverlay
<1>2. DOMAIN iter = {"inner", "overlay", "next"} /\ iter.next = 0 /\ iter.inner = End /\ iter.overlay = End
  BY <1>1 DEF Closed
<1>. QED
  BY <1>1, <1>2 DEF OInv, OType, AtFirst, GetKey

(* An update of the tree closes the iterator.                                  *)
LEMMA OUpdated ==
  ASSUME iter' = Closed, inner' \in [Keys -> Values \cup {Absent}], view' \in [Keys -> Values \cup {Absent}],
         dirty' \subseteq Keys, DOMAIN overlay' \subseteq dirty', \A k \in DOMAIN overlay' : overlay'[k] \in Values,
         \A k \in Keys : GetKey(k)' = view'[k]
  PROVE  OInv'
<1>1. DOMAIN iter' = {"inner", "overlay", "next"} /\ iter'.next = 0 /\ iter'.inner = End /\ iter'.overlay = End
  BY DEF Closed
<1>2. 0 \in Nat
  OBVIOUS
<1>. QED
  BY <1>1, <1>2, ZenonT(40) DEF OInv, OType, AtFirst

LEMMA OInsert == ASSUME OverlaySettings, OInv, NEW k \in Keys, NEW v \in Values, InsertKey(k, v) PROVE OInv'
<1>1. /\ overlay' = [j \in DOMAIN overlay \cup {k} |-> IF j = k THEN v ELSE overlay[j]]
      /\ dirty' = dirty \cup {k} /\ iter' = Closed /\ view' = [view EXCEPT ![k] = v] /\ inner' = inner
  BY DEF InsertKey
<1>2. /\ inner \in [Keys -> Values \cup {Absent}] /\ view \in [Keys -> Values \cup {Absent}]
      /\ dirty \subseteq Keys /\ DOMAIN overlay \subseteq dirty /\ \A j \in DOMAIN overlay : overlay[j] \in Values
      /\ \A j \in Keys : GetKey(j) = view[j]
  BY DEF OInv, OType
<1>3. view' \in [Keys -> Values \cup {Absent}] /\ \A j \in Keys : view'[j] = IF j = k THEN v ELSE view[j]
  BY <1>1, <1>2
<1>4. /\ DOMAIN overlay' = DOMAIN overlay \cup {k}
      /\ \A j \in DOMAIN overlay' : overlay'[j] = IF j = k THEN v ELSE overlay[j]
  BY <1>1
<1>5. ASSUME NEW j \in Keys PROVE GetKey(j)' = view'[j]
  BY <1>1, <1>2, <1>3, <1>4, ZenonT(40) DEF GetKey
<1>. QED
  BY <1>1, <1>2, <1>3, <1>4, <1>5, OUpdated, ZenonT(40)

(* What deleting a key from the overlay leaves.                                *)
LEMMA DeletedFacts ==
  ASSUME NEW f, NEW k
  PROVE  DOMAIN Deleted(f, k) = DOMAIN f \ {k} /\ \A j \in DOMAIN f \ {k} : Deleted(f, k)[j] = f[j]
  BY DEF Deleted

LEMMA ORemove == ASSUME OverlaySettings, OInv, NEW k \in Keys, RemoveKey(k) PROVE OInv'
<1>1. /\ overlay' = Deleted(overlay, k)
      /\ dirty' = dirty \cup {k} /\ iter' = Closed /\ view' = [view EXCEPT ![k] = Absent] /\ inner' = inner
  BY DEF RemoveKey
<1>2. /\ inner \in [Keys -> Values \cup {Absent}] /\ view \in [Keys -> Values \cup {Absent}]
      /\ dirty \subseteq Keys /\ DOMAIN overlay \subseteq dirty /\ \A j \in DOMAIN overlay : overlay[j] \in Values
      /\ \A j \in Keys : GetKey(j) = view[j]
  BY DEF OInv, OType
<1>3. view' \in [Keys -> Values \cup {Absent}] /\ \A j \in Keys : view'[j] = IF j = k THEN Absent ELSE view[j]
  BY <1>1, <1>2
<1>4. DOMAIN overlay' = DOMAIN overlay \ {k} /\ \A j \in DOMAIN overlay' : overlay'[j] = overlay[j]
  BY <1>1, DeletedFacts, ZenonT(40)
<1>5. ASSUME NEW j \in Keys PROVE GetKey(j)' = view'[j]
  BY <1>1, <1>2, <1>3, <1>4, ZenonT(40) DEF GetKey
<1>. QED
  BY <1>1, <1>2, <1>3, <1>4, <1>5, OUpdated, ZenonT(40)

LEMMA ORemoveExisting == ASSUME OverlaySettings, OInv, NEW k \in Keys, RemoveExistingKey(k) PROVE OInv'
<1>1. /\ overlay' = (IF k \in dirty THEN Deleted(overlay, k) ELSE overlay)
      /\ dirty' = (IF inner[k] # Absent THEN dirty \cup {k} ELSE dirty)
      /\ iter' = Closed /\ view' = [view EXCEPT ![k] = Absent] /\ inner' = inner
  BY DEF RemoveExistingKey
<1>2. /\ inner \in [Keys -> Values \cup {Absent}] /\ view \in [Keys -> Values \cup {Absent}]
      /\ dirty \subseteq Keys /\ DOMAIN overlay \subseteq dirty /\ \A j \in DOMAIN overlay : overlay[j] \in Values
      /\ \A j \in Keys : GetKey(j) = view[j]
  BY DEF OInv, OType
<1>3. view' \in [Keys -> Values \cup {Absent}] /\ \A j \in Keys : view'[j] = IF j = k THEN Absent ELSE view[j]
  BY <1>1, <1>2
<1>4. DOMAIN overlay' = DOMAIN overlay \ {k} /\ \A j \in DOMAIN overlay' : overlay'[j] = overlay[j]
  BY <1>1, <1>2, DeletedFacts, ZenonT(40)
<1>5. dirty \subseteq dirty' /\ dirty' \subseteq dirty \cup {k} /\ (k \notin dirty' => inner[k] = Absent)
  BY <1>1, ZenonT(40)
<1>6. ASSUME NEW j \in Keys PROVE GetKey(j)' = view'[j]
  <2>1. CASE j = k
    BY <1>1, <1>3, <1>4, <1>5, <2>1, ZenonT(40) DEF GetKey
  <2>2. CASE j # k
    BY <1>1, <1>2, <1>3, <1>4, <1>5, <2>2, ZenonT(40) DEF GetKey
  <2>. QED
    BY <2>1, <2>2
<1>. QED
  BY <1>1, <1>2, <1>3, <1>4, <1>5, <1>6, OUpdated, ZenonT(40)

LEMMA OCommit == ASSUME OverlaySettings, OInv, CommitOverlay PROVE OInv'
<1>1. /\ inner' = Committed(dirty) /\ DOMAIN overlay' = {} /\ dirty' = {} /\ iter' = Closed /\ view' = view
  BY DEF CommitOverlay
<1>2. /\ view \in [Keys -> Values \cup {Absent}] /\ \A j \in Keys : GetKey(j) = view[j]
  BY DEF OInv, OType
<1>3. inner' = view
  BY <1>1, <1>2 DEF Committed, GetKey
<1>. QED
  BY <1>1, <1>2, <1>3, OUpdated, ZenonT(40) DEF GetKey

(* After a move both iterators are where they should be.                       *)
LEMMA OMoved ==
  ASSUME OverlaySettings, OInv, UNCHANGED <<inner, overlay, dirty, view>>, NEW i, NEW o, NEW n \in Nat, n # 0,
         iter' = Position(i, o, n), SkipDirty(i) = First(Holding(inner) \ dirty, n), o = First(DOMAIN overlay, n)
  PROVE  OInv'
<1>1. /\ DOMAIN iter' = {"inner", "overlay", "next"} /\ iter'.next = n
      /\ iter'.inner = First(Holding(inner) \ dirty, n) /\ iter'.overlay = First(DOMAIN overlay, n)
  BY DEF Position
<1>2. OType'
  BY <1>1, ZenonT(40) DEF OInv, OType
<1>3. \A k \in Keys : GetKey(k)' = view'[k]
  BY ZenonT(40) DEF OInv, GetKey
<1>4. AtFirst'
  BY <1>1, ZenonT(40) DEF AtFirst
<1>. QED
  BY <1>2, <1>3, <1>4 DEF OInv

LEMMA OSeek == ASSUME SetFacts, OverlaySettings, OInv, NEW k \in Keys, IterSeek(k) PROVE OInv'
<1>1. k \in Nat /\ k # 0
  BY DEF OverlaySettings
<1>2. SkipDirty(First(Holding(inner), k)) = First(Holding(inner) \ dirty, k)
  BY <1>1, OSettings, FirstOfSubset DEF SkipDirty, OInv
<1>. QED
  BY <1>1, <1>2, OMoved DEF IterSeek

LEMMA ONext == ASSUME SetFacts, OverlaySettings, OInv, IterNext PROVE OInv'
<1>. DEFINE i == iter.inner
            o == iter.overlay
            n == iter.next
            C == Holding(inner) \ dirty
            D == DOMAIN overlay
<1>1. /\ C \subseteq Nat \ {0} /\ D \subseteq Nat \ {0} /\ n \in Nat /\ n # 0 /\ i = First(C, n) /\ o = First(D, n)
      /\ Holding(inner) \subseteq Nat \ {0} /\ C \subseteq Holding(inner)
  <2>1. n # 0
    BY DEF IterNext, IterValid, OInv, OType
  <2>. QED
    BY <2>1, OSettings DEF OInv, OType, AtFirst
<1>2. C \cap D = {}
  BY DEF OInv, OType
<1>. HIDE DEF C, D
<1>3. (i # End => i \in C /\ i >= n) /\ (o # End => o \in D /\ o >= n)
  <2>0. ASSUME NEW S, S \subseteq Nat \ {0} PROVE First(S, n) # End => First(S, n) \in S /\ First(S, n) >= n
    BY <1>1, <2>0, FirstFacts, Zenon
  <2>1. i # End => i \in C /\ i >= n
    BY <1>1, <2>0, Zenon
  <2>2. o # End => o \in D /\ o >= n
    BY <1>1, <2>0, Zenon
  <2>. QED
    BY <2>1, <2>2
<1>4. CASE FromInner
  <2>1. i # End /\ i \in C /\ i \in Nat /\ i >= n /\ (o = End \/ (i < o /\ o \in Nat))
    BY <1>1, <1>3, <1>4, ZenonT(40) DEF FromInner
  <2>2. o = End \/ i <= o
    BY <2>1
  <2>3. iter' = Position(First(Holding(inner), i + 1), o, i + 1) /\ UNCHANGED <<inner, overlay, dirty, view>>
    BY <1>4, <2>1, <2>2 DEF IterNext, IterKey
  <2>4. i + 1 \in Nat /\ i + 1 # 0 /\ n <= i + 1 /\ (o = End \/ i + 1 <= o)
    BY <1>1, <2>1
  <2>5. SkipDirty(First(Holding(inner), i + 1)) = First(C, i + 1)
    BY <1>1, <2>4, FirstOfSubset DEF SkipDirty, C
  <2>6. First(D, i + 1) = o
    <3>. HIDE DEF i, o, n
    <3>1. First(D, n) = End \/ i + 1 <= First(D, n)
      BY <1>1, <2>4
    <3>. QED
      BY <1>1, <2>4, <3>1, FirstLater, ZenonT(40)
  <2>. QED
    BY <2>3, <2>4, <2>5, <2>6, OMoved DEF C, D
<1>5. CASE ~FromInner
  <2>1. o # End /\ o \in D /\ o \in Nat /\ o >= n /\ (i = End \/ (o < i /\ i \in Nat))
    <3>1. o # End /\ o \in D /\ o \in Nat /\ o >= n
      BY <1>1, <1>3, <1>5, ZenonT(40) DEF FromInner, IterNext, IterValid
    <3>2. i # End => i \in Nat /\ i # o
      BY <1>1, <1>2, <1>3, <3>1, ZenonT(40)
    <3>. QED
      BY <1>5, <3>1, <3>2 DEF FromInner
  <2>2. ~(o = End \/ (i # End /\ i <= o))
    BY <2>1
  <2>3. iter' = Position(i, First(D, o + 1), o + 1) /\ UNCHANGED <<inner, overlay, dirty, view>>
    BY <1>5, <2>2 DEF IterNext, IterKey, D
  <2>4. o + 1 \in Nat /\ o + 1 # 0 /\ n <= o + 1 /\ (i = End \/ o + 1 <= i)
    BY <1>1, <2>1
  <2>5. First(C, o + 1) = i
    <3>. HIDE DEF i, o, n
    <3>1. First(C, n) = End \/ o + 1 <= First(C, n)
      BY <1>1, <2>4
    <3>. QED
      BY <1>1, <2>4, <3>1, FirstLater, ZenonT(40)
  <2>6. SkipDirty(i) = i
    <3>1. CASE i = End
      BY <3>1 DEF SkipDirty
    <3>2. CASE i # End
      <4>1. i \in C /\ i \in Nat /\ n <= i /\ i <= i
        <5>1. i \in C /\ i >= n /\ n \in Nat
          BY <1>1, <1>3, <3>2, ZenonT(40)
        <5>2. i \in Nat
          BY <1>1, <5>1, ZenonT(40)
        <5>. HIDE DEF i, o, n
        <5>. QED
          BY <5>1, <5>2
      <4>2. First(C, i) = First(C, n)
        BY <1>1, <4>1, FirstLater, ZenonT(40)
      <4>. QED
        BY <1>1, <3>2, <4>2 DEF SkipDirty, C
    <3>. QED
      BY <3>1, <3>2
  <2>. QED
    BY <2>3, <2>4, <2>5, <2>6, OMoved DEF C, D
<1>. QED
  BY <1>4, <1>5

LEMMA OInvStep == ASSUME SetFacts, OverlaySettings, OInv, [OverlayNext]_overlayVars PROVE OInv'
<1>1. CASE UNCHANGED overlayVars
  BY <1>1, ZenonT(40) DEF overlayVars, OInv, OType, AtFirst, GetKey
<1>. QED
  BY <1>1, OInsert, ORemove, ORemoveExisting, OCommit, OSeek, ONext DEF OverlayNext

(* The smaller of the two positions is the first key of the map.               *)
LEMMA OInvMap == ASSUME SetFacts, OverlaySettings, OInv PROVE OverlayIsMap
<1>1. \A k \in Keys : GetKey(k) = view[k]
  BY DEF OInv
<1>2. ASSUME iter.next # 0
      PROVE  IterKey = First(Holding(view), iter.next) /\ (IterValid => IterValue = view[IterKey])
  <2>. DEFINE i == iter.inner
              o == iter.overlay
              n == iter.next
              C == Holding(inner) \ dirty
              D == DOMAIN overlay
              H == Holding(view)
  <2>1. /\ C \subseteq Nat \ {0} /\ D \subseteq Nat \ {0} /\ n \in Nat /\ i = First(C, n) /\ o = First(D, n)
    BY <1>2, OSettings DEF OInv, OType, AtFirst
  <2>2. /\ C \subseteq Keys /\ D \subseteq Keys /\ C \cap D = {} /\ DOMAIN inner = Keys /\ DOMAIN view = Keys
        /\ \A k \in C : view[k] = inner[k] /\ view[k] # Absent
        /\ \A k \in D : view[k] = overlay[k] /\ view[k] # Absent
        /\ \A k \in Keys : view[k] # Absent => k \in C \cup D
    <3>1. DOMAIN inner = Keys /\ DOMAIN view = Keys /\ Absent \notin Values /\ D \subseteq dirty /\ dirty \subseteq Keys
      BY OSettings DEF OInv, OType
    <3>2. \A k \in D : overlay[k] \in Values
      BY DEF OInv, OType
    <3>. QED
      BY <1>1, <3>1, <3>2, ZenonT(40) DEF GetKey, Holding
  <2>3. H = C \cup D
    BY <2>2, ZenonT(40) DEF Holding
  <2>4. /\ i = End \/ (i \in C /\ i >= n /\ i # End /\ \A j \in C : j >= n => i <= j)
        /\ i = End => \A j \in C : j < n
    BY <2>1, FirstFacts DEF End
  <2>5. /\ o = End \/ (o \in D /\ o >= n /\ o # End /\ \A j \in D : j >= n => o <= j)
        /\ o = End => \A j \in D : j < n
    BY <2>1, FirstFacts DEF End
  <2>. HIDE DEF C, D, H
  <2>6. CASE FromInner
    <3>1. IterKey = i /\ IterValue = inner[i] /\ i # End /\ i \in C /\ (o = End \/ i < o)
      BY <2>4, <2>6, ZenonT(40) DEF FromInner, IterKey, IterValue
    <3>2. i \in H /\ H \subseteq Nat \ {0} /\ i >= n /\ \A j \in H : j >= n => i <= j
      <4>. HIDE DEF i, o, n
      <4>. QED
        BY <2>1, <2>3, <2>4, <2>5, <3>1
    <3>3. First(H, n) = i
      <4>1. n \in Nat
        BY <2>1
      <4>. HIDE DEF i, o, n
      <4>. QED
        BY <3>2, <4>1, FirstIs, ZenonT(40)
    <3>. QED
      BY <2>2, <3>1, <3>3 DEF H
  <2>7. CASE ~FromInner /\ o # End
    <3>1. IterKey = o /\ IterValue = overlay[o] /\ o \in D /\ (i = End \/ ~(i < o))
      BY <2>5, <2>7, ZenonT(40) DEF FromInner, IterKey, IterValue
    <3>2. o \in H /\ H \subseteq Nat \ {0} /\ o >= n /\ \A j \in H : j >= n => o <= j
      <4>. HIDE DEF i, o, n
      <4>. QED
        BY <2>1, <2>3, <2>4, <2>5, <2>7, <3>1
    <3>3. First(H, n) = o
      <4>1. n \in Nat
        BY <2>1
      <4>. HIDE DEF i, o, n
      <4>. QED
        BY <3>2, <4>1, FirstIs, ZenonT(40)
    <3>. QED
      BY <2>2, <3>1, <3>3 DEF H
  <2>8. CASE ~FromInner /\ o = End
    <3>1. i = End /\ IterKey = End /\ ~IterValid
      BY <2>8, ZenonT(40) DEF FromInner, IterKey, IterValid
    <3>2. \A j \in H : j < n
      BY <2>3, <2>4, <2>5, <2>8, <3>1, ZenonT(40)
    <3>3. First(H, n) = End
      BY <3>2 DEF First
    <3>. QED
      BY <3>1, <3>3 DEF H
  <2>. QED
    BY <2>6, <2>7, <2>8
<1>. QED
  BY <1>1, <1>2 DEF OverlayIsMap

LEMMA OverlayActsAsMapIf == ASSUME SetFacts, OverlaySettings PROVE OverlaySpec => []OverlayIsMap
<1>1. InitOverlay => OInv
  BY OInvInit
<1>2. OInv /\ [OverlayNext]_overlayVars => OInv'
  BY OInvStep
<1>3. OInv => OverlayIsMap
  BY OInvMap
<1>. QED
  BY <1>1, <1>2, <1>3, PTL DEF OverlaySpec

-----------------------------------------------------------------------------
(* The migration of the node database.                                         *)
CONSTANTS Base, NumKeys, KindOf, RootKey, Stale, LastVersion, FirstKept, NodesOf, flushInterval, MaxCrashes
VARIABLES disk, mem, snap, m, crashes
INSTANCE Migrate

(* What the pass over the keys makes of one.                                   *)
Target(k) == IF Base = 3 /\ k \in Unknown THEN 0 ELSE 4
KeysAt(db, j) == db.keys = [k \in 1..NumKeys |-> IF Base = 3 /\ k > j THEN 3 ELSE Target(k)]

AllNodes == UNION {NodesOf[v] : v \in Versions}
Meta == [base : {0, 3, 4}, lastKey : 0..NumKeys, migrated : FirstKept..(LastVersion + 1), pruned : 0..FirstKept]
Database ==
  [version : {3, 4, 5}, meta : Meta, earliest : Versions, keys : [1..NumKeys -> {0, 3, 4}],
   roots : [Versions -> {0, 4, 5}], logs : [Versions -> {0, 4, 5}], old : SUBSET AllNodes, new : SUBSET AllNodes]
Migrator ==
  [pc : {"probe", "keys", "meta", "versions", "delete", "prune", "done"}, remain : 0..flushInterval,
   dels : SUBSET AllNodes, meta : Meta]

(* The versions from g.migrated on are in the new format, those from g.pruned  *)
(* to the first kept one are gone.                                             *)
Trees(db, g) ==
  /\ \A v \in KeptVersions : v < g.migrated => db.roots[v] = 4
  /\ \A v \in KeptVersions : g.migrated <= v => db.roots[v] = 5 /\ NodesOf[v] \subseteq db.new
  /\ \A v \in KeptVersions : g.migrated < v => db.logs[v] = 5
  /\ \A v \in 0..(FirstKept - 1) : g.pruned <= v => db.roots[v] = 0 /\ db.logs[v] = 0
  /\ g.pruned < FirstKept => g.migrated = FirstKept
Readable(db, b) == \A v \in KeptVersions : v < b => NodesOf[v] \subseteq db.old
NoTrees(g) == g.migrated = LastVersion + 1 /\ g.pruned = FirstKept

(* What the database holds between two flushes, by the migrator it needs.      *)
DiskKeys ==
  /\ Base = 3 /\ disk.version = (IF disk.meta.lastKey = 0 THEN 3 ELSE 4)
  /\ disk.meta.base = (IF disk.meta.lastKey = 0 THEN 0 ELSE 3)
  /\ NoTrees(disk.meta) /\ KeysAt(disk, disk.meta.lastKey)
  /\ Trees(disk, disk.meta) /\ Readable(disk, disk.meta.migrated)
DiskTrees ==
  /\ (disk.version = 4 /\ disk.meta = NoMeta) \/ (disk.version = 5 /\ disk.meta.base = 4)
  /\ KeysAt(disk, NumKeys)
  /\ Trees(disk, disk.meta) /\ Readable(disk, disk.meta.migrated)
  /\ ~Spread => disk.meta.migrated \in {FirstKept, LastVersion + 1}
AllDone == [base |-> 0, lastKey |-> 0, migrated |-> FirstKept, pruned |-> 0]
DiskDone ==
  /\ disk.version = 5 /\ disk.meta = NoMeta /\ disk.earliest = FirstKept
  /\ KeysAt(disk, NumKeys) /\ Trees(disk, AllDone)

InKeys ==
  /\ DiskKeys /\ m.meta.base = 3 /\ NoTrees(m.meta)
  /\ mem.version = (IF m.meta.lastKey = 0 THEN 3 ELSE 4)
  /\ KeysAt(mem, m.meta.lastKey) /\ Trees(mem, m.meta) /\ Readable(mem, m.meta.migrated)
  /\ \A k \in 1..m.meta.lastKey :
       m.meta.lastKey < NumKeys /\ KindOf[k] # KindOf[m.meta.lastKey + 1] => snap.keys[k] = Target(k)

(* The batch lacks no node that a later version needs, but for the last        *)
(* migrated version's.                                                         *)
Batch == \A v \in KeptVersions : v + 2 <= m.meta.migrated => NodesOf[v] \subseteq mem.old
Unflushed ==
  m.meta.migrated > FirstKept =>
    /\ disk.meta.migrated = LastVersion + 1
    /\ m.remain + LastVersion + 1 = flushInterval + m.meta.migrated
InTrees ==
  /\ DiskTrees /\ m.meta.base = 4 /\ m.meta.migrated <= disk.meta.migrated
  /\ KeysAt(mem, NumKeys) /\ Trees(mem, m.meta)
  /\ m.pc \in {"versions", "delete", "prune"} => mem.version = 5
  /\ Spread => Batch
  /\ ~Spread /\ m.pc # "prune" => Unflushed
  /\ m.pc = "delete" => m.dels = NodesOf[m.meta.migrated] /\ m.meta.migrated <= LastVersion
  /\ m.pc = "prune" => m.meta.migrated = FirstKept
  /\ m.pc \in {"meta", "versions"} =>
       /\ Readable(snap, m.meta.migrated)
       /\ \A v \in KeptVersions : v < m.meta.migrated => snap.roots[v] = 4

MType == disk \in Database /\ mem \in Database /\ snap \in Database /\ m \in Migrator
MInv ==
  /\ MType
  /\ DiskKeys \/ DiskTrees \/ DiskDone
  /\ m.pc = "keys" => InKeys
  /\ m.pc \in {"meta", "versions", "delete", "prune"} => InTrees
  /\ m.pc = "done" => DiskDone

-----------------------------------------------------------------------------
(* What the settings say in terms of the sets they bound.                     *)
LEMMA SettingFacts ==
  ASSUME MigrationSettings
  PROVE  /\ LastVersion \in Nat /\ FirstKept \in Nat /\ FirstKept <= LastVersion /\ NumKeys \in Nat /\ NumKeys >= 1
         /\ flushInterval \in Nat /\ Versions = 0..LastVersion /\ KeptVersions = FirstKept..LastVersion
         /\ Base \in {3, 4} /\ NoMeta \in Meta /\ KeptVersions \subseteq Versions
  BY DEF MigrationSettings, NoMeta, Meta, Versions, KeptVersions

(* The fields of a database.                                                  *)
LEMMA TypeFacts ==
  ASSUME NEW db \in Database
  PROVE  /\ db.version \in {3, 4, 5} /\ db.meta \in Meta /\ db.earliest \in Versions /\ db.keys \in [1..NumKeys -> {0, 3, 4}]
         /\ db.roots \in [Versions -> {0, 4, 5}] /\ db.logs \in [Versions -> {0, 4, 5}]
         /\ db.old \subseteq AllNodes /\ db.new \subseteq AllNodes
         /\ db.meta.base \in {0, 3, 4} /\ db.meta.lastKey \in 0..NumKeys
         /\ db.meta.migrated \in FirstKept..(LastVersion + 1) /\ db.meta.pruned \in 0..FirstKept
  BY DEF Database, Meta

(* The fields of the migrator.                                                *)
LEMMA MigratorFacts ==
  ASSUME NEW g \in Migrator
  PROVE  /\ g.meta \in Meta /\ g.remain \in 0..flushInterval /\ g.dels \subseteq AllNodes
         /\ g.meta.base \in {0, 3, 4} /\ g.meta.lastKey \in 0..NumKeys
         /\ g.meta.migrated \in FirstKept..(LastVersion + 1) /\ g.meta.pruned \in 0..FirstKept
         /\ g.pc # "failed"
  BY DEF Migrator, Meta

(* The database and the migrator to begin with.                               *)
LEMMA NewDatabase ==
  ASSUME MigrationSettings PROVE NewDB \in Database /\ NewMigrator("probe", NoMeta) \in Migrator
<1>1. UNION {NodesOf[v] : v \in Versions} = AllNodes
  BY DEF AllNodes
<1>2. 0 \in Versions /\ Base \in {3, 4, 5} /\ Base \in {0, 3, 4} /\ NoMeta \in Meta
  BY SettingFacts
<1>3. NewDB \in Database
  BY <1>1, <1>2 DEF NewDB, Database
<1>4. NewMigrator("probe", NoMeta) \in Migrator
  BY <1>2, SettingFacts DEF NewMigrator, Migrator
<1>. QED
  BY <1>3, <1>4

(* A database in either format, nothing migrated yet.                         *)
LEMMA MInvInit == ASSUME MigrationSettings, InitMigration PROVE MInv
<1>1. MType /\ m.pc = "probe" /\ disk = NewDB
  BY NewDatabase DEF InitMigration, MType, NewMigrator
<1>2. Trees(disk, disk.meta) /\ Readable(disk, disk.meta.migrated)
  <2>1. /\ disk.meta = NoMeta /\ disk.roots = [v \in Versions |-> 4]
        /\ disk.old = AllNodes
    BY <1>1 DEF NewDB, AllNodes
  <2>2. disk.meta.migrated = LastVersion + 1 /\ disk.meta.pruned = FirstKept
    BY <2>1 DEF NoMeta
  <2>3. Trees(disk, disk.meta)
    BY <2>1, <2>2, SettingFacts, SMTT(40) DEF Trees
  <2>4. Readable(disk, disk.meta.migrated)
    BY <2>1, SettingFacts, ZenonT(40) DEF Readable, AllNodes
  <2>. QED
    BY <2>3, <2>4
<1>3. disk.version = Base /\ disk.meta = NoMeta /\ disk.keys = [k \in 1..NumKeys |-> Base]
  BY <1>1 DEF NewDB
<1>4. CASE Base = 3
  <2>1. KeysAt(disk, 0)
    BY <1>3, <1>4 DEF KeysAt
  <2>. QED
    BY <1>1, <1>2, <1>3, <1>4, <2>1 DEF MInv, DiskKeys, NoMeta, NoTrees
<1>5. CASE Base = 4
  <2>1. KeysAt(disk, NumKeys)
    BY <1>3, <1>5 DEF KeysAt, Target
  <2>. QED
    BY <1>1, <1>2, <1>3, <1>5, <2>1 DEF MInv, DiskTrees, NoMeta
<1>. QED
  BY <1>4, <1>5, SettingFacts

(* The predicates read a few fields only.                                      *)
LEMMA TreesSame ==
  ASSUME NEW a, NEW b, NEW g, NEW h, Trees(a, g), b.roots = a.roots, b.logs = a.logs, b.new = a.new,
         h.migrated = g.migrated, h.pruned = g.pruned
  PROVE  Trees(b, h)
  BY ZenonT(40) DEF Trees

(* Saving the progress touches nothing else.                                  *)
LEMMA ProgressFacts ==
  ASSUME NEW db \in Database, NEW g \in Migrator, NEW done \in BOOLEAN, MigrationSettings
  PROVE  LET p == Progress(db, g, done)
         IN  /\ p \in Database /\ p.meta = (IF done THEN NoMeta ELSE g.meta)
             /\ p.version = db.version /\ p.earliest = db.earliest /\ p.keys = db.keys /\ p.roots = db.roots
             /\ p.logs = db.logs /\ p.old = db.old /\ p.new = db.new
<1>1. NoMeta \in Meta /\ g.meta \in Meta
  BY SettingFacts, MigratorFacts
<1>. DEFINE x == IF done THEN NoMeta ELSE g.meta
<1>2. x \in Meta
  BY <1>1
<1>3. Progress(db, g, done) = [db EXCEPT !.meta = x]
  BY DEF Progress
<1>. HIDE DEF x
<1>4. LET p == [db EXCEPT !.meta = x]
      IN  /\ p \in Database /\ p.meta = x
          /\ p.version = db.version /\ p.earliest = db.earliest /\ p.keys = db.keys /\ p.roots = db.roots
          /\ p.logs = db.logs /\ p.old = db.old /\ p.new = db.new
  BY <1>2 DEF Database
<1>. QED
  BY <1>3, <1>4, ZenonT(40) DEF x

(* A flush happens or not; the migrator is the same but for its countdown.     *)
LEMMA FlushFacts ==
  ASSUME NEW db \in Database, NEW g \in Migrator, NEW force \in BOOLEAN, NEW done \in BOOLEAN,
         Flush(db, g, force, done), MigrationSettings
  PROVE  /\ m' \in Migrator /\ m'.pc = g.pc /\ m'.dels = g.dels /\ m'.meta = g.meta
         /\ \/ disk' = Progress(db, g, done) /\ mem' = disk' /\ (force \/ g.remain = 0)
            \/ disk' = disk /\ mem' = db /\ ~force /\ m'.remain = g.remain - 1
  <1>1. CASE force \/ g.remain = 0
    <2>1. disk' = Progress(db, g, done) /\ mem' = disk' /\ m' = [g EXCEPT !.remain = flushInterval]
      BY <1>1 DEF Flush
    <2>. QED
      BY <1>1, <2>1, SettingFacts DEF Migrator
  <1>2. CASE ~(force \/ g.remain = 0)
    <2>1. disk' = disk /\ mem' = db /\ m' = [g EXCEPT !.remain = @ - 1]
      BY <1>2 DEF Flush
    <2>. QED
      BY <1>2, <2>1, SettingFacts DEF Migrator
  <1>. QED
    BY <1>1, <1>2

(* A crash leaves what was flushed.                                           *)
LEMMA MCrash == ASSUME MigrationSettings, MInv, MigrationCrash PROVE MInv'
<1>1. disk' = disk /\ mem' = disk /\ snap' = disk /\ m' = NewMigrator("probe", NoMeta)
  BY DEF MigrationCrash
<1>2. m' \in Migrator /\ m'.pc = "probe"
  BY <1>1, NewDatabase DEF NewMigrator
<1>3. MType'
  BY <1>1, <1>2, ZenonT(40) DEF MInv, MType
<1>4. (DiskKeys \/ DiskTrees \/ DiskDone)'
  BY <1>1, ZenonT(40) DEF MInv, DiskKeys, DiskTrees, DiskDone
<1>. QED
  BY <1>2, <1>3, <1>4 DEF MInv

(* The database decides which migrator goes on.                                *)
LEMMA OriginFacts ==
  ASSUME MigrationSettings, MInv
  PROVE  /\ Origin \in {3, 4, 5} 
         /\ Origin = 3 => DiskKeys
         /\ Origin = 4 => DiskTrees
         /\ Origin = 5 => DiskDone
<1>1. NoMeta.base = 0 /\ Base \in {3, 4} /\ disk.meta.base \in {0, 3, 4}
  BY SettingFacts, TypeFacts DEF NoMeta, MInv, MType
<1>2. CASE DiskKeys
  BY <1>1, <1>2 DEF DiskKeys, Origin
<1>3. CASE DiskTrees
  BY <1>1, <1>3 DEF DiskTrees, Origin
<1>4. CASE DiskDone
  BY <1>1, <1>4 DEF DiskDone, Origin
<1>. QED
  BY <1>2, <1>3, <1>4 DEF MInv

(* The migrator that goes on starts from what the database holds.             *)
LEMMA MProbe == ASSUME MigrationSettings, MInv, Probe PROVE MInv'
<1>1. disk' = disk /\ mem' = disk /\ snap' = disk
  BY DEF Probe
<1>2. (DiskKeys' = DiskKeys) /\ (DiskTrees' = DiskTrees) /\ (DiskDone' = DiskDone)
  BY <1>1, ZenonT(40) DEF DiskKeys, DiskTrees, DiskDone
<1>3. CASE Origin = 5
  <2>1. m' = [m EXCEPT !.pc = "done"]
    BY <1>3 DEF Probe, dbVersion
  <2>2. m' \in Migrator /\ m'.pc = "done"
    BY <2>1 DEF MInv, MType, Migrator
  <2>3. MType'
    BY <1>1, <2>2, ZenonT(40) DEF MInv, MType
  <2>. QED
    BY <1>2, <1>3, <2>2, <2>3, OriginFacts DEF MInv
<1>4. ASSUME Origin # 5
      PROVE  /\ m' \in Migrator /\ m'.pc = (IF Origin = 3 THEN "keys" ELSE "meta") /\ m'.remain = flushInterval
             /\ m'.meta.base = Origin /\ m'.meta.lastKey = disk.meta.lastKey
             /\ m'.meta.migrated = disk.meta.migrated /\ m'.meta.pruned = disk.meta.pruned
  <2>. DEFINE g == [disk.meta EXCEPT !.base = Origin]
  <2>1. m' = NewMigrator(IF Origin = 3 THEN "keys" ELSE "meta", g)
    BY <1>4 DEF Probe, dbVersion
  <2>2. disk.meta \in Meta /\ Origin \in {0, 3, 4}
    BY <1>4, OriginFacts, TypeFacts DEF MInv, MType
  <2>3. /\ g \in Meta /\ g.base = Origin /\ g.lastKey = disk.meta.lastKey
        /\ g.migrated = disk.meta.migrated /\ g.pruned = disk.meta.pruned
    BY <2>2 DEF Meta
  <2>. HIDE DEF g
  <2>. QED
    BY <2>1, <2>3, SettingFacts DEF NewMigrator, Migrator
<1>5. CASE Origin = 3
  <2>1. m' \in Migrator /\ m'.pc = "keys" /\ MType'
    <3>1. Origin # 5 /\ (3 = 3) = TRUE
      BY <1>5
    <3>2. m' \in Migrator /\ m'.pc = "keys"
      BY <1>4, <1>5, <3>1
    <3>. QED
      BY <1>1, <3>2, ZenonT(40) DEF MInv, MType
  <2>2. DiskKeys
    BY <1>5, OriginFacts
  <2>3. /\ m'.meta.base = 3 /\ m'.meta.lastKey = disk.meta.lastKey
        /\ m'.meta.migrated = disk.meta.migrated /\ m'.meta.pruned = disk.meta.pruned
    BY <1>4, <1>5
  <2>4. Trees(disk, disk.meta) /\ Readable(disk, disk.meta.migrated) /\ KeysAt(disk, disk.meta.lastKey) /\ NoTrees(disk.meta)
    BY <2>2 DEF DiskKeys
  <2>5. Trees(disk, m'.meta)
    BY <2>3, <2>4, TreesSame
  <2>6. /\ KeysAt(mem, m.meta.lastKey)' /\ Trees(mem, m.meta)' /\ Readable(mem, m.meta.migrated)'
    BY <1>1, <2>3, <2>4, <2>5, ZenonT(40) DEF KeysAt, Trees, Readable
  <2>7. ASSUME NEW k \in 1..disk.meta.lastKey PROVE disk.keys[k] = Target(k)
    <3>1. disk.meta.lastKey \in 0..NumKeys
      BY TypeFacts DEF MInv, MType
    <3>2. k \in 1..NumKeys /\ ~(k > disk.meta.lastKey)
      BY <3>1, SettingFacts
    <3>. QED
      BY <3>2, <2>4, ZenonT(40) DEF KeysAt
  <2>8. InKeys'
    BY <1>1, <1>2, <2>2, <2>3, <2>4, <2>6, <2>7, ZenonT(40) DEF InKeys, NoTrees, DiskKeys
  <2>. QED
    BY <1>2, <2>1, <2>2, <2>8 DEF MInv
<1>6. CASE Origin = 4
  <2>1. m' \in Migrator /\ m'.pc = "meta" /\ MType'
    <3>1. Origin # 5 /\ (4 = 3) = FALSE
      BY <1>6
    <3>2. m' \in Migrator /\ m'.pc = "meta"
      BY <1>4, <1>6, <3>1
    <3>. QED
      BY <1>1, <3>2, ZenonT(40) DEF MInv, MType
  <2>2. DiskTrees
    BY <1>6, OriginFacts
  <2>3. /\ m'.meta.base = 4 /\ m'.remain = flushInterval
        /\ m'.meta.migrated = disk.meta.migrated /\ m'.meta.pruned = disk.meta.pruned
    BY <1>4, <1>6
  <2>4. Trees(disk, disk.meta) /\ Readable(disk, disk.meta.migrated) /\ KeysAt(disk, NumKeys)
    BY <2>2 DEF DiskTrees
  <2>5. Trees(disk, m'.meta)
    BY <2>3, <2>4, TreesSame
  <2>6. disk.meta.migrated \in FirstKept..(LastVersion + 1)
    BY TypeFacts DEF MInv, MType
  <2>7. Batch'
    BY <1>1, <2>3, <2>4, <2>6, SettingFacts, SMTT(40) DEF Batch, Readable
  <2>8. ~Spread => Unflushed'
    BY <1>1, <2>2, <2>3, <2>6, SettingFacts, SMTT(40) DEF Unflushed, DiskTrees
  <2>9. \A v \in KeptVersions : v < disk.meta.migrated => disk.roots[v] = 4
    BY <2>4 DEF Trees
  <2>10. m'.meta.migrated <= disk'.meta.migrated
    BY <1>1, <2>3, <2>6, SettingFacts
  <2>11. InTrees'
    BY <1>1, <1>2, <2>1, <2>2, <2>3, <2>4, <2>5, <2>7, <2>8, <2>9, <2>10, ZenonT(40) DEF InTrees, Readable, KeysAt, Trees
  <2>. QED
    BY <1>2, <2>1, <2>2, <2>11 DEF MInv
<1>. QED
  BY <1>3, <1>5, <1>6, OriginFacts

(* The key of a root finds the type of the root exactly when it is known.      *)
LEMMA TypeIsKnown ==
  ASSUME MigrationSettings, MType, InKeys, m.meta.lastKey < NumKeys, KindOf[m.meta.lastKey + 1] \in {"log", "updated"}
  PROVE  Typed(m.meta.lastKey + 1) <=> RootKey[m.meta.lastKey + 1] \notin Stale
<1>. DEFINE j == m.meta.lastKey
            r == RootKey[j + 1]
<1>1. j \in Nat /\ j + 1 \in 1..NumKeys
  BY MigratorFacts, SettingFacts, SMTT(40) DEF MType
<1>. HIDE DEF j
<1>2. CASE r = 0
  BY <1>1, <1>2 DEF Typed, MigrationSettings, j
<1>3. CASE r # 0
  <2>1. r \in 1..((j + 1) - 1) /\ KindOf[r] = "roots"
    BY <1>1, <1>3 DEF MigrationSettings, j
  <2>2. r \in 1..j /\ r \in 1..NumKeys /\ KindOf[r] # KindOf[j + 1]
    BY <1>1, <2>1, SettingFacts, SMTT(40) DEF j
  <2>3. snap.keys[r] = Target(r)
    BY <2>2, ZenonT(40) DEF InKeys, j
  <2>4. r \in Unknown <=> r \in Stale
    BY <2>1, <2>2 DEF Unknown
  <2>5. Base = 3
    BY DEF InKeys, DiskKeys
  <2>6. Target(r) = 4 <=> r \notin Stale
    BY <2>4, <2>5 DEF Target
  <2>. QED
    BY <1>3, <2>3, <2>6 DEF Typed, j
<1>. QED
  BY <1>2, <1>3

(* What the functions of the pass do to a key.                                 *)
LEMMA KeyFacts ==
  ASSUME MigrationSettings, MType, InKeys, m.meta.lastKey < NumKeys
  PROVE  LET k == m.meta.lastKey + 1
             db == KeyFunc(mem, k)
         IN  /\ db \in Database /\ db.keys = [mem.keys EXCEPT ![k] = Target(k)]
             /\ db.version = (IF KindOf[k] = "metadata" THEN 4 ELSE mem.version)
             /\ db.roots = mem.roots /\ db.logs = mem.logs /\ db.old = mem.old /\ db.new = mem.new
<1>. DEFINE k == m.meta.lastKey + 1
            db == KeyFunc(mem, k)
            same(x) == x.roots = mem.roots /\ x.logs = mem.logs /\ x.old = mem.old /\ x.new = mem.new
<1>1. k \in 1..NumKeys /\ mem \in Database
  BY MigratorFacts, SettingFacts, SMTT(40) DEF MType
<1>2. /\ Base = 3 
      /\ KindOf[k] \in {"metadata", "roots", "log", "updated", "multipart"}
      /\ KindOf[k] # "roots" => k \notin Stale
  BY <1>1 DEF MigrationSettings, InKeys, DiskKeys
<1>3. KindOf[k] \in {"log", "updated"} => (Typed(k) <=> RootKey[k] \notin Stale)
  BY TypeIsKnown
<1>4. KindOf[k] = "updated" => RootKey[k] \notin Stale
  BY <1>1 DEF MigrationSettings
<1>. HIDE DEF k
<1>5. /\ Rewritten(mem, k) \in Database /\ Rewritten(mem, k).keys = [mem.keys EXCEPT ![k] = 4]
      /\ Rewritten(mem, k).version = mem.version /\ same(Rewritten(mem, k))
  <2>. DEFINE x == [mem.keys EXCEPT ![k] = 4]
  <2>1. x \in [1..NumKeys -> {0, 3, 4}]
    BY <1>1, TypeFacts
  <2>2. Rewritten(mem, k) = [mem EXCEPT !.keys = x]
    BY DEF Rewritten
  <2>. HIDE DEF x
  <2>3. /\ Rewritten(mem, k) \in Database /\ Rewritten(mem, k).keys = x
        /\ Rewritten(mem, k).version = mem.version /\ same(Rewritten(mem, k))
    BY <1>1, <2>1, <2>2 DEF Database
  <2>. QED
    BY <2>3 DEF x
<1>6. /\ Removed(mem, k) \in Database /\ Removed(mem, k).keys = [mem.keys EXCEPT ![k] = 0]
      /\ Removed(mem, k).version = mem.version /\ same(Removed(mem, k))
  <2>. DEFINE x == [mem.keys EXCEPT ![k] = 0]
  <2>1. x \in [1..NumKeys -> {0, 3, 4}]
    BY <1>1, TypeFacts
  <2>2. Removed(mem, k) = [mem EXCEPT !.keys = x]
    BY DEF Removed
  <2>. HIDE DEF x
  <2>3. /\ Removed(mem, k) \in Database /\ Removed(mem, k).keys = x
        /\ Removed(mem, k).version = mem.version /\ same(Removed(mem, k))
    BY <1>1, <2>1, <2>2 DEF Database
  <2>. QED
    BY <2>3 DEF x
<1>7. /\ KeyMetadata(mem, k) \in Database /\ KeyMetadata(mem, k).keys = [mem.keys EXCEPT ![k] = 4]
      /\ KeyMetadata(mem, k).version = 4 /\ same(KeyMetadata(mem, k))
  <2>. DEFINE x == Rewritten(mem, k)
  <2>1. x \in Database /\ x.keys = [mem.keys EXCEPT ![k] = 4] /\ same(x)
    BY <1>5
  <2>2. KeyMetadata(mem, k) = [x EXCEPT !.version = 4]
    BY DEF KeyMetadata
  <2>. HIDE DEF x
  <2>. QED
    BY <2>1, <2>2 DEF Database
<1>8. CASE KindOf[k] = "metadata"
  <2>1. Target(k) = 4 /\ db = KeyMetadata(mem, k)
    BY <1>2, <1>8, ZenonT(40) DEF Target, Unknown, KeyFunc
  <2>. QED
    BY <1>7, <1>8, <2>1, ZenonT(40) DEF k
<1>9. CASE KindOf[k] # "metadata"
  <2>1. /\ k \in Unknown => Target(k) = 0
        /\ k \notin Unknown => Target(k) = 4
    BY <1>2 DEF Target
  <2>2. db = IF k \in Unknown THEN Removed(mem, k) ELSE Rewritten(mem, k)
    <3>1. CASE KindOf[k] = "roots"
      <4>1. k \in Unknown <=> k \in Stale
        BY <3>1 DEF Unknown
      <4>2. db = KeyRootsMetadata(mem, k)
        BY <3>1 DEF KeyFunc
      <4>. QED
        BY <4>1, <4>2, ZenonT(40) DEF KeyRootsMetadata
    <3>2. CASE KindOf[k] = "log"
      <4>1. k \in Unknown <=> RootKey[k] \in Stale
        BY <1>1, <1>2, <3>2 DEF Unknown
      <4>2. db = KeyWriteLog(mem, k)
        BY <3>2 DEF KeyFunc
      <4>. QED
        BY <1>3, <3>2, <4>1, <4>2, ZenonT(40) DEF KeyWriteLog
    <3>3. CASE KindOf[k] \in {"updated", "multipart"}
      <4>1. k \notin Unknown
        BY <1>2, <3>3 DEF Unknown
      <4>2. db = Rewritten(mem, k)
        BY <3>3 DEF KeyFunc, KeyRootUpdatedNodes, KeyMultipartRestoreNodeLog
      <4>. QED
        BY <4>1, <4>2, ZenonT(40)
    <3>. QED
      BY <1>2, <1>9, <3>1, <3>2, <3>3
  <2>3. CASE k \in Unknown
    BY <1>6, <1>9, <2>1, <2>2, <2>3, ZenonT(40) DEF k
  <2>4. CASE k \notin Unknown
    BY <1>5, <1>9, <2>1, <2>2, <2>4, ZenonT(40) DEF k
  <2>. QED
    BY <2>3, <2>4
<1>. QED
  BY <1>8, <1>9

(* One more key is in its final format.                                       *)
LEMMA KeysNext ==
  ASSUME Base = 3, NEW j \in Nat, j + 1 \in 1..NumKeys, NumKeys \in Nat, NEW a, NEW b, KeysAt(a, j),
         b.keys = [a.keys EXCEPT ![j + 1] = Target(j + 1)]
  PROVE  KeysAt(b, j + 1)
<1>. DEFINE x(i, n) == IF Base = 3 /\ i > n THEN 3 ELSE Target(i)
<1>1. a.keys = [i \in 1..NumKeys |-> x(i, j)]
  BY DEF KeysAt
<1>2. ASSUME NEW i \in 1..NumKeys PROVE [a.keys EXCEPT ![j + 1] = Target(j + 1)][i] = x(i, j + 1)
  BY <1>1
<1>3. DOMAIN b.keys = 1..NumKeys
  BY <1>1
<1>4. b.keys = [i \in 1..NumKeys |-> x(i, j + 1)]
  BY <1>1, <1>2, Zenon
<1>. QED
  BY <1>4 DEF KeysAt

(* A key is rewritten or removed.                                             *)
LEMMA MMigrateKey == ASSUME MigrationSettings, MInv, MigrateKey PROVE MInv'
<1>. DEFINE j == m.meta.lastKey
            k == j + 1
            g == [m EXCEPT !.meta.lastKey = k]
            db == KeyFunc(mem, k)
            end == k \in KindEnds
<1>1. MType /\ m.pc = "keys" /\ InKeys /\ k <= NumKeys
  BY DEF MInv, MigrateKey
<1>2. j \in Nat /\ k \in 1..NumKeys /\ j < NumKeys /\ k \in Nat
  BY <1>1, MigratorFacts, SettingFacts, SMTT(40) DEF MType
<1>3. ~(KindOf[k] = "updated" /\ ~Typed(k))
  BY <1>1, <1>2, TypeIsKnown DEF MigrationSettings
<1>4. Flush(db, g, end, FALSE) /\ snap' = NewTransaction(k)
  BY <1>1, <1>3, ZenonT(40) DEF MigrateKey
<1>5. /\ db \in Database /\ db.keys = [mem.keys EXCEPT ![k] = Target(k)]
      /\ db.version = (IF KindOf[k] = "metadata" THEN 4 ELSE mem.version)
      /\ db.roots = mem.roots /\ db.logs = mem.logs /\ db.old = mem.old /\ db.new = mem.new
  BY <1>1, <1>2, KeyFacts
<1>6. /\ g \in Migrator /\ g.pc = "keys" /\ g.meta.base = m.meta.base /\ g.meta.lastKey = k
      /\ g.meta.migrated = m.meta.migrated /\ g.meta.pruned = m.meta.pruned
  BY <1>1, <1>2 DEF MType, Migrator, Meta
<1>7. end \in BOOLEAN
  OBVIOUS
<1>8. /\ Base = 3 /\ DiskKeys /\ m.meta.base = 3 /\ NoTrees(m.meta) /\ KeysAt(mem, j) /\ Trees(mem, m.meta)
      /\ Readable(mem, m.meta.migrated) /\ mem.version = (IF j = 0 THEN 3 ELSE 4)
  BY <1>1 DEF InKeys, DiskKeys
<1>9. KeysAt(db, k)
  BY <1>2, <1>5, <1>8, KeysNext, SettingFacts, ZenonT(40)
<1>10. db.version = 4
  BY <1>2, <1>5, <1>8 DEF MigrationSettings
<1>11. NoTrees(g.meta) /\ Trees(db, g.meta) /\ Readable(db, g.meta.migrated)
  <2>1. Trees(db, g.meta)
    BY <1>5, <1>6, <1>8, TreesSame
  <2>. QED
    BY <1>5, <1>6, <1>8, <2>1, ZenonT(40) DEF NoTrees, Readable
<1>. HIDE DEF db, g, end
<1>12. /\ m' \in Migrator /\ m'.pc = "keys" /\ m'.meta = g.meta
       /\ \/ disk' = Progress(db, g, FALSE) /\ mem' = disk'
          \/ disk' = disk /\ mem' = db /\ ~end
  BY <1>4, <1>5, <1>6, <1>7, FlushFacts, ZenonT(40)
<1>. DEFINE ok(d) == d \in Database /\ KeysAt(d, k) /\ d.version = 4 /\ Trees(d, g.meta) /\ Readable(d, g.meta.migrated)
<1>13. ok(db)
  BY <1>5, <1>9, <1>10, <1>11
<1>14. ok(Progress(db, g, FALSE)) /\ Progress(db, g, FALSE).meta = g.meta
  <2>. DEFINE p == Progress(db, g, FALSE)
  <2>1. /\ p \in Database /\ p.meta = g.meta /\ p.version = db.version /\ p.keys = db.keys /\ p.roots = db.roots
        /\ p.logs = db.logs /\ p.old = db.old /\ p.new = db.new
    BY <1>5, <1>6, ProgressFacts, ZenonT(40)
  <2>. HIDE DEF p
  <2>2. Trees(p, g.meta)
    BY <2>1, <1>13, TreesSame
  <2>3. ok(p)
    BY <2>1, <2>2, <1>13, ZenonT(40) DEF KeysAt, Readable
  <2>. QED
    BY <2>1, <2>3, ZenonT(40) DEF p
<1>15. ok(mem') /\ mem' \in Database
  BY <1>12, <1>13, <1>14, ZenonT(40)
<1>16. DiskKeys' /\ disk' \in Database /\ (end => ok(disk'))
  <2>1. CASE disk' = disk /\ ~end
    BY <1>1, <1>8, <2>1, ZenonT(40) DEF DiskKeys, MType
  <2>2. CASE disk' = Progress(db, g, FALSE)
    <3>1. ok(disk') /\ disk'.meta = g.meta
      BY <1>14, <2>2, ZenonT(40)
    <3>2. disk'.meta.lastKey = k /\ k # 0 /\ disk'.meta.base = 3
      BY <1>2, <1>6, <1>8, <3>1
    <3>3. NoTrees(disk'.meta)
      BY <1>11, <3>1, ZenonT(40)
    <3>4. disk'.version = 4 /\ KeysAt(disk', disk'.meta.lastKey) /\ Trees(disk', disk'.meta) /\ Readable(disk', disk'.meta.migrated)
      BY <3>1, <3>2, ZenonT(40)
    <3>5. DiskKeys'
      BY <1>8, <3>2, <3>3, <3>4, ZenonT(40) DEF DiskKeys, NoTrees, KeysAt, Trees, Readable
    <3>. QED
      BY <3>1, <3>5
  <2>. QED
    BY <1>12, <2>1, <2>2, ZenonT(40)
<1>17. ASSUME NEW i \in 1..k, k < NumKeys, KindOf[i] # KindOf[k + 1] PROVE snap'.keys[i] = Target(i)
  <2>1. CASE end
    <3>1. snap' = disk' /\ KeysAt(disk', k)
      BY <1>4, <1>16, <2>1, ZenonT(40) DEF NewTransaction, end
    <3>2. i \in 1..NumKeys /\ ~(i > k)
      BY <1>2, <1>17, SettingFacts, SMTT(40)
    <3>. QED
      BY <3>1, <3>2, ZenonT(40) DEF KeysAt
  <2>2. CASE ~end
    <3>1. snap' = snap
      BY <1>4, <2>2, ZenonT(40) DEF NewTransaction, end
    <3>2. KindOf[k + 1] = KindOf[k]
      BY <1>2, <1>17, <2>2 DEF KindEnds, end
    <3>3. i \in 1..j /\ KindOf[i] # KindOf[j + 1]
      BY <1>2, <1>17, <3>2
    <3>. QED
      BY <1>1, <1>2, <3>1, <3>3, ZenonT(40) DEF InKeys
  <2>. QED
    BY <2>1, <2>2
<1>18. snap' \in Database
  BY <1>1, <1>4, <1>16, ZenonT(40) DEF NewTransaction, MType
<1>19. m'.meta.lastKey = k /\ k # 0 /\ m'.meta.base = 3
  BY <1>2, <1>6, <1>8, <1>12
<1>20. InKeys'
  <2>1. mem'.version = 4 /\ KeysAt(mem', m'.meta.lastKey) /\ Trees(mem', m'.meta) /\ Readable(mem', m'.meta.migrated)
    BY <1>12, <1>15, <1>19, ZenonT(40)
  <2>2. NoTrees(m'.meta)
    BY <1>11, <1>12, ZenonT(40)
  <2>3. \A i \in 1..m'.meta.lastKey :
          m'.meta.lastKey < NumKeys /\ KindOf[i] # KindOf[m'.meta.lastKey + 1] => snap'.keys[i] = Target(i)
    BY <1>17, <1>19, ZenonT(40)
  <2>. QED
    BY <1>16, <1>19, <2>1, <2>2, <2>3, ZenonT(40) DEF InKeys, NoTrees, KeysAt, Trees, Readable, Target
<1>21. MType'
  BY <1>12, <1>15, <1>16, <1>18, ZenonT(40) DEF MType
<1>. QED
  BY <1>12, <1>16, <1>20, <1>21 DEF MInv

(* The first migration ends: the database is in format 4.                     *)
LEMMA MKeysDone == ASSUME MigrationSettings, MInv, KeysDone PROVE MInv'
<1>. DEFINE g == [m EXCEPT !.pc = "probe"]
            p == Progress(mem, g, TRUE)
<1>1. /\ MType /\ InKeys /\ m.meta.lastKey = NumKeys /\ Flush(mem, g, TRUE, TRUE) /\ snap' = snap
      /\ mem \in Database /\ disk \in Database /\ m \in Migrator
  BY ZenonT(40) DEF MInv, MType, KeysDone
<1>2. g \in Migrator /\ g.pc = "probe"
  BY <1>1 DEF Migrator
<1>. HIDE DEF g
<1>3. m' \in Migrator /\ m'.pc = "probe" /\ disk' = p /\ mem' = disk'
  BY <1>1, <1>2, FlushFacts, ZenonT(40)
<1>4. /\ p \in Database /\ p.meta = NoMeta /\ p.version = mem.version /\ p.keys = mem.keys /\ p.roots = mem.roots
      /\ p.logs = mem.logs /\ p.old = mem.old /\ p.new = mem.new
  BY <1>1, <1>2, ProgressFacts, ZenonT(40)
<1>. HIDE DEF p
<1>5. /\ NumKeys # 0 /\ mem.version = 4 /\ KeysAt(mem, NumKeys) /\ Trees(mem, m.meta) /\ Readable(mem, LastVersion + 1)
      /\ m.meta.migrated = LastVersion + 1 /\ m.meta.pruned = FirstKept
  BY <1>1, SettingFacts DEF InKeys, NoTrees
<1>6. NoMeta.migrated = LastVersion + 1 /\ NoMeta.pruned = FirstKept
  BY DEF NoMeta
<1>7. Trees(p, NoMeta)
  BY <1>4, <1>5, <1>6, TreesSame
<1>8. p.version = 4 /\ KeysAt(p, NumKeys) /\ Readable(p, NoMeta.migrated)
  BY <1>4, <1>5, <1>6, ZenonT(40) DEF KeysAt, Readable
<1>9. DiskTrees'
  BY <1>3, <1>4, <1>6, <1>7, <1>8, ZenonT(40) DEF DiskTrees, KeysAt, Trees, Readable
<1>10. MType'
  BY <1>1, <1>3, <1>4, ZenonT(40) DEF MType
<1>. QED
  BY <1>3, <1>9, <1>10 DEF MInv

(* A new read transaction sees what the versions to come need.                 *)
LEMMA SnapshotReads ==
  ASSUME MigrationSettings, MType, InTrees
  PROVE  /\ Readable(disk, m.meta.migrated)
         /\ \A v \in KeptVersions : v < m.meta.migrated => disk.roots[v] = 4
<1>1. m.meta.migrated \in Int /\ disk.meta.migrated \in Int /\ m.meta.migrated <= disk.meta.migrated
  BY SettingFacts, MigratorFacts, TypeFacts, SMTT(40) DEF MType, InTrees
<1>2. \A v \in KeptVersions : v < m.meta.migrated => v < disk.meta.migrated
  BY <1>1, SettingFacts, SMTT(40)
<1>. QED
  BY <1>2, ZenonT(40) DEF InTrees, DiskTrees, Readable, Trees

(* The second one begins.                                                     *)
LEMMA MStartV5 == ASSUME MigrationSettings, MInv, StartV5 PROVE MInv'
<1>1. /\ MType /\ InTrees /\ m.pc = "meta" /\ disk' = disk /\ snap' = disk
      /\ mem' = [mem EXCEPT !.version = 5] /\ m' = [m EXCEPT !.pc = "versions"]
  BY DEF MInv, StartV5
<1>2. /\ mem' \in Database /\ mem'.version = 5 /\ mem'.keys = mem.keys /\ mem'.roots = mem.roots
      /\ mem'.logs = mem.logs /\ mem'.old = mem.old /\ mem'.new = mem.new
  BY <1>1, SMTT(40) DEF MType, Database
<1>3. m' \in Migrator /\ m'.pc = "versions" /\ m'.meta = m.meta /\ m'.remain = m.remain
  BY <1>1 DEF MType, Migrator
<1>4. DiskTrees'
  BY <1>1, ZenonT(40) DEF InTrees, DiskTrees
<1>5. /\ Trees(mem', m.meta) /\ KeysAt(mem', NumKeys) /\ (Spread => Batch') /\ (~Spread => Unflushed')
  <2>1. Trees(mem', m.meta)
    BY <1>1, <1>2, TreesSame, ZenonT(90) DEF InTrees
  <2>2. (Spread => Batch') /\ (~Spread => Unflushed')
    BY <1>1, <1>2, <1>3, ZenonT(40) DEF InTrees, Batch, Unflushed
  <2>. QED
    BY <1>1, <1>2, <2>1, <2>2, ZenonT(40) DEF InTrees, KeysAt
<1>6. InTrees'
  BY <1>1, <1>2, <1>3, <1>4, <1>5, SnapshotReads, ZenonT(40) DEF InTrees, Readable, KeysAt, Trees
<1>7. MType'
  BY <1>1, <1>2, <1>3, ZenonT(40) DEF MType
<1>. QED
  BY <1>3, <1>4, <1>6, <1>7 DEF MInv

(* Replaced nodes are deleted, one batch late.                                *)
LEMMA MDeletePending == ASSUME MigrationSettings, MInv, DeletePending PROVE MInv'
<1>1. /\ MType /\ InTrees /\ m.pc = "delete" /\ disk' = disk /\ snap' = disk
      /\ mem' = [mem EXCEPT !.old = @ \ m.dels] /\ m' = [m EXCEPT !.dels = {}, !.pc = "versions"]
  BY DEF MInv, DeletePending
<1>2. /\ mem' \in Database /\ mem'.version = mem.version /\ mem'.keys = mem.keys /\ mem'.roots = mem.roots
      /\ mem'.logs = mem.logs /\ mem'.old = mem.old \ m.dels /\ mem'.new = mem.new
  BY <1>1, SMTT(40) DEF MType, Database
<1>3. m' \in Migrator /\ m'.pc = "versions" /\ m'.meta = m.meta /\ m'.remain = m.remain
  BY <1>1, ZenonT(40) DEF MType, Migrator
<1>4. DiskTrees'
  BY <1>1, ZenonT(40) DEF InTrees, DiskTrees
<1>5. Spread => Batch'
  <2>1. SUFFICES ASSUME Spread, NEW v \in KeptVersions, v + 2 <= m.meta.migrated PROVE NodesOf[v] \subseteq mem'.old
    BY <1>3 DEF Batch
  <2>2. NodesOf[v] \subseteq mem.old /\ m.dels = NodesOf[m.meta.migrated]
    BY <1>1, <2>1 DEF InTrees, Batch
  <2>3. m.meta.migrated \in KeptVersions
    BY <1>1, SettingFacts, MigratorFacts DEF MType, InTrees
  <2>4. NodesOf[v] \cap NodesOf[m.meta.migrated] = {}
    BY <2>1, <2>3, ZenonT(40) DEF Spread
  <2>. QED
    BY <1>2, <2>2, <2>4, ZenonT(40)
<1>6. /\ Trees(mem', m.meta) /\ KeysAt(mem', NumKeys) /\ (~Spread => Unflushed')
  <2>1. Trees(mem', m.meta)
    BY <1>1, <1>2, TreesSame, ZenonT(90) DEF InTrees
  <2>2. ~Spread => Unflushed'
    BY <1>1, <1>2, <1>3, ZenonT(40) DEF InTrees, Unflushed
  <2>. QED
    BY <1>1, <1>2, <2>1, <2>2, ZenonT(40) DEF InTrees, KeysAt
<1>7. InTrees'
  BY <1>1, <1>2, <1>3, <1>4, <1>5, <1>6, SnapshotReads, ZenonT(40) DEF InTrees, Readable, KeysAt, Trees
<1>8. MType'
  BY <1>1, <1>2, <1>3, ZenonT(40) DEF MType
<1>. QED
  BY <1>3, <1>4, <1>7, <1>8 DEF MInv

(* What migrateVersion puts into the batch.                                    *)
LEMMA VersionFacts ==
  ASSUME MigrationSettings, NEW db \in Database, NEW v \in KeptVersions
  PROVE  LET logs == {u \in Versions : u = v + 1}
             x == [MigrateNode(db, v) EXCEPT !.roots[v] = 5,
                                             !.logs = [u \in Versions |-> IF u \in logs THEN 5 ELSE @[u]]]
         IN  /\ x \in Database /\ x.version = db.version /\ x.keys = db.keys /\ x.old = db.old
             /\ x.new = db.new \cup NodesOf[v] /\ x.roots = [db.roots EXCEPT ![v] = 5]
             /\ x.logs = [u \in Versions |-> IF u \in logs THEN 5 ELSE db.logs[u]]
<1>. DEFINE logs == {u \in Versions : u = v + 1}
            l == [u \in Versions |-> IF u \in logs THEN 5 ELSE db.logs[u]]
            r == [db.roots EXCEPT ![v] = 5]
            n == db.new \cup NodesOf[v]
            y == MigrateNode(db, v)
<1>1. v \in Versions /\ NodesOf[v] \subseteq AllNodes
  BY SettingFacts, ZenonT(40) DEF AllNodes
<1>2. r \in [Versions -> {0, 4, 5}] /\ l \in [Versions -> {0, 4, 5}] /\ n \subseteq AllNodes
  BY <1>1, TypeFacts
<1>3. y = [db EXCEPT !.new = n]
  BY DEF MigrateNode
<1>4. y.logs = db.logs /\ y.roots = db.roots
  BY <1>3 DEF Database
<1>5. [y EXCEPT !.roots[v] = 5, !.logs = [u \in Versions |-> IF u \in logs THEN 5 ELSE @[u]]]
        = [[y EXCEPT !.roots = [y.roots EXCEPT ![v] = 5]] EXCEPT !.logs = [u \in Versions |-> IF u \in logs THEN 5 ELSE y.logs[u]]]
  BY <1>3 DEF Database
<1>6. [y EXCEPT !.roots[v] = 5, !.logs = [u \in Versions |-> IF u \in logs THEN 5 ELSE @[u]]]
        = [[y EXCEPT !.roots = r] EXCEPT !.logs = l]
  BY <1>4, <1>5, ZenonT(40)
<1>. HIDE DEF l, r, n, logs
<1>7. LET x == [[y EXCEPT !.roots = r] EXCEPT !.logs = l]
      IN  /\ x \in Database /\ x.version = db.version /\ x.keys = db.keys /\ x.old = db.old
          /\ x.new = n /\ x.roots = r /\ x.logs = l
  <2>1. y \in Database /\ y.version = db.version /\ y.keys = db.keys /\ y.old = db.old /\ y.new = n
    BY <1>2, <1>3 DEF Database
  <2>. HIDE DEF y
  <2>. DEFINE a == [y EXCEPT !.roots = r]
  <2>2. a \in Database /\ a.version = y.version /\ a.keys = y.keys /\ a.old = y.old /\ a.new = y.new /\ a.roots = r
    BY <1>2, <2>1 DEF Database
  <2>. HIDE DEF a
  <2>. DEFINE x == [a EXCEPT !.logs = l]
  <2>3. /\ x \in Database /\ x.version = a.version /\ x.keys = a.keys /\ x.old = a.old /\ x.new = a.new
        /\ x.roots = a.roots /\ x.logs = l
    BY <1>2, <2>2 DEF Database
  <2>. QED
    BY <2>1, <2>2, <2>3, ZenonT(40) DEF a
<1>. QED
  BY <1>6, <1>7, ZenonT(40) DEF l, r, n, logs

(* A version is migrated: it is readable, and a flush keeps the next one so.  *)
LEMMA MMigrateVersion == ASSUME MigrationSettings, MInv, MigrateVersion PROVE MInv'
<1>. DEFINE t == m.meta.migrated
            v == t - 1
            logs == {u \in Versions : u = v + 1}
            db == [MigrateNode(mem, v) EXCEPT !.roots[v] = 5,
                                              !.logs = [u \in Versions |-> IF u \in logs THEN 5 ELSE @[u]]]
            g == [m EXCEPT !.meta.migrated = v, !.dels = NodesOf[v], !.pc = "delete"]
<1>1. MType /\ InTrees /\ m.pc = "versions" /\ v >= FirstKept /\ snap' = snap
  BY DEF MInv, MigrateVersion
<1>2. /\ t \in FirstKept..(LastVersion + 1) /\ v \in KeptVersions /\ v \in Int /\ t = v + 1 /\ v < t /\ v \in FirstKept..(LastVersion + 1)
      /\ v <= LastVersion /\ NodesOf[v] \subseteq AllNodes
  <2>1. t \in FirstKept..(LastVersion + 1)
    BY <1>1, MigratorFacts DEF MType
  <2>2. /\ v \in KeptVersions /\ v \in Int /\ t = v + 1 /\ v < t /\ v \in FirstKept..(LastVersion + 1) /\ v <= LastVersion
    BY <1>1, <2>1, SettingFacts, SMTT(40)
  <2>. QED
    BY <2>1, <2>2, SettingFacts, ZenonT(40) DEF AllNodes
<1>3. ~Unreadable(v)
  BY <1>1, <1>2, ZenonT(40) DEF InTrees, Readable, Unreadable
<1>4. Flush(db, g, FALSE, FALSE)
  BY <1>1, <1>3, ZenonT(40) DEF MigrateVersion
<1>5. /\ db \in Database /\ db.version = mem.version /\ db.keys = mem.keys /\ db.old = mem.old
      /\ db.new = mem.new \cup NodesOf[v] /\ db.roots = [mem.roots EXCEPT ![v] = 5]
      /\ db.logs = [u \in Versions |-> IF u \in logs THEN 5 ELSE mem.logs[u]]
  BY <1>1, <1>2, VersionFacts, ZenonT(40) DEF MType
<1>6. /\ g \in Migrator /\ g.pc = "delete" /\ g.meta.base = m.meta.base /\ g.meta.lastKey = m.meta.lastKey
      /\ g.meta.migrated = v /\ g.meta.pruned = m.meta.pruned /\ g.dels = NodesOf[v] /\ g.remain = m.remain
  <2>. DEFINE a == [m.meta EXCEPT !.migrated = v]
  <2>1. m.meta \in Meta /\ m \in Migrator
    BY <1>1, MigratorFacts DEF MType
  <2>2. /\ a \in Meta /\ a.base = m.meta.base /\ a.lastKey = m.meta.lastKey /\ a.migrated = v
        /\ a.pruned = m.meta.pruned
    BY <1>2, <2>1 DEF Meta
  <2>3. g = [m EXCEPT !.meta = a, !.dels = NodesOf[v], !.pc = "delete"]
    BY <2>1 DEF Migrator
  <2>. HIDE DEF a, g
  <2>4. g \in Migrator /\ g.pc = "delete" /\ g.meta = a /\ g.dels = NodesOf[v] /\ g.remain = m.remain
    <3>. DEFINE n == NodesOf[v]
    <3>1. n \subseteq AllNodes /\ g = [m EXCEPT !.meta = a, !.dels = n, !.pc = "delete"]
      BY <1>2, <2>3
    <3>. HIDE DEF n
    <3>2. g \in Migrator /\ g.pc = "delete" /\ g.meta = a /\ g.dels = n /\ g.remain = m.remain
      <4>1. a \in Meta /\ m \in Migrator
        BY <2>1, <2>2
      <4>. QED
        <5>. DEFINE b == [m EXCEPT !.meta = a]
                    c == [b EXCEPT !.dels = n]
        <5>1. b \in Migrator /\ b.meta = a /\ b.remain = m.remain
          BY <4>1 DEF Migrator
        <5>. HIDE DEF b
        <5>2. c \in Migrator /\ c.meta = a /\ c.remain = m.remain /\ c.dels = n
          BY <3>1, <5>1 DEF Migrator
        <5>3. g = [c EXCEPT !.pc = "delete"]
          BY <3>1, ZenonT(40) DEF b
        <5>. HIDE DEF c
        <5>. QED
          BY <5>2, <5>3 DEF Migrator
    <3>. QED
      BY <3>2 DEF n
  <2>. QED
    BY <2>2, <2>4
<1>. HIDE DEF db, g
<1>7. /\ DiskTrees /\ KeysAt(mem, NumKeys) /\ Trees(mem, m.meta) /\ mem.version = 5 /\ m.meta.base = 4
      /\ (Spread => Batch) /\ (~Spread => Unflushed) /\ t <= disk.meta.migrated
      /\ mem \in Database /\ disk \in Database /\ snap \in Database /\ m \in Migrator
  BY <1>1 DEF InTrees, MType
<1>8. Trees(db, g.meta)
  <2>. DEFINE pr == m.meta.pruned
  <2>1. pr = FirstKept /\ mem.roots \in [Versions -> {0, 4, 5}]
    <3>1. pr \in 0..FirstKept /\ mem.roots \in [Versions -> {0, 4, 5}]
      BY <1>7, MigratorFacts, TypeFacts
    <3>2. pr < FirstKept => t = FirstKept
      BY <1>7 DEF Trees
    <3>. HIDE DEF pr
    <3>. QED
      BY <1>1, <1>2, <3>1, <3>2, SettingFacts, SMTT(40)
  <2>2. ASSUME NEW u \in KeptVersions
        PROVE  /\ u < v => db.roots[u] = 4
               /\ v <= u => db.roots[u] = 5 /\ NodesOf[u] \subseteq db.new
               /\ v < u => db.logs[u] = 5
    <3>1. /\ u < t => mem.roots[u] = 4
          /\ t <= u => mem.roots[u] = 5 /\ NodesOf[u] \subseteq mem.new
          /\ t < u => mem.logs[u] = 5
      BY <1>7, ZenonT(40) DEF Trees
    <3>2. u \in Versions /\ u \in Int
      BY SettingFacts
    <3>3. db.roots[u] = (IF u = v THEN 5 ELSE mem.roots[u]) /\ db.logs[u] = (IF u = v + 1 THEN 5 ELSE mem.logs[u])
      BY <1>5, <2>1, <3>2, ZenonT(40)
    <3>. HIDE DEF t, v
    <3>4. /\ u < v => u # v /\ u < t
          /\ v < u => u # v /\ t <= u /\ (u = v + 1 \/ t < u)
          /\ v <= u => u = v \/ v < u
      BY <1>2, <3>2
    <3>5. u < v => db.roots[u] = 4
      BY <3>1, <3>3, <3>4, ZenonT(40)
    <3>6. v < u => db.roots[u] = 5 /\ NodesOf[u] \subseteq db.new /\ db.logs[u] = 5
      BY <1>5, <3>1, <3>3, <3>4, ZenonT(40)
    <3>7. u = v => db.roots[u] = 5 /\ NodesOf[u] \subseteq db.new
      BY <1>5, <3>3, ZenonT(40)
    <3>. QED
      BY <3>4, <3>5, <3>6, <3>7, ZenonT(40)
  <2>3. \A u \in 0..(FirstKept - 1) : ~(g.meta.pruned <= u)
    BY <1>6, <2>1, SettingFacts
  <2>4. ~(g.meta.pruned < FirstKept)
    BY <1>6, <2>1, SettingFacts
  <2>. QED
    BY <1>6, <2>2, <2>3, <2>4, ZenonT(40) DEF Trees
<1>9. ASSUME Spread, NEW u \in KeptVersions, u < v PROVE NodesOf[u] \subseteq db.old
  <2>1. u + 2 <= t
    BY <1>2, <1>9, SettingFacts, SMTT(40)
  <2>. QED
    BY <1>5, <1>7, <1>9, <2>1, ZenonT(40) DEF Batch
<1>10. /\ m' \in Migrator /\ m'.pc = "delete" /\ m'.dels = g.dels /\ m'.meta = g.meta
       /\ \/ disk' = Progress(db, g, FALSE) /\ mem' = disk' /\ g.remain = 0
          \/ disk' = disk /\ mem' = db /\ m'.remain = g.remain - 1
  BY <1>4, <1>5, <1>6, FlushFacts, ZenonT(40)
<1>11. g.remain = 0 => Spread
  <2>1. t > FirstKept
    BY <1>1, <1>2, SettingFacts, SMTT(40)
  <2>2. ~Spread => m.remain + LastVersion + 1 = flushInterval + t /\ LastVersion - FirstKept < flushInterval
    BY <1>7, <2>1 DEF Unflushed, MigrationSettings
  <2>. HIDE DEF t
  <2>. QED
    BY <1>2, <1>6, <2>1, <2>2, SettingFacts
<1>. DEFINE ok(d) == /\ d \in Database /\ KeysAt(d, NumKeys) /\ d.version = 5 /\ Trees(d, g.meta) /\ d.old = mem.old
<1>12. ok(db)
  BY <1>5, <1>7, <1>8, ZenonT(40) DEF KeysAt
<1>13. ok(Progress(db, g, FALSE)) /\ Progress(db, g, FALSE).meta = g.meta
  <2>. DEFINE p == Progress(db, g, FALSE)
  <2>1. /\ p \in Database /\ p.meta = g.meta /\ p.version = db.version /\ p.keys = db.keys /\ p.roots = db.roots
        /\ p.logs = db.logs /\ p.old = db.old /\ p.new = db.new
    BY <1>5, <1>6, ProgressFacts, ZenonT(40)
  <2>. HIDE DEF p
  <2>2. Trees(p, g.meta)
    BY <2>1, <1>12, TreesSame
  <2>3. ok(p)
    BY <2>1, <2>2, <1>12, ZenonT(40) DEF KeysAt
  <2>. QED
    BY <2>1, <2>3, ZenonT(40) DEF p
<1>14. ok(mem')
  BY <1>10, <1>12, <1>13, ZenonT(40)
<1>15. DiskTrees' /\ disk' \in Database /\ v <= disk'.meta.migrated
  <2>1. CASE disk' = disk
    <3>1. v <= disk.meta.migrated
      BY <1>2, <1>7, TypeFacts, SettingFacts, SMTT(40)
    <3>. QED
      BY <1>7, <2>1, <3>1, ZenonT(40) DEF DiskTrees
  <2>2. CASE disk' = Progress(db, g, FALSE) /\ g.remain = 0
    <3>1. ok(disk') /\ disk'.meta = g.meta /\ disk'.meta.base = 4 /\ disk'.meta.migrated = v
      BY <1>6, <1>7, <1>13, <2>2, ZenonT(40)
    <3>2. Spread
      BY <1>11, <2>2, Zenon
    <3>3. disk'.old = db.old
      BY <1>5, <3>1
    <3>4. Readable(disk', disk'.meta.migrated)
      BY <1>9, <3>1, <3>2, <3>3, ZenonT(40) DEF Readable
    <3>5. DiskTrees'
      BY <3>1, <3>2, <3>4, ZenonT(40) DEF DiskTrees, KeysAt, Trees, Readable
    <3>6. v <= v
      BY <1>2
    <3>. QED
      BY <3>1, <3>5, <3>6
  <2>. QED
    BY <1>10, <2>1, <2>2, ZenonT(40)
<1>16. Spread => Batch'
  <2>1. SUFFICES ASSUME Spread, NEW u \in KeptVersions, u + 2 <= v PROVE NodesOf[u] \subseteq mem'.old
    BY <1>6, <1>10, ZenonT(40) DEF Batch
  <2>2. u < v
    BY <1>2, <2>1, SettingFacts, SMTT(40)
  <2>. QED
    BY <1>5, <1>9, <1>14, <2>1, <2>2, ZenonT(40)
<1>17. ~Spread => Unflushed'
  <2>1. SUFFICES ASSUME ~Spread, v > FirstKept
                 PROVE  disk'.meta.migrated = LastVersion + 1 /\ m'.remain + LastVersion + 1 = flushInterval + v
    BY <1>6, <1>10 DEF Unflushed
  <2>2. disk' = disk /\ m'.remain = m.remain - 1
    BY <1>6, <1>10, <1>11, <2>1, ZenonT(40)
  <2>3. disk.meta.migrated = LastVersion + 1 /\ m.remain + LastVersion + 1 = flushInterval + t
    <3>1. t > FirstKept
      BY <1>1, <1>2, SettingFacts
    <3>. QED
      BY <1>7, <2>1, <3>1 DEF Unflushed
  <2>4. m.remain \in Int
    BY <1>7, MigratorFacts, SettingFacts
  <2>. HIDE DEF t, v
  <2>. QED
    <3>1. disk'.meta.migrated = LastVersion + 1
      BY <2>2, <2>3, ZenonT(40)
    <3>2. (m.remain - 1) + LastVersion + 1 = flushInterval + v
      <4>1. t \in Int /\ v \in Int /\ t = v + 1 /\ LastVersion \in Nat /\ flushInterval \in Nat
        BY <1>2, SettingFacts
      <4>. QED
        <5>1. ASSUME NEW y \in Int, y + LastVersion + 1 = flushInterval + t
              PROVE  (y - 1) + LastVersion + 1 = flushInterval + v
          BY <4>1, <5>1
        <5>. QED
          BY <2>3, <2>4, <5>1, ZenonT(40)
    <3>. QED
      BY <2>2, <3>1, <3>2, ZenonT(40)
<1>18. InTrees'
  <2>1. m'.meta.base = 4 /\ m'.meta.migrated = v /\ m'.dels = NodesOf[v] /\ Trees(mem', m'.meta)
    BY <1>6, <1>7, <1>10, <1>14, ZenonT(40)
  <2>. QED
    BY <1>2, <1>10, <1>14, <1>15, <1>16, <1>17, <2>1, ZenonT(40) DEF InTrees, KeysAt, Trees
<1>19. MType'
  BY <1>1, <1>7, <1>10, <1>14, <1>15, ZenonT(40) DEF MType
<1>. QED
  BY <1>10, <1>15, <1>18, <1>19 DEF MInv

(* The write logs that lead to the first kept version go.                     *)
LEMMA MPruneLogs == ASSUME MigrationSettings, MInv, PruneLogs PROVE MInv'
<1>. DEFINE l == [mem.logs EXCEPT ![FirstKept] = 0]
<1>1. /\ MType /\ InTrees /\ m.pc = "versions" /\ m.meta.migrated = FirstKept /\ disk' = disk /\ snap' = snap
      /\ mem' = [mem EXCEPT !.logs[FirstKept] = 0] /\ m' = [m EXCEPT !.pc = "prune"]
      /\ mem \in Database /\ m \in Migrator
  BY DEF MInv, MType, PruneLogs
<1>2. mem' = [mem EXCEPT !.logs = l]
  BY <1>1
<1>3. FirstKept \in Versions /\ l \in [Versions -> {0, 4, 5}] /\ \A v \in Versions : v # FirstKept => l[v] = mem.logs[v]
  BY <1>1, SettingFacts, TypeFacts
<1>. HIDE DEF l
<1>4. /\ mem' \in Database /\ mem'.version = mem.version /\ mem'.keys = mem.keys /\ mem'.roots = mem.roots
      /\ mem'.logs = l /\ mem'.old = mem.old /\ mem'.new = mem.new
  BY <1>1, <1>2, <1>3 DEF Database
<1>5. m' \in Migrator /\ m'.pc = "prune" /\ m'.meta = m.meta
  BY <1>1 DEF Migrator
<1>6. Trees(mem', m.meta)
  <2>1. /\ \A u \in KeptVersions : FirstKept < u => u # FirstKept /\ u \in Versions
        /\ \A u \in 0..(FirstKept - 1) : u # FirstKept /\ u \in Versions
    BY SettingFacts
  <2>2. Trees(mem, m.meta)
    BY <1>1 DEF InTrees
  <2>3. \A u \in KeptVersions : FirstKept < u => mem'.logs[u] = 5
    BY <1>1, <1>3, <1>4, <2>1, <2>2, ZenonT(40) DEF Trees
  <2>4. \A u \in 0..(FirstKept - 1) : m.meta.pruned <= u => mem'.logs[u] = 0
    BY <1>3, <1>4, <2>1, <2>2, ZenonT(40) DEF Trees
  <2>5. /\ \A u \in KeptVersions : u < m.meta.migrated => mem'.roots[u] = 4
        /\ \A u \in KeptVersions : m.meta.migrated <= u => mem'.roots[u] = 5 /\ NodesOf[u] \subseteq mem'.new
        /\ \A u \in 0..(FirstKept - 1) : m.meta.pruned <= u => mem'.roots[u] = 0
        /\ m.meta.pruned < FirstKept => m.meta.migrated = FirstKept
    BY <1>4, <2>2, ZenonT(40) DEF Trees
  <2>. QED
    BY <1>1, <2>3, <2>4, <2>5, ZenonT(40) DEF Trees
<1>7. DiskTrees' /\ KeysAt(mem', NumKeys) /\ (Spread => Batch')
  BY <1>1, <1>4, <1>5, ZenonT(40) DEF InTrees, DiskTrees, KeysAt, Batch
<1>8. InTrees'
  BY <1>1, <1>4, <1>5, <1>6, <1>7, ZenonT(40) DEF InTrees, KeysAt, Trees
<1>9. MType'
  BY <1>1, <1>4, <1>5, ZenonT(40) DEF MType
<1>. QED
  BY <1>5, <1>7, <1>8, <1>9 DEF MInv

(* A version before the first kept one goes.                                  *)
LEMMA MPruneVersion == ASSUME MigrationSettings, MInv, PruneVersion PROVE MInv'
<1>. DEFINE v == m.meta.pruned - 1
            r == [mem.roots EXCEPT ![v] = 0]
            l == [mem.logs EXCEPT ![v] = 0]
            db == [mem EXCEPT !.roots[v] = 0, !.logs[v] = 0]
            g == [m EXCEPT !.meta.pruned = v]
<1>1. /\ MType /\ InTrees /\ m.pc = "prune" /\ v >= 0 /\ snap' = snap /\ Flush(db, g, FALSE, FALSE)
      /\ mem \in Database /\ m \in Migrator /\ m.meta.migrated = FirstKept /\ m.meta \in Meta
  BY MigratorFacts, ZenonT(40) DEF MInv, MType, PruneVersion, InTrees
<1>2. v \in 0..(FirstKept - 1) /\ v \in 0..FirstKept /\ v \in Versions /\ m.meta.pruned = v + 1 /\ v \in Int
  BY <1>1, MigratorFacts, SettingFacts, SMTT(40)
<1>3. /\ r \in [Versions -> {0, 4, 5}] /\ l \in [Versions -> {0, 4, 5}]
      /\ \A u \in Versions : r[u] = (IF u = v THEN 0 ELSE mem.roots[u]) /\ l[u] = (IF u = v THEN 0 ELSE mem.logs[u])
  BY <1>1, <1>2, TypeFacts
<1>4. db = [[mem EXCEPT !.roots = r] EXCEPT !.logs = l]
  BY <1>1 DEF Database
<1>5. /\ g \in Migrator /\ g.pc = "prune" /\ g.meta.base = m.meta.base /\ g.meta.migrated = FirstKept
      /\ g.meta.pruned = v
  <2>. DEFINE a == [m.meta EXCEPT !.pruned = v]
  <2>1. a \in Meta /\ a.base = m.meta.base /\ a.migrated = FirstKept /\ a.pruned = v
    BY <1>1, <1>2 DEF Meta
  <2>2. g = [m EXCEPT !.meta = a]
    OBVIOUS
  <2>. HIDE DEF a, g
  <2>3. a \in Meta
    BY <2>1
  <2>4. g \in Migrator /\ g.pc = m.pc /\ g.meta = a
    BY <1>1, <2>2, <2>3 DEF Migrator
  <2>. QED
    BY <1>1, <2>1, <2>4
<1>. HIDE DEF g, r, l, db
<1>6. /\ db \in Database /\ db.version = mem.version /\ db.keys = mem.keys /\ db.roots = r
      /\ db.logs = l /\ db.old = mem.old /\ db.new = mem.new
  <2>. DEFINE a == [mem EXCEPT !.roots = r]
  <2>1. /\ a \in Database /\ a.version = mem.version /\ a.keys = mem.keys /\ a.roots = r
        /\ a.old = mem.old /\ a.new = mem.new
    BY <1>1, <1>3 DEF Database
  <2>2. db = [a EXCEPT !.logs = l]
    BY <1>4
  <2>. HIDE DEF a
  <2>3. /\ db \in Database /\ db.version = a.version /\ db.keys = a.keys /\ db.roots = a.roots
        /\ db.logs = l /\ db.old = a.old /\ db.new = a.new
    BY <1>3, <2>1, <2>2, Zenon DEF Database
  <2>. QED
    BY <2>1, <2>3, ZenonT(40)
<1>7. /\ DiskTrees /\ KeysAt(mem, NumKeys) /\ Trees(mem, m.meta) /\ mem.version = 5 /\ m.meta.base = 4
      /\ disk \in Database /\ snap \in Database
  BY <1>1 DEF InTrees, MType
<1>8. Trees(db, g.meta)
  <2>1. /\ \A u \in KeptVersions : u # v /\ u \in Versions /\ ~(u < FirstKept)
        /\ \A u \in 0..(FirstKept - 1) : u \in Versions /\ (v <= u => u = v \/ m.meta.pruned <= u)
    BY <1>2, SettingFacts, SMTT(40)
  <2>. HIDE DEF v
  <2>2. \A u \in Versions : /\ db.roots[u] = (IF u = v THEN 0 ELSE mem.roots[u])
                            /\ db.logs[u] = (IF u = v THEN 0 ELSE mem.logs[u])
    BY <1>3, <1>6, ZenonT(40)
  <2>3. ASSUME NEW u \in KeptVersions
        PROVE  /\ FirstKept <= u => db.roots[u] = 5 /\ NodesOf[u] \subseteq db.new
               /\ FirstKept < u => db.logs[u] = 5
    <3>1. db.roots[u] = mem.roots[u] /\ db.logs[u] = mem.logs[u]
      BY <2>1, <2>2, ZenonT(40)
    <3>2. /\ FirstKept <= u => mem.roots[u] = 5 /\ NodesOf[u] \subseteq mem.new
          /\ FirstKept < u => mem.logs[u] = 5
      BY <1>1, <1>7, ZenonT(40) DEF Trees
    <3>. QED
      BY <1>6, <3>1, <3>2, ZenonT(40)
  <2>4. ASSUME NEW u \in 0..(FirstKept - 1), v <= u PROVE db.roots[u] = 0 /\ db.logs[u] = 0
    <3>1. CASE u = v
      BY <2>1, <2>2, <3>1, ZenonT(40)
    <3>2. CASE u # v
      <4>1. mem.roots[u] = 0 /\ mem.logs[u] = 0
        BY <1>7, <2>1, <2>4, <3>2, ZenonT(40) DEF Trees
      <4>. QED
        BY <2>1, <2>2, <3>2, <4>1, ZenonT(40)
    <3>. QED
      BY <3>1, <3>2
  <2>. QED
    BY <1>5, <2>1, <2>3, <2>4, ZenonT(40) DEF Trees
<1>9. /\ m' \in Migrator /\ m'.pc = "prune" /\ m'.meta = g.meta
      /\ (disk' = Progress(db, g, FALSE) /\ mem' = disk') \/ (disk' = disk /\ mem' = db)
  BY <1>1, <1>5, <1>6, FlushFacts, ZenonT(40)
<1>. DEFINE ok(d) == d \in Database /\ KeysAt(d, NumKeys) /\ d.version = 5 /\ Trees(d, g.meta)
<1>10. ok(db)
  BY <1>6, <1>7, <1>8, ZenonT(40) DEF KeysAt
<1>11. ok(Progress(db, g, FALSE)) /\ Progress(db, g, FALSE).meta = g.meta
  <2>. DEFINE p == Progress(db, g, FALSE)
  <2>1. /\ p \in Database /\ p.meta = g.meta /\ p.version = db.version /\ p.keys = db.keys /\ p.roots = db.roots
        /\ p.logs = db.logs /\ p.old = db.old /\ p.new = db.new
    BY <1>5, <1>6, ProgressFacts, ZenonT(40)
  <2>. HIDE DEF p
  <2>2. Trees(p, g.meta)
    BY <2>1, <1>10, TreesSame
  <2>3. ok(p)
    BY <2>1, <2>2, <1>10, ZenonT(40) DEF KeysAt
  <2>. QED
    BY <2>1, <2>3, ZenonT(40) DEF p
<1>12. \A u \in KeptVersions : ~(u < FirstKept) /\ ~(u + 2 <= FirstKept)
  BY SettingFacts
<1>13. ok(mem') /\ Batch'
  <2>1. ok(mem')
    BY <1>9, <1>10, <1>11, ZenonT(40)
  <2>2. Batch'
    BY <1>5, <1>9, <1>12, ZenonT(40) DEF Batch
  <2>. QED
    BY <2>1, <2>2
<1>14. DiskTrees' /\ disk' \in Database /\ FirstKept <= disk'.meta.migrated
  <2>1. CASE disk' = disk
    <3>1. FirstKept <= disk.meta.migrated
      BY <1>7, TypeFacts, SettingFacts
    <3>. QED
      BY <1>7, <2>1, <3>1, ZenonT(40) DEF DiskTrees
  <2>2. CASE disk' = Progress(db, g, FALSE)
    <3>1. ok(disk') /\ disk'.meta = g.meta /\ disk'.meta.base = 4 /\ disk'.meta.migrated = FirstKept
      BY <1>5, <1>7, <1>11, <2>2, ZenonT(40)
    <3>2. Readable(disk', disk'.meta.migrated)
      BY <1>12, <3>1, ZenonT(40) DEF Readable
    <3>3. DiskTrees'
      BY <3>1, <3>2, ZenonT(40) DEF DiskTrees, KeysAt, Trees, Readable
    <3>4. FirstKept <= FirstKept
      BY SettingFacts
    <3>. QED
      BY <3>1, <3>3, <3>4
  <2>. QED
    BY <1>9, <2>1, <2>2, ZenonT(40)
<1>15. InTrees'
  <2>1. m'.meta.base = 4 /\ m'.meta.migrated = FirstKept /\ Trees(mem', m'.meta)
    BY <1>5, <1>7, <1>9, <1>13, ZenonT(40)
  <2>. QED
    BY <1>9, <1>13, <1>14, <2>1, ZenonT(40) DEF InTrees, KeysAt, Trees
<1>16. MType'
  BY <1>1, <1>7, <1>9, <1>13, <1>14, ZenonT(40) DEF MType
<1>. QED
  BY <1>9, <1>14, <1>15, <1>16 DEF MInv

(* The second migration ends: the database is in format 5.                    *)
LEMMA MFinish == ASSUME MigrationSettings, MInv, Finish PROVE MInv'
<1>. DEFINE db == [mem EXCEPT !.earliest = FirstKept]
            g == [m EXCEPT !.pc = "probe"]
            p == Progress(db, g, TRUE)
<1>1. /\ MType /\ InTrees /\ m.meta.pruned = 0 /\ Flush(db, g, TRUE, TRUE) /\ snap' = snap
      /\ mem \in Database /\ snap \in Database /\ m \in Migrator /\ m.meta.migrated = FirstKept /\ mem.version = 5
  BY ZenonT(40) DEF MInv, MType, Finish, InTrees
<1>2. g \in Migrator /\ g.pc = "probe"
  BY <1>1 DEF Migrator
<1>3. /\ db \in Database /\ db.version = mem.version /\ db.keys = mem.keys /\ db.roots = mem.roots
      /\ db.logs = mem.logs /\ db.new = mem.new /\ db.earliest = FirstKept
  <2>1. FirstKept \in Versions
    BY SettingFacts
  <2>. QED
    BY <1>1, <2>1 DEF Database
<1>. HIDE DEF g, db
<1>4. m' \in Migrator /\ m'.pc = "probe" /\ disk' = p /\ mem' = disk'
  BY <1>1, <1>2, <1>3, FlushFacts, ZenonT(40)
<1>5. /\ p \in Database /\ p.meta = NoMeta /\ p.version = db.version /\ p.keys = db.keys /\ p.roots = db.roots
      /\ p.logs = db.logs /\ p.new = db.new /\ p.earliest = db.earliest
  BY <1>2, <1>3, ProgressFacts, ZenonT(40)
<1>. HIDE DEF p
<1>6. AllDone.migrated = FirstKept /\ AllDone.pruned = 0
  BY Zenon DEF AllDone
<1>7. Trees(mem, m.meta) /\ KeysAt(mem, NumKeys)
  BY <1>1, Zenon DEF InTrees
<1>8. Trees(p, AllDone)
  BY <1>1, <1>3, <1>5, <1>6, <1>7, TreesSame
<1>9. KeysAt(p, NumKeys) /\ p.version = 5 /\ p.earliest = FirstKept
  BY <1>1, <1>3, <1>5, <1>7, ZenonT(40) DEF KeysAt
<1>10. DiskDone'
  BY <1>4, <1>5, <1>8, <1>9, ZenonT(40) DEF DiskDone, KeysAt, Trees
<1>11. MType'
  BY <1>1, <1>4, <1>5, ZenonT(40) DEF MType
<1>. QED
  BY <1>4, <1>10, <1>11 DEF MInv

(* Every step keeps the invariant.                                            *)
LEMMA MInvStep == ASSUME MigrationSettings, MInv, [MigrationNext]_mvars PROVE MInv'
<1>1. CASE UNCHANGED mvars
  <2>1. disk' = disk /\ mem' = mem /\ snap' = snap /\ m' = m
    BY <1>1 DEF mvars
  <2>2. MType' = MType /\ DiskKeys' = DiskKeys /\ DiskTrees' = DiskTrees /\ DiskDone' = DiskDone
    BY <2>1, ZenonT(40) DEF MType, DiskKeys, DiskTrees, DiskDone
  <2>3. InKeys' = InKeys /\ InTrees' = InTrees
    BY <2>1, <2>2, ZenonT(40) DEF InKeys, InTrees, Batch, Unflushed
  <2>. QED
    BY <2>1, <2>2, <2>3, ZenonT(40) DEF MInv
<1>. QED
  BY <1>1, MProbe, MMigrateKey, MKeysDone, MStartV5, MMigrateVersion, MDeletePending, MPruneLogs, MPruneVersion,
     MFinish, MCrash, Zenon DEF MigrationNext

(* The invariant says that the migration is complete.                         *)
LEMMA MInvCompletes == ASSUME MigrationSettings, MInv PROVE MigrationComplete
<1>1. m.pc # "failed"
  BY MigratorFacts DEF MInv, MType
<1>2. ASSUME m.pc = "done"
      PROVE  /\ \A k \in 1..NumKeys : disk.keys[k] = IF Base = 3 /\ k \in Unknown THEN 0 ELSE 4
             /\ \A v \in KeptVersions : disk.roots[v] = 5 /\ NodesOf[v] \subseteq disk.new
             /\ \A v \in KeptVersions \ {FirstKept} : disk.logs[v] = 5
             /\ \A v \in 0..(FirstKept - 1) : disk.roots[v] = 0 /\ disk.logs[v] = 0
             /\ disk.earliest = FirstKept /\ disk.meta = NoMeta
  <2>1. DiskDone
    BY <1>2 DEF MInv
  <2>2. AllDone.migrated = FirstKept /\ AllDone.pruned = 0
    BY DEF AllDone
  <2>3. /\ \A v \in KeptVersions : FirstKept <= v
        /\ \A v \in KeptVersions \ {FirstKept} : FirstKept < v
        /\ \A v \in 0..(FirstKept - 1) : 0 <= v
        /\ \A k \in 1..NumKeys : ~(k > NumKeys)
    BY SettingFacts
  <2>4. \A k \in 1..NumKeys : disk.keys[k] = Target(k)
    BY <2>1, <2>3, ZenonT(40) DEF DiskDone, KeysAt
  <2>. QED
    BY <2>1, <2>2, <2>3, <2>4, ZenonT(40) DEF DiskDone, Trees, Target
<1>. QED
  BY <1>1, <1>2 DEF MigrationComplete

(* The migrator of the node database (go/storage/mkvs/db/badger/migrate.go),  *)
(* interrupted at any point and any number of times and resumed from its saved *)
(* progress, never fails, and leaves a complete database in the new format:    *)
(* for any keys, versions, trees and flush interval that MigrationSettings     *)
(* admits.                                                                     *)
THEOREM MigrationsComplete == ASSUME MigrationSettings PROVE MigrationSpec => []MigrationComplete
<1>1. InitMigration => MInv
  BY MInvInit
<1>2. MInv /\ [MigrationNext]_mvars => MInv'
  BY MInvStep
<1>3. MInv => MigrationComplete
  BY MInvCompletes
<1>. QED
  BY <1>1, <1>2, <1>3, PTL DEF MigrationSpec

-----------------------------------------------------------------------------
(* The facts hold, and with them the theorems of the parts above.               *)
INSTANCE WellFoundedInduction

LEMMA SetFactsHold == SetFacts
<1>1. LeastFact
  <2> SUFFICES ASSUME NEW T \in SUBSET Nat, T # {} PROVE \E x \in T : \A y \in T : x <= y
    BY DEF LeastFact
  <2> DEFINE R == OpToRel(<, Nat)
  <2>1. IsWellFoundedOn(R, Nat)
    BY NatLessThanWellFounded, ZenonT(40)
  <2>2. \A x, y \in Nat : x < y => <<x, y>> \in R
    BY DEF OpToRel
  <2> HIDE DEF R
  <2>3. PICK x \in T : \A y \in T : ~(<<y, x>> \in R)
    BY <2>1, WFMin, ZenonT(40)
  <2>4. \A y \in T : ~(y < x)
    BY <2>2, <2>3, ZenonT(40)
  <2>5. \A y \in T : x <= y
    BY <2>4
  <2> QED BY <2>5
<1> QED BY <1>1 DEF SetFacts

(* THEOREM.  treeOverlay (go/storage/mkvs/overlay.go) over any tree and after  *)
(* any updates and commits is the map that these updates give: Get answers     *)
(* from it, and a merged iterator that Seek or Next has moved is at its first  *)
(* key not yet passed, none skipped for being dirty and none shown twice, for  *)
(* any set of keys.                                                            *)
THEOREM OverlayActsAsMap == ASSUME OverlaySettings PROVE OverlaySpec => []OverlayIsMap
BY SetFactsHold, OverlayActsAsMapIf
=============================================================================
