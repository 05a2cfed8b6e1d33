-------------------------------- MODULE Overlay --------------------------------
(* The overlay over a key-value tree (go/storage/mkvs/overlay.go): updates are *)
(* kept in an ordered map beside the set of dirty keys until they are          *)
(* committed to the inner tree; an iterator merges both.  It is used between   *)
(* two updates of the tree.                                                    *)
EXTENDS Integers

CONSTANTS Keys, Values       \* sets of positive integers

VARIABLES
    inner,      \* the inner tree: key -> value
    overlay,    \* the updates: a function on some of the keys
    dirty,      \* keys the overlay decides about
    iter,       \* treeOverlayIterator, Closed when there is none
    view        \* what the operations have made of the contents

overlayVars == <<inner, overlay, dirty, iter, view>>

Absent == 0      \* no value
End == 0         \* where an iterator is no longer valid
Closed == [inner |-> End, overlay |-> End, next |-> 0]
Holding(f) == {k \in DOMAIN f : f[k] # Absent}
Deleted(f, k) == [j \in DOMAIN f \ {k} |-> f[j]]

InitOverlay ==
    /\ inner \in [Keys -> Values \cup {Absent}]
    /\ overlay = <<>> /\ dirty = {} /\ iter = Closed
    /\ view = inner

InsertKey(k, v) ==
    /\ overlay' = [j \in DOMAIN overlay \cup {k} |-> IF j = k THEN v ELSE overlay[j]]
    /\ dirty' = dirty \cup {k} /\ iter' = Closed
    /\ view' = [view EXCEPT ![k] = v]
    /\ UNCHANGED inner

GetKey(k) ==
    IF k \in dirty THEN IF k \in DOMAIN overlay THEN overlay[k] ELSE Absent
    ELSE inner[k]

(* A clean key that the inner tree does not have stays clean.                  *)
RemoveExistingKey(k) ==
    /\ overlay' = IF k \in dirty THEN Deleted(overlay, k) ELSE overlay
    /\ dirty' = IF inner[k] # Absent THEN dirty \cup {k} ELSE dirty
    /\ iter' = Closed
    /\ view' = [view EXCEPT ![k] = Absent]
    /\ UNCHANGED inner

RemoveKey(k) ==
    /\ overlay' = Deleted(overlay, k)
    /\ dirty' = dirty \cup {k} /\ iter' = Closed
    /\ view' = [view EXCEPT ![k] = Absent]
    /\ UNCHANGED inner

(* Commit: the items of the overlay are inserted, the other dirty ones removed. *)
Committed(S) == [k \in Keys |-> IF k \in S THEN IF k \in DOMAIN overlay THEN overlay[k] ELSE Absent ELSE inner[k]]
CommitOverlay ==
    /\ dirty # {}
    /\ inner' = Committed(dirty)
    /\ overlay' = <<>> /\ dirty' = {} /\ iter' = Closed
    /\ UNCHANGED view

(* The inner tree fails after some insertions, which are no longer dirty.      *)
CommitFails ==
    \E k \in DOMAIN overlay :
        LET done == {j \in DOMAIN overlay : j < k} IN
        /\ inner' = Committed(done)
        /\ dirty' = dirty \ done /\ iter' = Closed
        /\ UNCHANGED <<overlay, view>>

-----------------------------------------------------------------------------
(* treeOverlayIterator: the positions of the iterators over the inner tree and *)
(* over the overlay; next is the least key that it has not passed.             *)
First(S, k) ==
    IF \A j \in S : j < k THEN End
    ELSE CHOOSE j \in S : j >= k /\ \A i \in S : i >= k => j <= i

(* updateIteratorPosition skips the entries of the inner tree that are dirty.  *)
KeepDirty(i) == i
SkipDirty(i) == IF i = End THEN End ELSE First(Holding(inner) \ dirty, i)
Position(i, o, next) == [inner |-> SkipDirty(i), overlay |-> o, next |-> next]

(* Rewind seeks the least key.                                                 *)
IterSeek(k) ==
    /\ iter' = Position(First(Holding(inner), k), First(DOMAIN overlay, k), k)
    /\ UNCHANGED <<inner, overlay, dirty, view>>

IterValid == iter.inner # End \/ iter.overlay # End
FromInner == iter.inner # End /\ (iter.overlay = End \/ iter.inner < iter.overlay)
IterKey == IF FromInner THEN iter.inner ELSE iter.overlay
IterValue == IF FromInner THEN inner[iter.inner] ELSE overlay[iter.overlay]

IterNext ==
    /\ IterValid
    /\ iter' =
         IF iter.overlay = End \/ (iter.inner # End /\ iter.inner <= iter.overlay)
         THEN Position(First(Holding(inner), iter.inner + 1), iter.overlay, IterKey + 1)
         ELSE Position(iter.inner, First(DOMAIN overlay, iter.overlay + 1), IterKey + 1)
    /\ UNCHANGED <<inner, overlay, dirty, view>>

OverlayNext ==
    \/ \E k \in Keys : RemoveExistingKey(k) \/ RemoveKey(k)
    \/ \E k \in Keys, v \in Values : InsertKey(k, v)
    \/ CommitOverlay
    \/ \E k \in Keys : IterSeek(k)
    \/ IterNext

OverlaySpec == InitOverlay /\ [][OverlayNext]_overlayVars
OverlaySpecWithFailure == InitOverlay /\ [][OverlayNext \/ CommitFails]_overlayVars

-----------------------------------------------------------------------------
OverlaySettings == Keys \subseteq Nat \ {0} /\ Values \subseteq Nat \ {0}

(* INVARIANT.  The overlay and the tree below it are together one map: lookups *)
(* see exactly the latest updates, and an iterator sought at any key is at the *)
(* least key with a value that it has not passed, and shows its value, until   *)
(* there is none.                                                              *)
OverlayIsMap ==
    /\ \A k \in Keys : GetKey(k) = view[k]
    /\ iter.next # 0 =>
         /\ IterKey = First(Holding(view), iter.next)
         /\ IterValid => IterValue = view[IterKey]
=============================================================================
