--------------------------------- MODULE Tree ---------------------------------
(* The Merklized key-value tree in memory (go/storage/mkvs: tree, insert,      *)
(* remove, lookup, iterator, cache, commit): a compressed binary trie of       *)
(* pointers to nodes, which may be dirty, clean and loaded, or clean and known *)
(* by hash only, over a node database, with an LRU cache of clean leaves.      *)
(* A hash is the structure it stands for: <<"L", key, value>> for a leaf and   *)
(* <<"I", bits from the root, depth at which the label starts, leaf, left,     *)
(* right>> for an internal node, with hashes as children.  A pointer is named  *)
(* by its node: the key of a leaf or the bits from the root to the end of an   *)
(* internal node's label, both of which splitting and collapsing edges leave   *)
(* alone.                                                                      *)
(* Internal nodes are not evicted (node capacity 0); every leaf has size 1.    *)
EXTENDS Integers, Sequences, SequencesExt, FiniteSetsExt, TLC

CONSTANTS
    ByteBits,        \* bits per byte of a key
    Keys,            \* bit sequences, their lengths multiples of ByteBits
    Values,
    ValueCapacity,   \* leaves kept in the cache, 0 for no limit
    Prefetch,        \* items a remote iteration returns beyond the first
    MaxPending       \* bound on the keys changed between commits

VARIABLES
    t,       \* the tree: [root, heap, lru, pos, removed, sync, remote, seen, failed]:
             \* sync is the synced root when nodes are fetched remotely and remote what
             \* the remote tree answers for it, seen the proof builder
    log,     \* pendingWriteLog: key -> [value, existed]
    base,    \* what the synced root holds: key -> value
    want     \* what the operations since have made of it

vars == <<t, log, base, want>>

-----------------------------------------------------------------------------
(* Keys and hashes (go/storage/mkvs/node).                                     *)
Nil == <<>>
NoValue == 0

CommonPrefixLen(a, b) == Max({n \in 0..Min({Len(a), Len(b)}) : SubSeq(a, 1, n) = SubSeq(b, 1, n)})

(* A key is padded with zero bits to whole bytes.                              *)
Pad(bits) == bits \o [i \in 1..((0 - Len(bits)) % ByteBits) |-> 0]
Cut(k, len) == SubSeq(k \o [i \in 1..len |-> 0], 1, len)
AppendBit(k, len, b) == Pad(Cut(k, len) \o <<b>>)

(* Bytes compare as their bits do, and a proper prefix is smaller.             *)
Compare(a, b) ==
    LET cp == CommonPrefixLen(a, b)
    IN  CASE a = b -> 0
          [] a # b /\ Len(a) = cp -> -1
          [] a # b /\ Len(b) = cp -> 1
          [] OTHER -> a[cp + 1] - b[cp + 1]

(* Reference: the hash of the trie of a set of keys, without any history.      *)
RECURSIVE Canonical(_, _, _)
Canonical(m, S, at) ==
    LET lcp == LongestCommonPrefix(S)
        sub(b) == Canonical(m, {k \in S : Len(k) > Len(lcp) /\ k[Len(lcp) + 1] = b}, Len(lcp))
        k1 == CHOOSE k \in S : TRUE
    IN  CASE S = {} -> Nil
          [] S = {k1} -> <<"L", k1, m[k1]>>
          [] OTHER -> <<"I", lcp, at, IF lcp \in S THEN <<"L", lcp, m[lcp]>> ELSE Nil, sub(0), sub(1)>>

(* All hashes of a tree.                                                       *)
RECURSIVE Nodes(_)
Nodes(h) ==
    IF h = Nil THEN {} ELSE {h} \cup (IF h[1] = "L" THEN {} ELSE Nodes(h[4]) \cup Nodes(h[5]) \cup Nodes(h[6]))

-----------------------------------------------------------------------------
(* syncer/proof.go, version 0: entries in pre-order, each a node with the leaf *)
(* it includes, a bare hash, or nil.                                           *)
RECURSIVE Build(_, _)
Build(included, h) ==
    CASE h = Nil -> <<[e |-> "nil"]>>
      [] h # Nil /\ h \notin included -> <<[e |-> "hash", h |-> h]>>
      [] h \in included /\ h[1] = "L" -> <<[e |-> "leaf", k |-> h[2], v |-> h[3]]>>
      [] h \in included /\ h[1] = "I" ->
            <<[e |-> "int", bits |-> h[2], at |-> h[3], leaf |-> h[4]]>> \o Build(included, h[5]) \o Build(included, h[6])

(* A verified subtree: hash, whether the node is there, and its children.      *)
Stub(h) == [h |-> h, full |-> FALSE]
RECURSIVE VerifyFrom(_, _)
VerifyFrom(entries, i) ==
    LET e == entries[i]
        l == VerifyFrom(entries, i + 1)
        r == VerifyFrom(entries, l.next)
    IN  CASE e.e = "nil" -> [t |-> Stub(Nil), next |-> i + 1]
          [] e.e = "hash" -> [t |-> Stub(e.h), next |-> i + 1]
          [] e.e = "leaf" -> [t |-> [h |-> <<"L", e.k, e.v>>, full |-> TRUE], next |-> i + 1]
          [] e.e = "int" -> [t |-> [h |-> <<"I", e.bits, e.at, e.leaf, l.t.h, r.t.h>>, full |-> TRUE, left |-> l.t, right |-> r.t],
                             next |-> r.next]

VerifyProof(root, entries) ==
    LET v == VerifyFrom(entries, 1)
    IN  [ok |-> v.next = Len(entries) + 1 /\ v.t.h = root, t |-> v.t]

-----------------------------------------------------------------------------
(* The tree in memory.                                                         *)

NoNode == [t |-> "none"]
Leaf(v) == [t |-> "leaf", v |-> v]
Internal(at, leaf, left, right) == [t |-> "int", at |-> at, leaf |-> leaf, left |-> left, right |-> right]
Cell(clean, hash, node) == [clean |-> clean, hash |-> hash, node |-> node]
LeafId(k) == <<"L", k>>
EmptyTree == [root |-> Nil, heap |-> <<>>, lru |-> <<>>, pos |-> Nil, removed |-> {},
              sync |-> Nil, remote |-> <<>>, seen |-> {}, failed |-> FALSE]

Bits(p) == p[2]
Node(s, p) == IF p = Nil THEN NoNode ELSE s.heap[p].node
Hash(s, p) == IF p = Nil THEN Nil ELSE s.heap[p].hash
IsClean(s, p) == IF p = Nil THEN TRUE ELSE s.heap[p].clean
SetCell(s, p, c) == [s EXCEPT !.heap = (p :> c) @@ @]
SetNode(s, p, n) == [s EXCEPT !.heap[p].node = n]

-----------------------------------------------------------------------------
(* cache.go *)
UseNode(s, p) ==
    IF ValueCapacity > 0 /\ p \in Range(s.lru) THEN [s EXCEPT !.lru = <<p>> \o Remove(@, p)] ELSE s

MarkPosition(s) == [s EXCEPT !.pos = IF s.lru = <<>> THEN Nil ELSE Head(s.lru)]

RollbackNode(s, p) == [s EXCEPT !.lru = Remove(@, p), !.pos = IF @ = p THEN Nil ELSE @]

(* Only nodes made eligible for eviction are dropped: for an internal node the *)
(* clean ones, for a leaf those on the list.                                   *)
RECURSIVE RemoveNode(_, _)
RemoveNode(s, p) ==
    LET n == Node(s, p)
        u == IF n.t = "int" THEN FoldLeft(RemoveNode, s, <<n.leaf, n.left, n.right>>) ELSE RollbackNode(s, p)
        eligible == \/ n.t = "int" /\ s.heap[p].clean
                    \/ n.t = "leaf" /\ (ValueCapacity > 0 => p \in Range(s.lru))
    IN  IF eligible THEN SetNode(u, p, NoNode) ELSE s

EvictLeaf(s) == IF Len(s.lru) + 1 > ValueCapacity THEN RemoveNode(s, Last(s.lru)) ELSE s

Listed(s, p) ==
    LET i == IF s.pos = Nil THEN 1 ELSE SelectInSeq(s.lru, LAMBDA q : q = s.pos) + 1
    IN  [s EXCEPT !.lru = InsertAt(@, i, p)]

CommitNode(s, p) ==
    IF Node(s, p).t # "leaf" \/ ValueCapacity = 0 THEN s
    ELSE IF p \in Range(s.lru) THEN UseNode(s, p)
    ELSE Listed(EvictLeaf(s), p)

(* The node database resolves any hash that was committed; the leaf of an      *)
(* internal node comes with it.                                                *)
IdOf(h) == IF h = Nil THEN Nil ELSE <<h[1], h[2]>>
Child(h) == IF h = Nil THEN <<>> ELSE IdOf(h) :> Cell(TRUE, h, NoNode)
Included(h) == IF h = Nil THEN <<>> ELSE IdOf(h) :> Cell(TRUE, h, Leaf(h[3]))
GetNode(s, p) ==
    LET h == Hash(s, p)
    IN  IF h[1] = "L" THEN SetNode(s, p, Leaf(h[3]))
        ELSE [s EXCEPT !.heap = (p :> Cell(TRUE, h, Internal(h[3], IdOf(h[4]), IdOf(h[5]), IdOf(h[6]))))
                                @@ Included(h[4]) @@ Child(h[5]) @@ Child(h[6]) @@ @]

Refetch(s, p) == LET n == Node(s, p) IN n.t = "int" /\ n.leaf # Nil /\ Node(s, n.leaf).t = "none"

ByKeyAlone(k, siblings) == [op |-> "get", key |-> k, siblings |-> FALSE]
ByKey(k, siblings) == [op |-> "get", key |-> k, siblings |-> siblings]
ByOrder(k) == [op |-> "iterate", key |-> k]

(* syncer/merge.go: only a clean subtree can take in a verified one.           *)
RECURSIVE Merge(_, _, _)
MergeChildren(s, n, sub) ==
    IF n.t = "int" THEN Merge(Merge(s, n.left, sub.left), n.right, sub.right) ELSE s
MergeNode(s, p, sub) == MergeChildren(s, Node(s, p), sub)
Merge(s, p, sub) ==
    CASE p = Nil \/ sub.h = Nil -> s
      [] p # Nil /\ (~IsClean(s, p) \/ Hash(s, p) # sub.h) -> [s EXCEPT !.failed = TRUE]
      [] OTHER -> IF sub.full
                  THEN MergeNode(IF Node(s, p).t = "none" THEN CommitNode(GetNode(s, p), p) ELSE s, p, sub)
                  ELSE s

(* remoteSync: the proof is for the node asked for or for the synced root.     *)
MergeVerified(s, p, v) == IF v.ok THEN Merge(s, p, v.t) ELSE [s EXCEPT !.failed = TRUE]
RemoteSync(s, p, seen, position) ==
    LET anchor == IF position \in seen THEN position ELSE s.sync
    IN  MergeVerified(s, IF anchor = Hash(s, p) THEN p ELSE s.root, VerifyProof(anchor, Build(seen, anchor)))

Answered(s, p) == IF Node(s, p).t = "none" THEN [s EXCEPT !.failed = TRUE] ELSE s
Fetch(s, p, req) ==
    CASE s.sync = Nil -> CommitNode(GetNode(s, p), p)
      [] s.sync # Nil /\ req.op = "get" -> Answered(RemoteSync(s, p, s.remote[req], Hash(s, p)), p)
      [] s.sync # Nil /\ req.op = "iterate" -> Answered(RemoteSync(s, p, s.remote[req], s.sync), p)

(* derefNodePtr: a dirty pointer that holds no node stands for no node.        *)
Include(s, p) == IF Node(s, p).t = "none" THEN s ELSE [s EXCEPT !.seen = @ \cup {Hash(s, p)}]
Found(s, p) == [s |-> Include(s, p), n |-> Node(s, p)]
FetchClean(s, p, req) ==
    IF IsClean(s, p) /\ Hash(s, p) # Nil THEN Found(Fetch(s, p, req), p) ELSE [s |-> s, n |-> NoNode]
DerefUsed(s, p, req) ==
    CASE Refetch(s, p) -> FetchClean(RemoveNode(s, p), p, req)
      [] ~Refetch(s, p) /\ Node(s, p).t # "none" -> Found(s, p)
      [] Node(s, p).t = "none" -> FetchClean(s, p, req)
Deref(s, p, req) == IF p = Nil THEN [s |-> s, n |-> NoNode] ELSE DerefUsed(UseNode(s, p), p, req)

-----------------------------------------------------------------------------
(* insert.go *)
NotForgotten(s, p) == s
Forgotten(s, p) == IF IsClean(s, p) THEN [s EXCEPT !.removed = @ \cup {Hash(s, p)}] ELSE s
SetDirty(s, p) == RollbackNode([Forgotten(s, p) EXCEPT !.heap[p].clean = FALSE], p)
NewLeaf(s, k, v) == SetCell(s, LeafId(k), Cell(FALSE, Nil, Leaf(v)))

(* A new internal node above p and the new leaf of key k, at their fork.       *)
Fork(s, p, bits, at, cp, k, v) ==
    LET new == LeafId(k)
        id  == <<"I", SubSeq(k, 1, at + cp)>>
        n   == CASE Len(k) = at + cp ->
                        IF bits[at + cp + 1] = 1 THEN Internal(at, new, Nil, p) ELSE Internal(at, new, p, Nil)
                 [] Len(bits) = at + cp /\ p[1] = "L" ->
                        IF k[at + cp + 1] = 1 THEN Internal(at, p, Nil, new) ELSE Internal(at, p, new, Nil)
                 [] OTHER -> IF k[at + cp + 1] = 1 THEN Internal(at, Nil, p, new) ELSE Internal(at, Nil, new, p)
    IN  [s |-> SetCell(NewLeaf(s, k, v), id, Cell(FALSE, Nil, n)), root |-> id, existed |-> FALSE]

(* The child of an internal node that ends at len on the way to k, and the     *)
(* node with another child there.                                              *)
ChildOf(n, len, k) == IF Len(k) = len THEN n.leaf ELSE IF k[len + 1] = 1 THEN n.right ELSE n.left
WithChild(n, len, k, q) ==
    CASE Len(k) = len -> [n EXCEPT !.leaf = q]
      [] Len(k) # len /\ k[len + 1] = 1 -> [n EXCEPT !.right = q]
      [] Len(k) # len /\ k[len + 1] # 1 -> [n EXCEPT !.left = q]

DirtyAbove(s, p, n) == IF \A q \in {n.leaf, n.left, n.right} : IsClean(s, q) THEN s ELSE SetDirty(s, p)
InsertedBelow(r, p, n) == [s |-> DirtyAbove(SetNode(r.s, p, n), p, n), root |-> p, existed |-> r.existed]

RECURSIVE DoInsert(_, _, _, _, _)
InsertAtNode(s, n, p, depth, k, v) ==
    LET len == Len(Bits(p))
        cp == CommonPrefixLen(SubSeq(Bits(p), depth + 1, len), SubSeq(k, depth + 1, Len(k)))
        Below(r) == InsertedBelow(r, p, WithChild(n, len, k, r.root))
    IN  CASE n.t = "none" -> [s |-> NewLeaf(s, k, v), root |-> LeafId(k), existed |-> FALSE]
          [] n.t = "int" /\ depth + cp = len -> Below(DoInsert(s, ChildOf(n, len, k), len, k, v))
          [] n.t = "int" /\ depth + cp < len ->
                Fork(SetDirty(SetNode(s, p, [n EXCEPT !.at = depth + cp]), p), p, Bits(p), depth, cp, k, v)
          [] n.t = "leaf" /\ Bits(p) = k ->
                [s |-> IF n.v = v THEN s ELSE SetDirty(SetNode(s, p, Leaf(v)), p), root |-> p, existed |-> TRUE]
          [] n.t = "leaf" /\ Bits(p) # k -> Fork(s, p, Bits(p), depth, cp, k, v)
InsertAtPtr(d, p, depth, k, v) == InsertAtNode(d.s, d.n, p, depth, k, v)
DoInsert(s, p, depth, k, v) == InsertAtPtr(Deref(s, p, ByKey(k, FALSE)), p, depth, k, v)

(* remove.go: what is left after a removal below an internal node; one that    *)
(* has a single child is replaced by it.                                       *)
Dropped(s, p) == RemoveNode([s EXCEPT !.removed = @ \cup ({Hash(s, p)} \ {Nil})], p)
KeepNode(s, p, changed) == [s |-> IF changed THEN SetDirty(s, p) ELSE s, root |-> p, changed |-> changed]
Uncollapsed(s, p, n, changed, k) == KeepNode(s, p, changed)
CollapseInto(s, p, n, left, right, changed) ==
    LET leaf == n.leaf # Nil /\ Node(s, n.leaf).t # "none"
        q == IF left THEN n.left ELSE n.right
        Merged == IF Node(s, q).t = "int" THEN SetDirty([s EXCEPT !.heap[q].node.at = n.at], q) ELSE s
    IN  CASE leaf /\ ~left /\ ~right ->
                [s |-> Dropped(SetNode(s, p, [n EXCEPT !.leaf = Nil]), p), root |-> n.leaf, changed |-> TRUE]
          [] ~leaf /\ (~left \/ ~right) ->
                [s |-> Dropped(SetNode(Merged, p, Internal(n.at, n.leaf, Nil, Nil)), p), root |-> q, changed |-> TRUE]
          [] OTHER -> KeepNode(s, p, changed)
CollapseRight(a, b, p, n, changed) == CollapseInto(b.s, p, n, a.n.t # "none", b.n.t # "none", changed)
CollapseLeft(a, p, n, changed, k) == CollapseRight(a, Deref(a.s, n.right, ByKey(k, TRUE)), p, n, changed)
Collapse(s, p, n, changed, k) == CollapseLeft(Deref(s, n.left, ByKey(k, TRUE)), p, n, changed, k)

RECURSIVE DoRemove(_, _, _)
RemovedBelow(r, p, n, k) == Collapse(SetNode(r.s, p, n), p, n, r.changed, k)
RemoveAtNode(s, n, p, k) ==
    LET len == Len(Bits(p))
        Below(r) == RemovedBelow(r, p, WithChild(n, len, k, r.root), k)
    IN  CASE n.t = "none" -> [s |-> s, root |-> Nil, changed |-> FALSE]
          [] n.t = "int" /\ Len(k) < len -> [s |-> s, root |-> p, changed |-> FALSE]
          [] n.t = "int" /\ Len(k) >= len -> Below(DoRemove(s, ChildOf(n, len, k), k))
          [] n.t = "leaf" /\ Bits(p) = k -> [s |-> Dropped(s, p), root |-> Nil, changed |-> TRUE]
          [] n.t = "leaf" /\ Bits(p) # k -> [s |-> s, root |-> p, changed |-> FALSE]
RemoveAtPtr(d, p, k) == RemoveAtNode(d.s, d.n, p, k)
DoRemove(s, p, k) == RemoveAtPtr(Deref(s, p, ByKey(k, TRUE)), p, k)

RECURSIVE DoGet(_, _, _, _)
(* lookup.go; with siblings, the children not on the path are looked at too.   *)
VisitOther(r, on, n, k) ==
    LET Visit(u, q) == IF q = on THEN u ELSE Deref(u, q, ByKey(k, TRUE)).s
    IN  [r EXCEPT !.s = FoldLeft(Visit, @, <<n.left, n.right>>)]
GetBelow(s, n, on, k, siblings) ==
    IF siblings THEN VisitOther(DoGet(s, on, k, TRUE), on, n, k) ELSE DoGet(s, on, k, FALSE)
GetAtPtr(d, p, k, siblings) ==
    LET len == Len(Bits(p))
    IN  CASE d.n.t = "none" -> [s |-> d.s, v |-> NoValue]
          [] d.n.t = "int" /\ Len(k) < len -> [s |-> d.s, v |-> NoValue]
          [] d.n.t = "int" /\ Len(k) >= len -> GetBelow(d.s, d.n, ChildOf(d.n, len, k), k, siblings)
          [] d.n.t = "leaf" -> [s |-> d.s, v |-> IF Bits(p) = k THEN d.n.v ELSE NoValue]
DoGet(s, p, k, siblings) == GetAtPtr(Deref(s, p, ByKey(k, siblings)), p, k, siblings)

-----------------------------------------------------------------------------
(* iterator.go *)
RECURSIVE DoNext(_, _, _, _, _, _)
Missed(s) == [s |-> s, key |-> Nil, pos |-> <<>>]
At(r, atom) == [r EXCEPT !.pos = Append(@, atom)]

(* A key that is long enough and smaller than the path is below the subtree.   *)
TakeNever(key, newPath, len) == FALSE
TakeFirst(key, newPath, len) == len > 0 /\ Len(key) >= len /\ Compare(key, newPath) < 0

(* The first key not below key under p, and the path to resume from.  A found  *)
(* key is never empty here: Nil marks that there is none.                      *)
(* An atom a of the position says where the iterator is: before the node, at   *)
(* its leaf, below its left or below its right child.                          *)
FoundAt(r, a, state) == IF r.key # Nil THEN At(r, [a EXCEPT !.state = state]) ELSE r
NextRight(s, a, n, newPath, key) ==
    LET len == Len(Bits(a.p))
    IN  IF a.state = "after" THEN Missed(s)
        ELSE FoundAt(DoNext(s, n.right, len, AppendBit(newPath, len, 1), key, "before"), a, "after")
NextLeft(s, a, n, newPath, key, takeFirst) ==
    LET len == Len(Bits(a.p))
        Else(r) == IF r.key # Nil THEN r ELSE NextRight(r.s, a, n, newPath, AppendBit(key, len, 1))
    IN  IF a.state \in {"before", "at"} /\ (key[len + 1] = 0 \/ takeFirst)
        THEN Else(FoundAt(DoNext(s, n.left, len, AppendBit(newPath, len, 0), key, "before"), a, "left"))
        ELSE NextRight(s, a, n, newPath, IF a.state = "left" THEN AppendBit(key, len, 1) ELSE key)
NextLeaf(s, a, n, newPath, key, takeFirst) ==
    LET len == Len(Bits(a.p))
        down == IF Len(key) <= len THEN AppendBit(key, len, 0) ELSE key
        Else(r) == IF r.key # Nil THEN r ELSE NextLeft(r.s, a, n, newPath, down, takeFirst)
    IN  IF a.state = "before" /\ (Len(key) <= len \/ takeFirst)
        THEN Else(FoundAt(DoNext(s, n.leaf, len, a.path, key, "before"), a, "at"))
        ELSE NextLeft(s, a, n, newPath, IF a.state = "at" THEN down ELSE key, takeFirst)
NextAtPtr(d, a, key) ==
    LET newPath == Pad(Cut(a.path, a.depth) \o SubSeq(Bits(a.p), a.depth + 1, Len(Bits(a.p))))
    IN  CASE d.n.t = "none" -> Missed(d.s)
          [] d.n.t = "leaf" -> [Missed(d.s) EXCEPT !.key = IF Compare(Bits(a.p), key) >= 0 THEN a.p ELSE Nil]
          [] d.n.t = "int" -> NextLeaf(d.s, a, d.n, newPath, key, TakeFirst(key, newPath, Len(Bits(a.p))))
DoNext(s, p, depth, path, key, state) ==
    NextAtPtr(Deref(s, p, ByOrder(key)), [p |-> p, depth |-> depth, path |-> path, state |-> state], key)

RECURSIVE NextFrom(_, _, _)
NextAbove(r, key, above) == IF r.key # Nil THEN [r EXCEPT !.pos = @ \o above] ELSE NextFrom(r.s, key, above)
Reused(s, pos) == FoldLeft(LAMBDA u, a : UseNode(u, a.p), MarkPosition(s), pos)
NextFrom(s, key, pos) ==
    LET a == Head(pos)
    IN  IF pos = <<>> THEN Missed(s)
        ELSE NextAbove(DoNext(Reused(s, Tail(pos)), a.p, a.depth, a.path, Bits(key), a.state), key, Tail(pos))

Seek(s, key) == DoNext(s, s.root, 0, <<>>, key, "before")

-----------------------------------------------------------------------------
(* What the remote tree visits to answer: SyncGet in lookup.go, SyncIterate in *)
(* iterator.go, SyncGetPrefixes in prefetch.go (limit keys with the prefix).   *)
TreeAt(h) == [EmptyTree EXCEPT !.root = IdOf(h), !.heap = Child(h)]
Advance(r, i) == IF r.key = Nil THEN r ELSE NextFrom(r.s, r.key, r.pos)
HasPrefix(r, k) == r.key # Nil /\ Len(Bits(r.key)) >= Len(k) /\ SubSeq(Bits(r.key), 1, Len(k)) = k
AdvanceIn(k, r) == IF HasPrefix(r, k) THEN NextFrom(r.s, r.key, r.pos) ELSE r
SyncGet(h, req) == DoGet(TreeAt(h), IdOf(h), req.key, req.siblings).s.seen
SyncIterate(h, key) == FoldLeft(Advance, Seek(TreeAt(h), key), [i \in 1..Prefetch |-> i]).s.seen
SyncGetPrefixes(h, k, limit) ==
    FoldLeft(LAMBDA r, i : AdvanceIn(k, r), Seek(TreeAt(h), k), [i \in 1..limit |-> i]).s.seen

(* A key being sought can be any bytes no longer than the keys.                *)
Bytes == UNION {[1..n -> {0, 1}] : n \in {Len(k) : k \in Keys} \cup {0}}
Answers(h) == [req \in {ByKey(k, b) : k \in Keys, b \in BOOLEAN} \cup {ByOrder(k) : k \in Bytes} |->
                  IF req.op = "get" THEN SyncGet(h, req) ELSE SyncIterate(h, req.key)]

-----------------------------------------------------------------------------
RECURSIVE Collect(_)
Collect(r) == IF r.key = Nil THEN <<>> ELSE <<Bits(r.key)>> \o Collect(NextFrom(r.s, r.key, r.pos))

RECURSIVE IterationFails(_)
IterationFails(r) == r.s.failed \/ (r.key # Nil /\ IterationFails(NextFrom(r.s, r.key, r.pos)))

-----------------------------------------------------------------------------
(* commit.go: hashes bottom up, then the hooks of the batch: nodes are clean   *)
(* and eligible for eviction.                                                  *)
Children(n) == IF n.t = "int" THEN <<n.leaf, n.left, n.right>> ELSE <<>>

RECURSIVE DoCommit(_, _)
SetHash(s, p, n) ==
    [s EXCEPT !.heap[p].hash =
        CASE n.t = "none" -> Nil
          [] n.t = "leaf" -> <<"L", Bits(p), n.v>>
          [] n.t = "int" -> <<"I", Bits(p), n.at, Hash(s, n.leaf), Hash(s, n.left), Hash(s, n.right)>>]
DoCommit(s, p) ==
    IF IsClean(s, p) THEN s
    ELSE SetHash(FoldLeft(DoCommit, s, Children(Node(s, p))), p, Node(s, p))

RECURSIVE OnCommit(_, _)
OnCommit(s, p) ==
    IF IsClean(s, p) THEN s
    ELSE CommitNode([FoldLeft(OnCommit, s, Children(Node(s, p))) EXCEPT !.heap[p].clean = TRUE], p)

RootHash(s) == Hash(DoCommit(s, s.root), s.root)

-----------------------------------------------------------------------------
RECURSIVE Reachable(_, _)
Reachable(s, p) ==
    IF p = Nil THEN {} ELSE {p} \cup UNION {Reachable(s, q) : q \in Range(Children(Node(s, p)))}
Live(s) == [s EXCEPT !.heap = [p \in Reachable(s, s.root) |-> s.heap[p]], !.seen = {}]

Init ==
    /\ t = EmptyTree
    /\ log = <<>>
    /\ base = [k \in Keys |-> NoValue]
    /\ want = base

Insert(k, v) ==
    LET r == DoInsert(MarkPosition(t), t.root, 0, k, v)
    IN  /\ Cardinality(DOMAIN log \cup {k}) <= MaxPending
        /\ ~r.s.failed
        /\ t' = Live([r.s EXCEPT !.root = r.root])
        /\ log' = (k :> [value |-> v, existed |-> IF k \in DOMAIN log THEN log[k].existed ELSE r.existed]) @@ log
        /\ want' = [want EXCEPT ![k] = v]
        /\ UNCHANGED base

RemoveExisting(k) ==
    LET r == DoRemove(MarkPosition(t), t.root, k)
    IN  /\ k \in DOMAIN log => log[k].value # NoValue
        /\ Cardinality(DOMAIN log \cup {k}) <= MaxPending
        /\ ~r.s.failed
        /\ t' = Live([r.s EXCEPT !.root = r.root])
        /\ log' = (k :> [value |-> NoValue, existed |-> IF k \in DOMAIN log THEN log[k].existed ELSE r.changed]) @@ log
        /\ want' = [want EXCEPT ![k] = NoValue]
        /\ UNCHANGED base

(* Get answers from the write log where it can.                                *)
Get(k) ==
    /\ k \notin DOMAIN log
    /\ LET r == DoGet(MarkPosition(t), t.root, k, FALSE)
       IN  ~r.s.failed /\ t' = Live(r.s)
    /\ UNCHANGED <<log, base, want>>

Commit ==
    /\ log # <<>> /\ t.sync = Nil
    /\ t' = Live([OnCommit(DoCommit(t, t.root), t.root) EXCEPT !.removed = {}])
    /\ log' = <<>>
    /\ base' = want
    /\ UNCHANGED want

(* NewWithRoot: another tree at the synced root, over the database or over a   *)
(* remote tree.                                                                *)
NewWithRoot ==
    LET h == RootHash(t) IN
    /\ log = <<>> /\ h # Nil
    /\ \/ t' = TreeAt(h)
       \/ t' = [TreeAt(h) EXCEPT !.sync = h, !.remote = Answers(h)]
    /\ UNCHANGED <<log, base, want>>

(* prefetch.go *)
PrefetchPrefixes(k) ==
    LET u == RemoteSync(t, t.root, SyncGetPrefixes(t.sync, k, Prefetch), t.sync) IN
    /\ t.sync # Nil /\ t.root # Nil /\ Prefetch > 0
    /\ ~u.failed
    /\ t' = Live(u)
    /\ UNCHANGED <<log, base, want>>

(* A removal that is cancelled n nodes down returns nil to every caller, which *)
(* makes that its child; the root stays.                                       *)
RECURSIVE CancelledRemove(_, _, _, _)
CancelledAtPtr(d, s, p, k, n) ==
    LET len == Len(Bits(p))
    IN  IF n = 0 \/ d.n.t # "int" THEN s
        ELSE IF Len(k) < len THEN d.s
        ELSE SetNode(CancelledRemove(d.s, ChildOf(d.n, len, k), k, n - 1), p, WithChild(d.n, len, k, Nil))
CancelledRemove(s, p, k, n) == CancelledAtPtr(Deref(s, p, ByKey(k, TRUE)), s, p, k, n)

RemoveCancelled(k) ==
    /\ \E n \in 0..2 : t' = Live(CancelledRemove(MarkPosition(t), t.root, k, n))
    /\ UNCHANGED <<log, base, want>>

Next ==
    \/ \E k \in Keys, v \in Values : Insert(k, v)
    \/ \E k \in Keys : RemoveExisting(k) \/ Get(k) \/ PrefetchPrefixes(k)
    \/ Commit
    \/ NewWithRoot
NextWithCancel == Next \/ \E k \in Keys : RemoveCancelled(k)

Spec == Init /\ [][Next]_vars
SpecWithCancel == Init /\ [][NextWithCancel]_vars

-----------------------------------------------------------------------------
Present(m) == {k \in Keys : m[k] # NoValue}

(* INVARIANT.  A lookup finds what was last written, whatever is cached.       *)
ReadsWrites == \A k \in Keys : IF k \in DOMAIN log THEN log[k].value = want[k] ELSE DoGet(t, t.root, k, FALSE).v = want[k]

(* INVARIANT.  The root hash is a function of the contents alone: any order of *)
(* inserts, removals, commits and reloads that ends with the same keys and     *)
(* values ends with the same tree.                                             *)
HashIsCanonical == RootHash(t) = Canonical(want, Present(want), 0)

(* INVARIANT.  Seek and Next list the keys from the given one on, in order.    *)
IterationSorted ==
    \A k \in Keys : (t.sync # Nil => log = <<>>) =>
        Collect(Seek(t, k)) = SetToSortSeq({j \in Present(want) : Compare(j, k) >= 0}, LAMBDA a, b : Compare(a, b) < 0)

(* INVARIANT.  Every node of the synced root that the new root does without is *)
(* reported removed, and one that it keeps clean is not.                       *)
RemovedIsGarbage ==
    LET new == Nodes(RootHash(t))
        dirty == {DoCommit(t, t.root).heap[p].hash : p \in {q \in DOMAIN t.heap : ~t.heap[q].clean}}
    IN  /\ Nodes(Canonical(base, Present(base), 0)) \ new \subseteq t.removed
        /\ t.removed \cap new \subseteq dirty

(* INVARIANT.  A tree over a remote one that has no changes of its own can     *)
(* always go on: the proof it is sent contains the node that it needs.         *)
RemoteAnswers ==
    t.sync # Nil /\ log = <<>> =>
        \A k \in Keys : /\ ~DoGet(t, t.root, k, FALSE).s.failed
                         /\ ~DoInsert(t, t.root, 0, k, 1).s.failed
                         /\ ~DoRemove(t, t.root, k).s.failed
                         /\ ~IterationFails(Seek(t, k))

=============================================================================
