------------------------------- MODULE PathDB -------------------------------
(* The path-based node database (go/storage/mkvs/db/pathbadger), the default   *)
(* backend.  Nodes are stored under (root type, version, index) instead of     *)
(* their hash, so two candidate roots of a version want the same keys: the     *)
(* first batch of a version (sequence number 0) writes to the final keys at    *)
(* once, later ones to pending keys that Finalize copies over.                 *)
EXTENDS Naturals, FiniteSets

CONSTANTS
    Roots,          \* typed root hashes
    Type,           \* root -> "state" or "io"
    Tree,           \* root -> the nodes of its tree, the root node excepted
    Rank,           \* node -> its place in the traversal that assigns indices
    MaxVersion,     \* bound on version numbers
    Commits,        \* [old, ov, root, v]: the trees callers commit, "empty" = no old root
    Chain,          \* version -> the roots the caller finalizes
    RestoreVersion, \* the version a checkpoint restores
    Chunks,         \* root -> the chunks (node sets) its checkpoint is cut into
    Retry,          \* TRUE: a restore may follow batches or a restore of its version
    MaxCrashes,     \* bound on crashes
    MaxBatches,     \* bound on open batches
    MaxSeq          \* bound on the sequence numbers reserved per version and type

VARIABLES
    fin,            \* finalizedNodeKeyFmt: <<key, version timestamp, node or "del">>
    pending,        \* pendingNodeKeyFmt: <<version, sequence number, key>> -> node
    rootNodes,      \* rootNodeKeyFmt: <<version, root>> -> node -> key, as its pointers say
    updated,        \* rootUpdatedNodesKeyFmt: <<version, root>> -> [put, removed]
    logs,           \* writeLogKeyFmt: <<version, root, old root>>
    meta,           \* metadataKeyFmt: [first, last, mp, next, seqs]
    multipart,      \* d.multipartVersion, 0 = multipartVersionNone
    multi,          \* d.multipartMeta: type -> [seq, index, root]
    batches,        \* batches open and not yet committed
    op,             \* the operation that holds metaUpdateLock
    chunksDone,     \* what the restorer has imported since the insert started
    aborted,        \* versions with an aborted restore
    crashes

durable == <<fin, pending, rootNodes, updated, logs, meta>>
vars == <<fin, pending, rootNodes, updated, logs, meta, multipart, multi, batches,
          op, chunksDone, aborted, crashes>>

Versions == 1..MaxVersion
Types == {"state", "io"}
Idle == [kind |-> "idle", step |-> "none"]
Step(kind, step, v, arg) == [kind |-> kind, step |-> step, v |-> v, arg |-> arg]
Extend(f, g) == [k \in DOMAIN f \cup DOMAIN g |-> IF k \in DOMAIN g THEN g[k] ELSE f[k]]
Without(f, keys) == [k \in DOMAIN f \ keys |-> f[k]]
Values(f) == {f[k] : k \in DOMAIN f}

-----------------------------------------------------------------------------
Entries(k, v) == {e \in fin : e[1] = k /\ e[2] <= v}
Lookup(k, v) ==
    IF Entries(k, v) = {} THEN "none"
    ELSE (CHOOSE e \in Entries(k, v) : \A f \in Entries(k, v) : f[2] <= e[2])[3]

(* A write batch at version timestamp v; new maps keys to nodes or "del".      *)
WriteAt(v, new) ==
    {e \in fin : ~(e[1] \in DOMAIN new /\ e[2] = v)} \cup {<<k, v, new[k]>> : k \in DOMAIN new}

SeqNo(v, r) == IF <<v, r>> \in DOMAIN meta.seqs THEN meta.seqs[<<v, r>>] ELSE 0

(* GetNode: the pending node of the root's sequence number, or the final one.  *)
GetNode(v, r, k) ==
    LET p == <<v, SeqNo(v, r), k>>
    IN IF SeqNo(v, r) # 0 /\ p \in DOMAIN pending THEN pending[p] ELSE Lookup(k, v)

HasRoot(r, v) == v >= meta.first /\ <<v, r>> \in DOMAIN rootNodes

(* ptrToDb and ptrFromDb: a stored pointer says under which key its node is.   *)
Ptr(v, r, n) == rootNodes[<<v, r>>][n]

Readable(r, v) ==
    /\ HasRoot(r, v)
    /\ \A n \in Tree[r] : n \in DOMAIN rootNodes[<<v, r>>] /\ GetNode(v, r, Ptr(v, r, n)) = n

(* GetWriteLog: one hop, and only among final nodes: the write log of a root   *)
(* with a sequence number can be had once its version is final.                *)
GetWriteLog(v, r, old) ==
    LET oldTree == IF old = "empty" THEN {} ELSE Tree[old]
    IN /\ HasRoot(r, v)
       /\ <<v, r, old>> \in logs
       /\ SeqNo(v, r) = 0
       /\ \A n \in Tree[r] \ oldTree : Lookup(Ptr(v, r, n), v) = n

-----------------------------------------------------------------------------
NoMulti == [t \in Types |-> [seq |-> 0, index |-> 0, root |-> "none"]]

Init ==
    /\ fin = {}
    /\ pending = << >>
    /\ rootNodes = << >>
    /\ updated = << >>
    /\ logs = {}
    /\ meta = [first |-> 0, last |-> 0, mp |-> 0,
               next |-> [p \in Versions \X Types |-> 0], seqs |-> << >>]
    /\ multipart = 0
    /\ multi = NoMulti
    /\ batches = {}
    /\ op = Idle
    /\ chunksDone = {}
    /\ aborted = {}
    /\ crashes = 0

(* refreshDbPtr: nodes without a place get the next indices of the batch.      *)
Assign(t, v, new, base) ==
    [n \in new |-> <<t, v, base + Cardinality({m \in new : Rank[m] <= Rank[n]})>>]

(* The caller brings version v up from diffs unless a restore of it failed.    *)
DiffsFor(v) == multipart = 0 /\ v \notin aborted

(* The metadata after reserving a sequence number of a version for some types. *)
ReserveRootSeqNo(v, types) ==
    [meta EXCEPT !.next = [p \in DOMAIN @ |->
        IF p[1] = v /\ p[2] \in types THEN @[p] + 1 ELSE @[p]]]
SetPendingRootSeqNo(v, r, seq) ==
    [meta EXCEPT !.seqs = Extend(@, [k \in {<<v, r>>} |-> seq])]
SetMultipart(m, v) == [m EXCEPT !.mp = v]

(* VisitCleanNode: a node of the old tree keeps its key.  One that turned from *)
(* root to inner node or back is in one of the two trees only, so that it is   *)
(* put again, or removed.                                                      *)
Layout(r, put, oldTree) ==
    [n \in Tree[r] |-> IF n \in DOMAIN put THEN put[n] ELSE oldTree[n]]

(* RootCache.Apply and tree.Commit up to Batch.Commit.  NewBatch reserves the  *)
(* sequence number durably; what was once reserved is not given back.          *)
NewBatch(c) ==
    /\ op = Idle
    /\ DiffsFor(c.v) /\ (c.ov > meta.last => DiffsFor(c.ov))
    /\ ~HasRoot(c.root, c.v)
    /\ c.old # "empty" => Readable(c.old, c.ov)
    /\ Cardinality(batches) < MaxBatches
    /\ meta.next[<<c.v, Type[c.root]>>] < MaxSeq
    /\ LET t == Type[c.root]
           oldTree == IF c.old = "empty" THEN << >> ELSE rootNodes[<<c.ov, c.old>>]
           put == Assign(t, c.v, Tree[c.root] \ DOMAIN oldTree, 0)
       IN /\ batches' = batches \cup {[chunk |-> FALSE, old |-> c.old, root |-> c.root,
                v |-> c.v, seq |-> meta.next[<<c.v, t>>], put |-> put,
                removed |-> {oldTree[n] : n \in DOMAIN oldTree \ Tree[c.root]},
                layout |-> Layout(c.root, put, oldTree)]}
          /\ meta' = ReserveRootSeqNo(c.v, {t})
    /\ UNCHANGED <<fin, pending, rootNodes, updated, logs, multipart, multi, op,
                   chunksDone, aborted, crashes>>

(* A chunk batch reuses the sequence number and the index of the restore, one  *)
(* batch per root type at a time (mpLock); multipartMergeWithExisting keeps    *)
(* the places of the nodes that earlier chunks brought.                        *)
NewChunkBatch(r, ch) ==
    /\ op = Idle
    /\ multipart # 0
    /\ <<r, ch>> \notin chunksDone
    /\ \A b \in batches : ~(b.chunk /\ Type[b.root] = Type[r])
    /\ LET t == Type[r]
           known == IF multi[t].root = r /\ <<multipart, r>> \in DOMAIN rootNodes
                    THEN rootNodes[<<multipart, r>>] ELSE << >>
           fresh == Assign(t, multipart, ch \ DOMAIN known, multi[t].index)
           layout == Extend(known, fresh)
       IN /\ batches' = batches \cup {[chunk |-> TRUE, old |-> "empty", root |-> r,
                v |-> multipart, seq |-> multi[t].seq, put |-> [n \in ch |-> layout[n]],
                removed |-> {}, layout |-> layout]}
          /\ multi' = [multi EXCEPT ![t].index = @ + Cardinality(DOMAIN fresh)]
    /\ UNCHANGED <<durable, multipart, op, chunksDone, aborted, crashes>>

CommitFails(b) ==
    \/ meta.last >= b.v
    \/ multipart # 0 /\ (multipart # b.v \/ multi[Type[b.root]].root \notin {"none", b.root})

(* Commit: checks, then the sequence number of the root, durably and first.    *)
Commit(b) ==
    /\ op = Idle
    /\ batches' = batches \ {b}
    /\ IF CommitFails(b) \/ (~b.chunk /\ <<b.v, b.root>> \in DOMAIN rootNodes)
       THEN UNCHANGED <<op, meta>>
       ELSE /\ op' = Step("commit", "meta", b.v, b)
            /\ meta' = SetPendingRootSeqNo(b.v, b.root, b.seq)
    /\ multi' = IF multipart = 0 \/ CommitFails(b) THEN multi
                ELSE [multi EXCEPT ![Type[b.root]].root = b.root]
    /\ UNCHANGED <<fin, pending, rootNodes, updated, logs, multipart, chunksDone, aborted, crashes>>

(* batMeta: updated nodes, write log and, for a sequence number, its nodes.    *)
CommitMeta ==
    /\ op.kind = "commit" /\ op.step = "meta"
    /\ LET b == op.arg
       IN /\ updated' = IF b.chunk THEN updated
                        ELSE Extend(updated, [k \in {<<b.v, b.root>>} |->
                                 [put |-> Values(b.put), removed |-> b.removed]])
          /\ logs' = IF b.chunk THEN logs ELSE logs \cup {<<b.v, b.root, b.old>>}
          /\ pending' = IF b.seq = 0 THEN pending
                        ELSE Extend(pending, [k \in {<<b.v, b.seq, b.put[n]>> : n \in DOMAIN b.put}
                                                |-> CHOOSE n \in DOMAIN b.put : b.put[n] = k[3]])
    /\ op' = [op EXCEPT !.step = "nodes"]
    /\ UNCHANGED <<fin, rootNodes, meta, multipart, multi, batches, chunksDone, aborted, crashes>>

(* bat: the nodes of sequence number 0 and the root node, which comes last.    *)
CommitNodes ==
    /\ op.kind = "commit" /\ op.step = "nodes"
    /\ LET b == op.arg
       IN /\ fin' = IF b.seq # 0 THEN fin
                    ELSE WriteAt(b.v, [k \in Values(b.put) |->
                                          CHOOSE n \in DOMAIN b.put : b.put[n] = k])
          /\ rootNodes' = Extend(rootNodes, [k \in {<<b.v, b.root>>} |-> b.layout])
          /\ chunksDone' = IF b.chunk THEN chunksDone \cup {<<b.root, DOMAIN b.put>>}
                           ELSE chunksDone
    /\ op' = Idle
    /\ UNCHANGED <<pending, updated, logs, meta, multipart, multi, batches, aborted, crashes>>

-----------------------------------------------------------------------------
Candidates(v) == {r \in Roots : <<v, r>> \in DOMAIN rootNodes}
Updates(v, r) ==
    IF <<v, r>> \in DOMAIN updated THEN updated[<<v, r>>] ELSE [put |-> {}, removed |-> {}]

NotLone(v) == UNION {Updates(v, r).put : r \in Candidates(v) \cap Chain[v]}
LoneShared(v) ==
    (UNION {Updates(v, r).removed : r \in Candidates(v) \cap Chain[v]})
    \cup (UNION {Updates(v, r).put : r \in {q \in Candidates(v) \ Chain[v] : SeqNo(v, q) = 0}})
Lone(v) ==
    ((UNION {Updates(v, r).removed : r \in Candidates(v) \cap Chain[v]})
     \cup (UNION {Updates(v, r).put : r \in {q \in Candidates(v) \ Chain[v] : SeqNo(v, q) = 0}}))
    \ NotLone(v)

(* Pending nodes of finalized roots, by the key they are copied to.            *)
ToCopy(v) ==
    UNION {{<<v, SeqNo(v, r), k>> : k \in Updates(v, r).put} :
               r \in {q \in Candidates(v) \cap Chain[v] : SeqNo(v, q) # 0}}

(* Finalize: checks, then copies to the final keys.  The callers finalize the  *)
(* genesis version first (initGenesis) or a restored one.                      *)
Finalize(v) ==
    /\ op = Idle
    /\ multipart \in {0, v}
    /\ \/ DiffsFor(v) /\ (meta.last = 0 => v = 1)
       \/ /\ multipart = v
          /\ \A r \in Chain[v] : \A ch \in Chunks[r] : <<r, ch>> \in chunksDone
    /\ meta.last > 0 => v > meta.last /\ (multipart = 0 => v = meta.last + 1)
    /\ Chain[v] \subseteq Candidates(v)
    /\ \A r \in Candidates(v) : <<v, r>> \in DOMAIN meta.seqs
    /\ ToCopy(v) \subseteq DOMAIN pending
    /\ fin' = WriteAt(v, [k \in {p[3] : p \in ToCopy(v)} |->
                             pending[CHOOSE p \in ToCopy(v) : p[3] = k]])
    /\ op' = Step("finalize", "logs", v, [lone |-> Lone(v), seen |-> Candidates(v)])
    /\ UNCHANGED <<pending, rootNodes, updated, logs, meta, multipart, multi, batches,
                   chunksDone, aborted, crashes>>

FinalizeLogs ==
    /\ op.kind = "finalize" /\ op.step = "logs"
    /\ logs' = {l \in logs : l[1] = op.v => l[2] \in Chain[op.v]}
    /\ op' = [op EXCEPT !.step = "lone"]
    /\ UNCHANGED <<fin, pending, rootNodes, updated, meta, multipart, multi, batches,
                   chunksDone, aborted, crashes>>

FinalizeLone ==
    /\ op.kind = "finalize" /\ op.step = "lone"
    /\ fin' = WriteAt(op.v, [k \in op.arg.lone |-> "del"])
    /\ op' = [op EXCEPT !.step = "keys"]
    /\ UNCHANGED <<pending, rootNodes, updated, logs, meta, multipart, multi, batches,
                   chunksDone, aborted, crashes>>

(* The last batch removes the lists of updated nodes and then the pending      *)
(* nodes; when it does not fit one transaction a crash can part the two.       *)
DropUpdated(v) == updated' = Without(updated, {<<v, r>> : r \in op.arg.seen})
DropPending(v) == pending' = Without(pending, {p \in DOMAIN pending : p[1] = v})

SwappedKeys ==
    /\ op.kind = "finalize" /\ op.step \in {"keys", "pending"}
    /\ IF op.step = "keys" THEN DropPending(op.v) /\ UNCHANGED updated
       ELSE DropUpdated(op.v) /\ UNCHANGED pending
    /\ op' = [op EXCEPT !.step = IF @ = "keys" THEN "pending" ELSE "meta"]
    /\ UNCHANGED <<fin, rootNodes, logs, meta, multipart, multi, batches, chunksDone, aborted, crashes>>

FinalizeKeys ==
    /\ op.kind = "finalize" /\ op.step \in {"keys", "pending"}
    /\ IF op.step = "keys" THEN DropUpdated(op.v) /\ UNCHANGED pending
       ELSE DropPending(op.v) /\ UNCHANGED updated
    /\ op' = [op EXCEPT !.step = IF @ = "keys" THEN "pending" ELSE "meta"]
    /\ UNCHANGED <<fin, rootNodes, logs, meta, multipart, multi, batches, chunksDone, aborted, crashes>>

FinalizeMeta ==
    /\ op.kind = "finalize" /\ op.step = "meta"
    /\ meta' = [meta EXCEPT !.last = op.v,
                            !.first = IF meta.last = 0 THEN op.v ELSE @,
                            !.next = [p \in DOMAIN @ |-> IF p[1] = op.v THEN 0 ELSE @[p]],
                            !.seqs = Without(@, {p \in DOMAIN @ : p[1] = op.v})]
    /\ op' = IF multipart = 0 THEN Idle ELSE Step("clean", "meta", multipart, {})
    /\ UNCHANGED <<fin, pending, rootNodes, updated, logs, multipart, multi, batches,
                   chunksDone, aborted, crashes>>

-----------------------------------------------------------------------------
(* Prune: I/O roots have no children, so all their nodes at or below the       *)
(* version go; state nodes went when a later version removed them.             *)
Prune(v) ==
    /\ op = Idle
    /\ multipart = 0
    /\ meta.last > v
    /\ v = meta.first
    /\ fin' = WriteAt(v, [k \in {e[1] : e \in {f \in fin : f[1][1] = "io"
                                   /\ Lookup(f[1], v) \notin {"none", "del"}}} |-> "del"])
    /\ rootNodes' = Without(rootNodes, {<<v, r>> : r \in {q \in Roots : Type[q] = "io"}})
    /\ op' = Step("prune", "logs", v, {})
    /\ UNCHANGED <<pending, updated, logs, meta, multipart, multi, batches, chunksDone, aborted, crashes>>

PruneLogs ==
    /\ op.kind = "prune" /\ op.step = "logs"
    /\ logs' = {l \in logs : l[1] # op.v}
    /\ op' = [op EXCEPT !.step = "meta"]
    /\ UNCHANGED <<fin, pending, rootNodes, updated, meta, multipart, multi, batches,
                   chunksDone, aborted, crashes>>

PruneMeta ==
    /\ op.kind = "prune" /\ op.step = "meta"
    /\ meta' = [meta EXCEPT !.first = op.v + 1]
    /\ op' = Idle
    /\ UNCHANGED <<fin, pending, rootNodes, updated, logs, multipart, multi, batches,
                   chunksDone, aborted, crashes>>

-----------------------------------------------------------------------------
(* StartMultipartInsert reserves a sequence number for every root type.  The   *)
(* chunk workers of an earlier restore have returned (HandlerReturns).         *)
StartMultipartInsert ==
    /\ op = Idle
    /\ multipart = 0
    /\ \A b \in batches : ~b.chunk
    /\ meta.last < RestoreVersion
    /\ Retry \/ \A t \in Types : meta.next[<<RestoreVersion, t>>] = 0
    /\ meta' = SetMultipart(ReserveRootSeqNo(RestoreVersion, Types), RestoreVersion)
    /\ multipart' = RestoreVersion
    /\ multi' = [t \in Types |-> [seq |-> meta.next[<<RestoreVersion, t>>], index |-> 0,
                                  root |-> "none"]]
    /\ chunksDone' = {}
    /\ UNCHANGED <<fin, pending, rootNodes, updated, logs, batches, op, aborted, crashes>>

AbortMultipartInsert ==
    /\ op = Idle
    /\ multipart # 0
    /\ op' = Step("clean", "meta", multipart, {})
    /\ aborted' = aborted \cup {multipart}
    /\ UNCHANGED <<durable, multipart, multi, batches, chunksDone, crashes>>

(* cleanMultipartLocked: nothing ever writes the log of restored nodes, so     *)
(* only the metadata changes, whether the restore failed or not.               *)
Clean ==
    /\ op.kind = "clean"
    /\ meta' = SetMultipart(meta, 0)
    /\ multipart' = 0
    /\ multi' = NoMulti
    /\ op' = Idle
    /\ UNCHANGED <<fin, pending, rootNodes, updated, logs, batches, chunksDone, aborted, crashes>>

(* The process dies before any write; New then cleans up a restore.            *)
Crash ==
    /\ crashes < MaxCrashes
    /\ crashes' = crashes + 1
    /\ batches' = {}
    /\ chunksDone' = {}
    /\ multipart' = 0
    /\ multi' = NoMulti
    /\ op' = IF meta.mp = 0 THEN Idle ELSE Step("clean", "meta", meta.mp, {})
    /\ aborted' = IF meta.mp = 0 THEN aborted ELSE aborted \cup {meta.mp}
    /\ UNCHANGED durable

Next ==
    \/ \E c \in Commits : NewBatch(c)
    \/ \E r \in Chain[RestoreVersion] : \E ch \in Chunks[r] : NewChunkBatch(r, ch)
    \/ \E b \in batches : Commit(b)
    \/ CommitMeta \/ CommitNodes
    \/ \E v \in Versions : Finalize(v) \/ Prune(v)
    \/ FinalizeLogs \/ FinalizeLone \/ FinalizeKeys \/ FinalizeMeta
    \/ PruneLogs \/ PruneMeta
    \/ StartMultipartInsert \/ AbortMultipartInsert \/ Clean
    \/ Crash

Spec == Init /\ [][Next]_vars

-----------------------------------------------------------------------------
Store == INSTANCE VersionedStore WITH
    Final <- Chain,
    stored <- {p \in Versions \X Roots : Readable(p[2], p[1])},
    diffs <- {l \in logs : GetWriteLog(l[1], l[2], l[3])},
    first <- meta.first,
    last <- meta.last

(* PROPERTY.  The path-based database implements the versioned store too: the  *)
(* shared keys of competing candidates, the copy at finalization and a crash   *)
(* in the middle of it never cost a final root a node, or give it another's.   *)
PathRefines == Store!Spec

(* INVARIANT.  A finalization that was interrupted can be redone: whatever the *)
(* lists of updated nodes still ask to be copied is still there.               *)
CanResume == \A v \in Versions : ToCopy(v) \subseteq DOMAIN pending
=============================================================================
