------------------------------- MODULE NodeDB -------------------------------
(* The Badger node database (go/storage/mkvs/db/badger): content-addressed     *)
(* nodes under version timestamps, root metadata, write logs and the log of    *)
(* nodes inserted by a multipart (checkpoint) restore.  Every durable write of *)
(* an operation is a step of its own, and the process may die between them.    *)
EXTENDS Naturals, FiniteSets, FiniteSetsExt

CONSTANTS
    Nodes,          \* node hashes
    Roots,          \* typed root hashes
    Tree,           \* root -> the nodes of its tree
    MaxVersion,     \* bound on version numbers
    Commits,        \* [old, ov, root, v]: the trees callers commit, "empty" = no old root
    Chain,          \* version -> the roots the caller finalizes
    RestoreVersion, \* the version a checkpoint restores
    Chunks,         \* root -> the chunks (node sets) its checkpoint is cut into
    CrashAt,        \* <<kind, step>>: the writes before which the process may die
    MixedSources,   \* TRUE: one version may be brought up from diffs and by a restore
    MaxCrashes,     \* bound on crashes
    MaxBatches      \* bound on open batches

VARIABLES
    nodes,          \* nodeKeyFmt: hash -> version timestamp -> "none", "set" or "del"
    rootKeys,       \* rootNodeKeyFmt: root -> version timestamp -> same
    rootsMeta,      \* rootsMetadataKeyFmt: version -> (root -> its derived roots)
    updated,        \* rootUpdatedNodesKeyFmt: <<version, root>> -> [put, removed]
    logs,           \* writeLogKeyFmt: <<version, root, old root>>
    mplog,          \* multipartRestoreNodeLogKeyFmt: nodes and roots
    disk,           \* metadataKeyFmt as committed: [first, last, mp]
    mem,            \* d.meta.value, the copy in memory
    multipart,      \* d.multipartVersion, 0 = multipartVersionNone
    batches,        \* batches open and not yet committed
    op,             \* the operation that holds metaUpdateLock
    chunksDone,     \* what the restorer has imported since the insert started
    aborted,        \* versions with an aborted restore
    crashes

durable == <<nodes, rootKeys, rootsMeta, updated, logs, mplog, disk>>
vars == <<nodes, rootKeys, rootsMeta, updated, logs, mplog, disk, mem, multipart,
          batches, op, chunksDone, aborted, crashes>>

Versions == 1..MaxVersion
Idle == [kind |-> "idle", step |-> "none"]
Step(kind, step, v, arg) == [kind |-> kind, step |-> step, v |-> v, arg |-> arg]

-----------------------------------------------------------------------------
(* Badger's managed mode: a read at version v sees the newest entry at or      *)
(* below v, a deletion is an entry, a second write at a timestamp replaces.    *)
Entries(kv, v) == {w \in 1..v : kv[w] # "none"}
Origin(kv, v) == Max(Entries(kv, v))
Visible(kv, v) == Entries(kv, v) # {} /\ kv[Origin(kv, v)] = "set"

WriteAt(kvs, keys, v, what) ==
    [k \in DOMAIN kvs |-> IF k \in keys THEN [kvs[k] EXCEPT ![v] = what] ELSE kvs[k]]

(* checkRoot and GetNode, over the whole tree (Visit).                         *)
Readable(r, v) ==
    /\ v >= mem.first
    /\ Visible(rootKeys[r], v)
    /\ \A n \in Tree[r] : Visible(nodes[n], v)

HasRoot(r, v) == r = "empty" \/ (v >= mem.first /\ r \in DOMAIN rootsMeta[v])

(* ReviveHashedDBWriteLogs: a write log names leaves, which are read back at   *)
(* the root that the log ends in.                                              *)
Revived(v, r, old) ==
    LET oldTree == IF old = "empty" THEN {} ELSE Tree[old]
    IN Visible(rootKeys[r], v) /\ \A n \in Tree[r] \ oldTree : Visible(nodes[n], v)

(* GetWriteLog searches from the end root towards the start root, over at most *)
(* two hops (I/O roots: empty, inputs, inputs and outputs); the shorter path   *)
(* comes first, and a path that was found is the one that is served.           *)
TwoHops ==
    UNION {{<<l[1], l[2], k[3]>> : k \in {h \in logs : h[1] = l[1] /\ h[2] = l[3]}} : l \in logs}
Between(v, r, start) == {l[3] : l \in {h \in logs : h[1] = v /\ h[2] = r /\ <<v, h[3], start>> \in logs}}
GetWriteLog(v, r, start) ==
    /\ v >= mem.first
    /\ Visible(rootKeys[r], v)
    /\ IF <<v, r, start>> \in logs THEN Revived(v, r, start)
       ELSE /\ <<v, r, start>> \in TwoHops
            /\ \A q \in Between(v, r, start) : Revived(v, r, q) /\ Revived(v, q, start)

-----------------------------------------------------------------------------
Init ==
    /\ nodes = [n \in Nodes |-> [v \in Versions |-> "none"]]
    /\ rootKeys = [r \in Roots |-> [v \in Versions |-> "none"]]
    /\ rootsMeta = [v \in Versions |-> << >>]
    /\ updated = << >>
    /\ logs = {}
    /\ mplog = {}
    /\ disk = [first |-> 0, last |-> 0, mp |-> 0]
    /\ mem = disk
    /\ multipart = 0
    /\ batches = {}
    /\ op = Idle
    /\ chunksDone = {}
    /\ aborted = {}
    /\ crashes = 0

(* The caller brings version v up from diffs, or by a restore it has to retry  *)
(* when it was aborted.                                                        *)
DiffsFor(v) == multipart = 0 /\ (v \in aborted => MixedSources)

(* PutNode and RemoveNodes: what a batch from one tree to the next lists.      *)
PutNodes(oldTree, r) == Tree[r] \ oldTree
RemoveNodes(oldTree, r) == oldTree \ Tree[r]

(* RootCache.Apply and tree.Commit up to Batch.Commit: skip a root we have,    *)
(* read the old tree, open the batch, put the new nodes, list the removed ones.*)
NewBatch(c) ==
    /\ op = Idle
    /\ ~HasRoot(c.root, c.v)
    /\ c.old # "empty" => Readable(c.old, c.ov)
    /\ DiffsFor(c.v) /\ (c.ov > mem.last => DiffsFor(c.ov))
    /\ Cardinality(batches) < MaxBatches
    /\ LET oldTree == IF c.old = "empty" THEN {} ELSE Tree[c.old]
       IN batches' = batches \cup {[chunk |-> FALSE, old |-> c.old, ov |-> c.ov,
                        root |-> c.root, v |-> c.v, put |-> PutNodes(oldTree, c.root),
                        removed |-> RemoveNodes(oldTree, c.root), log |-> {}]}
    /\ UNCHANGED <<durable, mem, multipart, op, chunksDone, aborted, crashes>>

(* The restorer imports a chunk: the batch notes which nodes were not there.   *)
NewChunkBatch(r, ch) ==
    /\ op = Idle
    /\ multipart = RestoreVersion
    /\ <<r, ch>> \notin chunksDone
    /\ Cardinality(batches) < MaxBatches
    /\ batches' = batches \cup {[chunk |-> TRUE, old |-> "empty", ov |-> multipart,
                      root |-> r, v |-> multipart, put |-> ch, removed |-> {},
                      log |-> {n \in ch : ~Visible(nodes[n], multipart)} \cup {r}]}
    /\ UNCHANGED <<durable, mem, multipart, op, chunksDone, aborted, crashes>>

CommitFails(b) ==
    \/ multipart # 0 /\ multipart # b.v
    \/ mem.last >= b.v
    \/ /\ ~b.chunk
       /\ b.old # "empty"
       /\ \/ b.ov < mem.first /\ b.ov # b.v
          \/ b.old \notin DOMAIN rootsMeta[b.ov]

(* Commit returns an error, or finds the root and has nothing to do.           *)
CommitSkips(b) == CommitFails(b) \/ (~b.chunk /\ b.root \in DOMAIN rootsMeta[b.v])

Commit(b) ==
    /\ op = Idle
    /\ batches' = batches \ {b}
    /\ op' = IF CommitSkips(b) THEN Idle
             ELSE Step("commit", IF b.chunk THEN "log" ELSE "nodes", b.v, b)
    /\ UNCHANGED <<durable, mem, multipart, chunksDone, aborted, crashes>>

(* The three durable writes of Commit, in order.                               *)
CommitLog ==
    /\ op.kind = "commit" /\ op.step = "log"
    /\ mplog' = mplog \cup op.arg.log
    /\ op' = [op EXCEPT !.step = "nodes"]
    /\ UNCHANGED <<nodes, rootKeys, rootsMeta, updated, logs, disk, mem, multipart,
                   batches, chunksDone, aborted, crashes>>

CommitNodes ==
    /\ op.kind = "commit" /\ op.step = "nodes"
    /\ nodes' = WriteAt(nodes, op.arg.put, op.v, "set")
    /\ rootKeys' = WriteAt(rootKeys, {op.arg.root}, op.v, "set")
    /\ logs' = IF op.arg.chunk THEN logs
               ELSE logs \cup {<<op.v, op.arg.root, op.arg.old>>}
    /\ op' = [op EXCEPT !.step = "meta"]
    /\ UNCHANGED <<rootsMeta, updated, mplog, disk, mem, multipart, batches,
                   chunksDone, aborted, crashes>>

AddRoot(rm, r) == [q \in DOMAIN rm \cup {r} |-> IF q \in DOMAIN rm THEN rm[q] ELSE {}]
AddDerived(rm, r, q) == [rm EXCEPT ![r] = @ \cup {q}]

CommitMeta ==
    /\ op.kind = "commit" /\ op.step = "meta"
    /\ LET b == op.arg
           added == [rootsMeta EXCEPT ![b.v] = AddRoot(@, b.root)]
           key == <<b.v, b.root>>
       IN /\ rootsMeta' = IF b.chunk \/ b.old = "empty" THEN added
                          ELSE [added EXCEPT ![b.ov] = AddDerived(@, b.old, b.root)]
          /\ updated' = [k \in DOMAIN updated \cup {key} |->
                            IF k # key THEN updated[k]
                            ELSE IF b.chunk THEN [put |-> {}, removed |-> {}]
                            ELSE [put |-> b.put, removed |-> b.removed]]
          /\ chunksDone' = IF b.chunk THEN chunksDone \cup {<<b.root, b.put>>} ELSE chunksDone
    /\ op' = Idle
    /\ UNCHANGED <<nodes, rootKeys, logs, mplog, disk, mem, multipart, batches,
                   aborted, crashes>>

-----------------------------------------------------------------------------
(* Finalization is transitive: the roots a finalized one derives from in the   *)
(* same version are finalized with it.                                         *)
Finalized(v, roots) ==
    LET rm == rootsMeta[v]
        close[n \in Nat] ==
            IF n = 0 THEN roots
            ELSE LET fin == close[n - 1]
                 IN fin \cup {r \in DOMAIN rm : rm[r] \cap fin # {}}
    IN close[Cardinality(DOMAIN rm)]

LoneNodesShared(v, fin) ==
    LET up(r) == updated[<<v, r>>]
        kept == DOMAIN rootsMeta[v] \cap fin
        gone == DOMAIN rootsMeta[v] \ fin
    IN (UNION {up(r).removed : r \in kept}) \cup (UNION {up(r).put : r \in gone})

(* Lone nodes: those removed by a finalized root or put by a discarded one,    *)
(* unless a finalized root put them in this version too.                       *)
LoneNodes(v, fin) ==
    LET up(r) == updated[<<v, r>>]
        kept == DOMAIN rootsMeta[v] \cap fin
        gone == DOMAIN rootsMeta[v] \ fin
    IN ((UNION {up(r).removed : r \in kept}) \cup (UNION {up(r).put : r \in gone}))
       \ (UNION {up(r).put : r \in kept})

(* The write logs left: those of version v end in a finalized root.            *)
KeptLogs(v, fin) == {l \in logs : l[1] = v => l[2] \in fin}

(* Checks and the version batch.  A restore is finalized by its caller only    *)
(* after every chunk of every root was imported.                               *)
Finalize(v) ==
    /\ op = Idle
    /\ multipart \in {0, v}
    /\ \/ DiffsFor(v)
       \/ /\ multipart = v
          /\ \A r \in Chain[v] : \A ch \in Chunks[r] : <<r, ch>> \in chunksDone
    /\ multipart = 0 /\ mem.last > 0 => mem.last + 1 >= v
    /\ v > mem.last
    /\ LET fin == Finalized(v, Chain[v])
       IN /\ fin \subseteq DOMAIN rootsMeta[v]
          /\ nodes' = WriteAt(nodes, LoneNodes(v, fin), v, "del")
          /\ logs' = KeptLogs(v, fin)
          /\ op' = Step("finalize", "meta", v, fin)
    /\ UNCHANGED <<rootKeys, rootsMeta, updated, mplog, disk, mem, multipart, batches,
                   chunksDone, aborted, crashes>>

(* setLastFinalizedVersion, the roots metadata and the updated-node lists go   *)
(* in one transaction; a restore then clears its log.                          *)
FinalizeMeta ==
    /\ op.kind = "finalize"
    /\ rootsMeta' = [rootsMeta EXCEPT ![op.v] =
                        [r \in DOMAIN @ \cap op.arg |-> @[r]]]
    /\ updated' = [k \in {k \in DOMAIN updated : k[1] # op.v} |-> updated[k]]
    /\ mem' = [mem EXCEPT !.last = op.v, !.first = IF mem.last = 0 THEN op.v ELSE @]
    /\ disk' = mem'
    /\ op' = IF multipart = 0 THEN Idle ELSE Step("done", "log", multipart, {})
    /\ UNCHANGED <<nodes, rootKeys, logs, mplog, multipart, batches, chunksDone,
                   aborted, crashes>>

-----------------------------------------------------------------------------
(* Prune walks every lone root of the version and deletes what was put in it.  *)
LoneRoots(v) == {r \in DOMAIN rootsMeta[v] : rootsMeta[v][r] = {}}

Prune(v) ==
    /\ op = Idle
    /\ multipart = 0
    /\ mem.last > v
    /\ v = mem.first
    /\ \A r \in LoneRoots(v) : Readable(r, v)
    /\ nodes' = WriteAt(nodes, {n \in UNION {Tree[r] : r \in LoneRoots(v)} :
                                   Origin(nodes[n], v) = v}, v, "del")
    /\ rootKeys' = WriteAt(rootKeys, LoneRoots(v), v, "del")
    /\ logs' = {l \in logs : l[1] # v}
    /\ op' = Step("prune", "meta", v, {})
    /\ UNCHANGED <<rootsMeta, updated, mplog, disk, mem, multipart, batches,
                   chunksDone, aborted, crashes>>

PruneMeta ==
    /\ op.kind = "prune"
    /\ rootsMeta' = [rootsMeta EXCEPT ![op.v] = << >>]
    /\ mem' = [mem EXCEPT !.first = op.v + 1]
    /\ disk' = mem'
    /\ op' = Idle
    /\ UNCHANGED <<nodes, rootKeys, updated, logs, mplog, multipart, batches,
                   chunksDone, aborted, crashes>>

-----------------------------------------------------------------------------
StartMultipartInsert ==
    /\ op = Idle
    /\ multipart = 0
    /\ mem.last < RestoreVersion
    /\ MixedSources \/ RestoreVersion \in aborted
          \/ /\ rootsMeta[RestoreVersion] = << >>
             /\ \A b \in batches : b.v # RestoreVersion
    /\ mem' = [mem EXCEPT !.mp = RestoreVersion]
    /\ disk' = mem'
    /\ multipart' = RestoreVersion
    /\ chunksDone' = {}
    /\ UNCHANGED <<nodes, rootKeys, rootsMeta, updated, logs, mplog, batches, op,
                   aborted, crashes>>

(* AbortMultipartInsert: cleanMultipartLocked(true).                           *)
AbortMultipartInsert ==
    /\ op = Idle
    /\ multipart # 0
    /\ op' = Step("abort", "log", multipart, {})
    /\ aborted' = aborted \cup {multipart}
    /\ UNCHANGED <<durable, mem, multipart, batches, chunksDone, crashes>>

(* cleanMultipartLocked: the batch first, then the metadata.  A restore that   *)
(* was finalized ("done") only clears its log.                                 *)
CleanLog ==
    /\ op.kind \in {"abort", "done"} /\ op.step = "log"
    /\ LET remove == IF op.kind = "abort" THEN mplog ELSE {}
       IN /\ nodes' = WriteAt(nodes, remove \cap Nodes, op.v, "del")
          /\ rootKeys' = WriteAt(rootKeys, remove \cap Roots, op.v, "del")
    /\ mplog' = {}
    /\ op' = [op EXCEPT !.step = "meta"]
    /\ UNCHANGED <<rootsMeta, updated, logs, disk, mem, multipart, batches,
                   chunksDone, aborted, crashes>>

CleanMeta ==
    /\ op.kind \in {"abort", "done"} /\ op.step = "meta"
    /\ mem' = [mem EXCEPT !.mp = 0]
    /\ disk' = mem'
    /\ multipart' = 0
    /\ op' = Idle
    /\ UNCHANGED <<nodes, rootKeys, rootsMeta, updated, logs, mplog, batches,
                   chunksDone, aborted, crashes>>

(* The process dies and New opens the database again: load, then               *)
(* cleanMultipartLocked(true) for a restore that was in progress.              *)
Crash ==
    /\ crashes < MaxCrashes
    /\ <<op.kind, op.step>> \in CrashAt
    /\ crashes' = crashes + 1
    /\ batches' = {}
    /\ chunksDone' = {}
    /\ mem' = disk
    /\ multipart' = 0
    /\ op' = IF disk.mp = 0 THEN Idle ELSE Step("abort", "log", disk.mp, {})
    /\ aborted' = IF disk.mp = 0 THEN aborted ELSE aborted \cup {disk.mp}
    /\ UNCHANGED durable

Next ==
    \/ \E c \in Commits : NewBatch(c)
    \/ \E r \in Chain[RestoreVersion] : \E ch \in Chunks[r] : NewChunkBatch(r, ch)
    \/ \E b \in batches : Commit(b)
    \/ CommitLog \/ CommitNodes \/ CommitMeta
    \/ \E v \in Versions : Finalize(v) \/ Prune(v)
    \/ FinalizeMeta \/ PruneMeta
    \/ StartMultipartInsert \/ AbortMultipartInsert
    \/ CleanLog \/ CleanMeta
    \/ Crash

Spec == Init /\ [][Next]_vars
-----------------------------------------------------------------------------
(* The promise of a node database, on what is readable and durable.            *)
Store == INSTANCE VersionedStore WITH
    Final <- Chain,
    stored <- {p \in Versions \X Roots : HasRoot(p[2], p[1]) /\ Readable(p[2], p[1])},
    diffs <- {l \in logs \cup TwoHops : GetWriteLog(l[1], l[2], l[3])},
    first <- disk.first,
    last <- disk.last

(* PROPERTY.  The Badger database implements the versioned store: whatever    *)
(* interleaving of batches, chunks, Finalize, Prune, aborts and crashes, a    *)
(* root that Finalize was asked to keep is readable when its version becomes  *)
(* final, and it and its write logs stay until the version is pruned.         *)
BadgerRefines == Store!Spec
=============================================================================
