-------------------------------- MODULE Migrate --------------------------------
(* Migration of a node database between formats                                *)
(* (go/storage/mkvs/db/badger/migrate.go): version 3 to 4 rewrites metadata    *)
(* keys one by one, version 4 to 5 rewrites the trees of the versions that are *)
(* kept and prunes the others.  Changes collect in a write batch; a flush also *)
(* saves the progress, from which an interrupted migration resumes.            *)
EXTENDS Integers, FiniteSets

CONSTANTS
    Base,             \* format of the database to begin with: 3 or 4
    NumKeys,          \* keys of the format 3 to 4 pass, in the order of the pass
    KindOf,           \* key -> "metadata", "roots", "log", "updated" or "multipart"
    RootKey,          \* key of a root -> the key of the roots metadata that names the
                      \* root's type, 0 when the node's history knows it
    Stale,            \* keys of roots metadata with roots of no known type
    LastVersion,      \* the last version with roots
    FirstKept,        \* the last finalized version, the first one kept
    NodesOf,          \* version -> nodes of its tree
    flushInterval,
    MaxCrashes        \* bound

Versions == 0..LastVersion
KeptVersions == FirstKept..LastVersion
KindEnds == {k \in 1..NumKeys : k = NumKeys \/ KindOf[k + 1] # KindOf[k]}
dbVersion == 5

VARIABLES
    disk,        \* what the database holds
    mem,         \* what it will hold once the batch is flushed
    snap,        \* what the read transaction sees
    m,           \* the migrator: pc, flushRemain, deleteKeys and its progress
    crashes

mvars == <<disk, mem, snap, m, crashes>>

NoMeta == [base |-> 0, lastKey |-> 0, migrated |-> LastVersion + 1, pruned |-> FirstKept]
NewDB ==
    [version |-> Base, meta |-> NoMeta, earliest |-> 0,
     keys |-> [k \in 1..NumKeys |-> Base],
     roots |-> [v \in Versions |-> 4], logs |-> [v \in Versions |-> 4],
     old |-> UNION {NodesOf[v] : v \in Versions}, new |-> {}]
NewMigrator(pc, meta) == [pc |-> pc, remain |-> flushInterval, dels |-> {}, meta |-> meta]

InitMigration ==
    /\ disk = NewDB /\ mem = NewDB /\ snap = NewDB
    /\ m = NewMigrator("probe", NoMeta) /\ crashes = 0

(* flush: save or remove the progress and commit the batch, every so often or  *)
(* when forced.                                                                *)
Progress(db, g, done) == [db EXCEPT !.meta = IF done THEN NoMeta ELSE g.meta]
Flush(db, g, force, done) ==
    IF force \/ g.remain = 0
    THEN LET saved == Progress(db, g, done)
         IN  /\ disk' = saved /\ mem' = saved
             /\ m' = [g EXCEPT !.remain = flushInterval]
    ELSE mem' = db /\ m' = [g EXCEPT !.remain = @ - 1] /\ UNCHANGED disk

-----------------------------------------------------------------------------
(* Migrate: a migration in progress is resumed with the migrator it began      *)
(* with, although the metadata may name the new format already.                *)
ByFormat == disk.version
Origin == IF disk.meta.base # 0 THEN disk.meta.base ELSE disk.version
Probe ==
    /\ m.pc = "probe"
    /\ m' = IF Origin = dbVersion THEN [m EXCEPT !.pc = "done"]
            ELSE NewMigrator(IF Origin = 3 THEN "keys" ELSE "meta", [disk.meta EXCEPT !.base = Origin])
    /\ mem' = disk /\ snap' = disk
    /\ UNCHANGED <<disk, crashes>>

(* getRootType finds the type of a key's root in the history or in the roots   *)
(* metadata that the read transaction sees in the new format.                  *)
Rewritten(db, k) == [db EXCEPT !.keys[k] = 4]
Removed(db, k) == [db EXCEPT !.keys[k] = 0]
Typed(k) == RootKey[k] = 0 \/ snap.keys[RootKey[k]] = 4
KeyMetadata(db, k) == [Rewritten(db, k) EXCEPT !.version = 4]
KeyRootsMetadata(db, k) == IF k \in Stale THEN Removed(db, k) ELSE Rewritten(db, k)
KeyWriteLog(db, k) == IF Typed(k) THEN Rewritten(db, k) ELSE Removed(db, k)
KeyRootUpdatedNodes(db, k) == Rewritten(db, k)
KeyMultipartRestoreNodeLog(db, k) == Rewritten(db, k)
KeyFunc(db, k) ==
    CASE KindOf[k] = "metadata" -> KeyMetadata(db, k)
      [] KindOf[k] = "roots" -> KeyRootsMetadata(db, k)
      [] KindOf[k] = "log" -> KeyWriteLog(db, k)
      [] KindOf[k] = "updated" -> KeyRootUpdatedNodes(db, k)
      [] OTHER -> KeyMultipartRestoreNodeLog(db, k)

(* v4: migrateMeta handles the key after the last processed one; a pass over   *)
(* one kind of keys ends with a forced flush and a new read transaction.       *)
NewTransaction(k) == IF k \in KindEnds THEN disk' ELSE snap
MigrateKey ==
    LET k == m.meta.lastKey + 1
    IN  /\ m.pc = "keys" /\ k <= NumKeys
        /\ IF KindOf[k] = "updated" /\ ~Typed(k)
           THEN m' = [m EXCEPT !.pc = "failed"] /\ UNCHANGED <<disk, mem>>
           ELSE Flush(KeyFunc(mem, k), [m EXCEPT !.meta.lastKey = k], k \in KindEnds, FALSE)
        /\ snap' = NewTransaction(k)
        /\ UNCHANGED crashes
KeysDone ==
    /\ m.pc = "keys" /\ m.meta.lastKey = NumKeys
    /\ Flush(mem, [m EXCEPT !.pc = "probe"], TRUE, TRUE)
    /\ UNCHANGED <<snap, crashes>>

-----------------------------------------------------------------------------
(* v5: the new metadata goes into the first batch.                             *)
StartV5 ==
    /\ m.pc = "meta"
    /\ mem' = [mem EXCEPT !.version = 5] /\ snap' = disk
    /\ m' = [m EXCEPT !.pc = "versions"]
    /\ UNCHANGED <<disk, crashes>>

(* migrateVersion, from the last one down: nodes, the write logs to the        *)
(* derived roots of the next version, the roots; what was replaced is deleted  *)
(* in the next batch, since older versions may share it.                       *)
Unreadable(v) == snap.roots[v] # 4 \/ ~(NodesOf[v] \subseteq snap.old)
MigrateNode(db, v) == [db EXCEPT !.new = @ \cup NodesOf[v]]
MigrateVersion ==
    LET v == m.meta.migrated - 1
        logs == {u \in Versions : u = v + 1}
    IN  /\ m.pc = "versions" /\ v >= FirstKept
        /\ IF Unreadable(v) THEN m' = [m EXCEPT !.pc = "failed"] /\ UNCHANGED <<disk, mem>>
           ELSE Flush([MigrateNode(mem, v) EXCEPT !.roots[v] = 5,
                                  !.logs = [u \in Versions |-> IF u \in logs THEN 5 ELSE @[u]]],
                      [m EXCEPT !.meta.migrated = v, !.dels = NodesOf[v], !.pc = "delete"], FALSE, FALSE)
        /\ UNCHANGED <<snap, crashes>>
DeletePending ==
    /\ m.pc = "delete"
    /\ mem' = [mem EXCEPT !.old = @ \ m.dels]
    /\ m' = [m EXCEPT !.dels = {}, !.pc = "versions"]
    /\ snap' = disk
    /\ UNCHANGED <<disk, crashes>>

(* The write logs that lead to the first version, then the versions before it. *)
PruneLogs ==
    /\ m.pc = "versions" /\ m.meta.migrated = FirstKept
    /\ mem' = [mem EXCEPT !.logs[FirstKept] = 0]
    /\ m' = [m EXCEPT !.pc = "prune"]
    /\ UNCHANGED <<disk, snap, crashes>>
PruneVersion ==
    LET v == m.meta.pruned - 1
    IN  /\ m.pc = "prune" /\ v >= 0
        /\ Flush([mem EXCEPT !.roots[v] = 0, !.logs[v] = 0], [m EXCEPT !.meta.pruned = v], FALSE, FALSE)
        /\ UNCHANGED <<snap, crashes>>
Finish ==
    /\ m.pc = "prune" /\ m.meta.pruned = 0
    /\ Flush([mem EXCEPT !.earliest = FirstKept], [m EXCEPT !.pc = "probe"], TRUE, TRUE)
    /\ UNCHANGED <<snap, crashes>>

(* A crash loses the batch.                                                    *)
MigrationCrash ==
    /\ crashes < MaxCrashes /\ m.pc \notin {"done", "failed"}
    /\ m' = NewMigrator("probe", NoMeta) /\ mem' = disk /\ snap' = disk
    /\ crashes' = crashes + 1
    /\ UNCHANGED disk

MigrationNext ==
    \/ Probe \/ MigrateKey \/ KeysDone
    \/ StartV5 \/ MigrateVersion \/ DeletePending \/ PruneLogs \/ PruneVersion \/ Finish
    \/ MigrationCrash
MigrationSpec == InitMigration /\ [][MigrationNext]_mvars

-----------------------------------------------------------------------------
(* What a database in one of the two formats satisfies: the metadata key comes *)
(* first, the roots metadata of a write log or of a list of updated nodes      *)
(* before it, a list of updated nodes belongs to a root of a known type.       *)
(* Nodes are deleted one batch late, so no node is in the trees of kept        *)
(* versions two or more apart, unless no flush happens between kept versions.  *)
Spread == \A v, w \in KeptVersions : v + 2 <= w => NodesOf[v] \cap NodesOf[w] = {}
MigrationSettings ==
    /\ Base \in {3, 4} /\ flushInterval \in Nat
    /\ LastVersion \in Nat /\ FirstKept \in 0..LastVersion
    /\ Spread \/ LastVersion - FirstKept < flushInterval
    /\ NumKeys \in Nat \ {0} /\ KindOf[1] = "metadata"
    /\ \A k \in 1..NumKeys : KindOf[k] \in {"metadata", "roots", "log", "updated", "multipart"}
    /\ Stale \subseteq {k \in 1..NumKeys : KindOf[k] = "roots"}
    /\ \A k \in 1..NumKeys : KindOf[k] \in {"log", "updated"} /\ RootKey[k] # 0 =>
         RootKey[k] \in 1..(k - 1) /\ KindOf[RootKey[k]] = "roots"
    /\ \A k \in 1..NumKeys : KindOf[k] = "updated" => RootKey[k] \notin Stale

(* Roots metadata with roots of no known type, and the write logs of such      *)
(* roots, are not worth keeping.                                               *)
Unknown == Stale \cup {k \in 1..NumKeys : KindOf[k] = "log" /\ RootKey[k] \in Stale}

(* INVARIANT.  Interrupted at any point and resumed, the migration does not    *)
(* fail, and when it is done all keys are in the new format but for those that *)
(* are stale, every kept version has its roots, its nodes and the write logs   *)
(* between kept versions in the new format, the others are gone, and no        *)
(* migration is in progress.                                                   *)
MigrationComplete ==
    /\ m.pc # "failed"
    /\ m.pc = "done" =>
        /\ \A k \in 1..NumKeys : disk.keys[k] = IF Base = 3 /\ k \in Unknown THEN 0 ELSE 4
        /\ \A v \in KeptVersions : disk.roots[v] = 5 /\ NodesOf[v] \subseteq disk.new
        /\ \A v \in KeptVersions \ {FirstKept} : disk.logs[v] = 5
        /\ \A v \in 0..(FirstKept - 1) : disk.roots[v] = 0 /\ disk.logs[v] = 0
        /\ disk.earliest = FirstKept /\ disk.meta = NoMeta
=============================================================================
