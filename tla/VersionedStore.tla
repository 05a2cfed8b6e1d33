--------------------------- MODULE VersionedStore ---------------------------
(* What a node database (go/storage/mkvs/db/api, NodeDB) promises its          *)
(* callers: a set of readable roots per version and the write logs that lead   *)
(* to them, of which the versions from first to last are final.  What is final *)
(* is lost only by pruning, and pruning only takes the earliest version while  *)
(* a later one is final.  Everything above last may come and go: batches       *)
(* commit into it, aborted restores, crashes and finalization drop candidates. *)
EXTENDS Naturals

CONSTANTS
    Versions,   \* version numbers, a set of naturals above 0
    Roots,      \* typed root hashes
    Final       \* version -> the roots that are asked to be finalized in it

VARIABLES
    stored,     \* <<version, root>> pairs whose whole tree can be read
    diffs,      \* <<version, root, old root>>: the write logs that can be served
    first,      \* earliest version, 0 before the first finalization
    last        \* last finalized version, 0 when there is none

vars == <<stored, diffs, first, last>>

Init ==
    /\ stored = {}
    /\ diffs = {}
    /\ first = 0
    /\ last = 0

Lost(S, T) == S \ T
Changed(S, T) == (S \ T) \cup (T \ S)

(* Batch.Commit (of a whole batch, or of the chunk that completes a root) and  *)
(* the loss of candidates: only versions that are not final change, and a root *)
(* that finalization will keep does not lose its write log alone.              *)
Revise ==
    /\ stored' \subseteq Versions \X Roots
    /\ \A d \in diffs' : d[1] \in Versions
    /\ \A p \in Changed(stored, stored') \cup Changed(diffs, diffs') : p[1] > last
    /\ \A d \in Lost(diffs, diffs') : d[2] \in Final[d[1]] => <<d[1], d[2]>> \notin stored'
    /\ UNCHANGED <<first, last>>

(* Finalize(roots): the roots asked for are readable and keep their write      *)
(* logs, the others may go, and write logs of the version may be served from   *)
(* now on; the first version to be final also ends everything below it.        *)
Finalize(v) ==
    /\ v > last
    /\ stored' \subseteq stored
    /\ \A d \in diffs' \ diffs : d[1] = v
    /\ \A p \in Lost(stored, stored') \cup Lost(diffs, diffs') :
          \/ p[1] = v /\ p[2] \notin Final[v]
          \/ last = 0 /\ p[1] < v
    /\ \A r \in Final[v] : <<v, r>> \in stored'
    /\ last' = v
    /\ first' = IF last = 0 THEN v ELSE first

(* Prune(first), in durable steps: the data goes, then the version.            *)
Erase ==
    /\ first < last
    /\ stored' \subseteq stored
    /\ diffs' \subseteq diffs
    /\ \A p \in Lost(stored, stored') \cup Lost(diffs, diffs') : p[1] = first
    /\ UNCHANGED <<first, last>>

Prune ==
    /\ first > 0
    /\ first < last
    /\ stored' = {p \in stored : p[1] # first}
    /\ diffs' = {d \in diffs : d[1] # first}
    /\ first' = first + 1
    /\ UNCHANGED last

Next == Revise \/ Erase \/ Prune \/ \E v \in Versions : Finalize(v)

Spec == Init /\ [][Next]_vars

-----------------------------------------------------------------------------
TypeOK ==
    /\ stored \subseteq Versions \X Roots
    /\ \A d \in diffs : d[1] \in Versions
    /\ first \in Nat
    /\ last \in Nat

(* The window of final versions is empty, or it runs from first to last.       *)
Window == first <= last /\ (first = 0 <=> last = 0)

(* A final root or write log leaves only with the earliest version, while a    *)
(* later version is final.                                                     *)
FinalIsDurable ==
    [][\A p \in Lost(stored, stored') \cup Lost(diffs, diffs') :
          (first <= p[1] /\ p[1] <= last) => p[1] = first /\ first < last]_vars
=============================================================================
