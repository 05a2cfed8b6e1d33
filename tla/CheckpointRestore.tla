--------------------------- MODULE CheckpointRestore ---------------------------
(***************************************************************************)
(* The restoration of one checkpoint by the storage worker: handleCheckpoint *)
(* and its chunk fetchers, go/worker/storage/committee/checkpoint_sync.go,   *)
(* over the restorer, go/storage/mkvs/checkpoint/restorer.go.                *)
(*                                                                         *)
(* Chunks are their indices.  The two buffered channels are sequences; the   *)
(* unbuffered dispatch channel is a joint step of handler and fetcher.  The  *)
(* signal of completion, a nil chunk, is Nil.                                *)
(***************************************************************************)
EXTENDS Integers, Sequences, FiniteSets

CONSTANTS
  NumChunks,   \* len(check.Chunks)
  Fetchers,    \* the fetcher goroutines, ChunkFetcherCount of them
  Faults,      \* what can go wrong: a subset of FaultKinds
  MaxFaults,   \* bound on how often
  Nil

FaultKinds == {"fetch", "corrupt", "proof", "local", "stop"}

ASSUME RestoreAssumption ==
  /\ NumChunks \in Nat \ {0} /\ MaxFaults \in Nat
  /\ IsFiniteSet(Fetchers) /\ Fetchers # {}
  /\ Faults \subseteq FaultKinds
  /\ Nil \notin 0..(NumChunks - 1) /\ Nil \notin {"Done", "Next", "Bail"}

VARIABLES
  restoring,   \* restorer: currentCheckpoint # nil
  pending,     \* restorer: pendingChunks
  imported,    \* the chunks that are in the node database
  heap,        \* chunks to dispatch
  returnCh,    \* chunkReturnCh
  errorCh,     \* errorCh
  handler,     \* "select", "draining" (waiting for doneCh) or "returned"
  status,      \* cpStatus, once handleCheckpoint has decided it
  stopped,     \* the node's context is done
  pc,          \* where each fetcher is
  held,        \* the chunk it has received
  faults

vars == <<restoring, pending, imported, heap, returnCh, errorCh, handler, status, stopped,
          pc, held, faults>>

Chunks == 0..(NumChunks - 1)
MaxParallelRequests == Cardinality(Fetchers)

Sending == {"sendChunk", "sendDone", "sendNext", "sendBail"}
Locations == {"idle", "fetch", "check", "import", "mark", "abort", "exited"} \union Sending

\* Every variable has its type; neither channel overflows, and a fetcher holds
\* a chunk exactly while it works on one (checkpoint_sync.go 87-157, 184-185).
TypeOK ==
  /\ restoring \in BOOLEAN
  /\ pending \subseteq Chunks /\ imported \subseteq Chunks /\ heap \subseteq Chunks
  /\ returnCh \in Seq(Chunks \union {Nil}) /\ Len(returnCh) <= MaxParallelRequests
  /\ errorCh \in Seq({"Next", "Bail"}) /\ Len(errorCh) <= MaxParallelRequests
  /\ handler \in {"select", "draining", "returned"}
  /\ status \in {Nil, "Done", "Next", "Bail"}
  /\ (handler = "select") = (status = Nil)
  /\ stopped \in BOOLEAN
  /\ pc \in [Fetchers -> Locations]
  /\ held \in [Fetchers -> Chunks \union {Nil}]
  /\ \A f \in Fetchers : (held[f] = Nil) = (pc[f] \in {"idle", "exited", "sendDone"})
  /\ faults \in 0..MaxFaults

\* StartRestore has succeeded and the fetchers have been started.
Init ==
  /\ restoring = TRUE /\ pending = Chunks /\ imported = {}
  /\ heap = Chunks /\ returnCh = <<>> /\ errorCh = <<>>
  /\ handler = "select" /\ status = Nil /\ stopped = FALSE
  /\ pc = [f \in Fetchers |-> "idle"] /\ held = [f \in Fetchers |-> Nil]
  /\ faults = 0

Fault(kind) == kind \in Faults /\ faults < MaxFaults /\ faults' = faults + 1

Go(f, location) == pc' = [pc EXCEPT ![f] = location]

Drop(f, location) == Go(f, location) /\ held' = [held EXCEPT ![f] = Nil]

Restorer == <<restoring, pending, imported>>
Channels == <<heap, returnCh, errorCh>>
Handler == <<handler, status, stopped>>

\* The context of the fetchers: cancelled when the handler leaves its loop or
\* the node stops.
Cancelled == stopped \/ handler # "select"

----------------------------------------------------------------------------
(* A fetcher, checkpointChunkFetcher and RestoreChunk.                       *)

\* Fetch chunk from peers.
Fetch(f) ==
  /\ pc[f] = "fetch"
  /\ \/ Go(f, "check") /\ UNCHANGED faults
     \/ Go(f, "sendChunk") /\ Cancelled /\ UNCHANGED faults
     \/ Go(f, "sendChunk") /\ Fault("fetch")
  /\ UNCHANGED <<Restorer, Channels, Handler, held>>

\* RestoreChunk, first critical section.
Check(f) ==
  /\ pc[f] = "check"
  /\ Go(f, IF restoring /\ held[f] \in pending THEN "import" ELSE "sendBail")
  /\ UNCHANGED <<Restorer, Channels, Handler, held, faults>>

\* restoreChunk, outside of the lock.
Import(f) ==
  /\ pc[f] = "import"
  /\ \/ /\ Go(f, "mark") /\ imported' = imported \union {held[f]} /\ UNCHANGED faults
     \/ /\ Go(f, "sendChunk") /\ Fault("corrupt") /\ UNCHANGED imported
     \/ /\ Go(f, "abort") /\ Fault("proof") /\ UNCHANGED imported
     \/ /\ Go(f, "sendBail") /\ Fault("local") /\ UNCHANGED imported
     \/ /\ Go(f, "sendBail") /\ Cancelled /\ UNCHANGED <<imported, faults>>
  /\ UNCHANGED <<restoring, pending, Channels, Handler, held>>

\* Mutant: the restore is complete when at most one chunk is pending.
MutMark_OffByOne(f) ==
  /\ pc[f] = "mark"
  /\ pending' = pending \ {held[f]}
  /\ restoring' = (Cardinality(pending') > 1)
  /\ Drop(f, IF ~restoring' THEN "sendDone" ELSE "idle")
  /\ UNCHANGED <<imported, Channels, Handler, faults>>

\* RestoreChunk, second critical section.
Mark(f) ==
  /\ pc[f] = "mark"
  /\ pending' = pending \ {held[f]}
  /\ restoring' = (restoring /\ pending' # {})
  /\ Drop(f, IF pending' = {} THEN "sendDone" ELSE "idle")
  /\ UNCHANGED <<imported, Channels, Handler, faults>>

\* The proof of the chunk did not verify: RestoreChunk calls AbortRestore.
Abort(f) ==
  /\ pc[f] = "abort"
  /\ pending' = {} /\ restoring' = FALSE
  /\ Go(f, "sendNext")
  /\ UNCHANGED <<imported, Channels, Handler, held, faults>>

\* Mutant: a chunk that could not be fetched is forgotten.
MutSend_Forget(f) ==
  /\ \/ pc[f] = "sendChunk" /\ UNCHANGED <<returnCh, errorCh>> /\ Drop(f, "idle")
     \/ pc[f] = "sendDone" /\ returnCh' = Append(returnCh, Nil) /\ UNCHANGED errorCh /\ Drop(f, "exited")
     \/ /\ pc[f] \in {"sendNext", "sendBail"} /\ UNCHANGED returnCh /\ Drop(f, "exited")
        /\ errorCh' = Append(errorCh, IF pc[f] = "sendNext" THEN "Next" ELSE "Bail")
  /\ UNCHANGED <<Restorer, heap, Handler, faults>>

\* Mutant: a full channel does not block the sender.
MutSend_NoLimit(f) ==
  /\ \/ pc[f] = "sendChunk" /\ returnCh' = Append(returnCh, held[f]) /\ UNCHANGED errorCh /\ Drop(f, "idle")
     \/ pc[f] = "sendDone" /\ returnCh' = Append(returnCh, Nil) /\ UNCHANGED errorCh /\ Drop(f, "exited")
     \/ /\ pc[f] \in {"sendNext", "sendBail"} /\ UNCHANGED returnCh /\ Drop(f, "exited")
        /\ errorCh' = Append(errorCh, IF pc[f] = "sendNext" THEN "Next" ELSE "Bail")
  /\ UNCHANGED <<Restorer, heap, Handler, faults>>

\* The result goes to the handler; the send blocks while the channel is full.
Send(f) ==
  /\ \/ /\ pc[f] = "sendChunk" /\ Len(returnCh) < MaxParallelRequests
        /\ returnCh' = Append(returnCh, held[f]) /\ UNCHANGED errorCh
        /\ Drop(f, "idle")
     \/ /\ pc[f] = "sendDone" /\ Len(returnCh) < MaxParallelRequests
        /\ returnCh' = Append(returnCh, Nil) /\ UNCHANGED errorCh
        /\ Drop(f, "exited")
     \/ /\ pc[f] \in {"sendNext", "sendBail"} /\ Len(errorCh) < MaxParallelRequests
        /\ errorCh' = Append(errorCh, IF pc[f] = "sendNext" THEN "Next" ELSE "Bail")
        /\ UNCHANGED returnCh
        /\ Drop(f, "exited")
  /\ UNCHANGED <<Restorer, heap, Handler, faults>>

\* Mutant: the fetchers leave when there is nothing to dispatch.
MutExit_Eager(f) ==
  /\ pc[f] = "idle" /\ (Cancelled \/ heap = {})
  /\ Go(f, "exited")
  /\ UNCHANGED <<Restorer, Channels, Handler, held, faults>>

\* An idle fetcher sees that its context is done.
Exit(f) ==
  /\ pc[f] = "idle" /\ Cancelled
  /\ Go(f, "exited")
  /\ UNCHANGED <<Restorer, Channels, Handler, held, faults>>

----------------------------------------------------------------------------
(* The handler: one action per case of the select of handleCheckpoint.       *)

Exited == \A f \in Fetchers : pc[f] = "exited"

Leave(s) == handler' = "draining" /\ status' = s

\* The chunk with the lowest index goes to an idle fetcher.
Dispatch(f) ==
  /\ handler = "select" /\ pc[f] = "idle"
  /\ \E c \in heap :
       /\ \A d \in heap : c <= d
       /\ heap' = heap \ {c} /\ held' = [held EXCEPT ![f] = c]
  /\ Go(f, "fetch")
  /\ UNCHANGED <<Restorer, returnCh, errorCh, Handler, faults>>

TakeReturned ==
  /\ handler = "select" /\ returnCh # <<>>
  /\ returnCh' = Tail(returnCh)
  /\ IF Head(returnCh) = Nil
     THEN Leave("Done") /\ UNCHANGED heap
     ELSE heap' = heap \union {Head(returnCh)} /\ UNCHANGED <<handler, status>>
  /\ UNCHANGED <<Restorer, errorCh, stopped, pc, held, faults>>

TakeError ==
  /\ handler = "select" /\ errorCh # <<>>
  /\ errorCh' = Tail(errorCh) /\ Leave(Head(errorCh))
  /\ UNCHANGED <<Restorer, heap, returnCh, stopped, pc, held, faults>>

TakeStop ==
  /\ handler = "select" /\ stopped /\ Leave("Bail")
  /\ UNCHANGED <<Restorer, Channels, stopped, pc, held, faults>>

\* doneCh is closed: no usable workers left.
TakeDone ==
  /\ handler = "select" /\ Exited /\ Leave("Next")
  /\ UNCHANGED <<Restorer, Channels, stopped, pc, held, faults>>

\* Mutant: the handler does not wait for the fetchers.
MutReturn_NoWait ==
  /\ handler = "draining"
  /\ handler' = "returned"
  /\ IF status = "Done" THEN UNCHANGED <<restoring, pending>>
     ELSE pending' = {} /\ restoring' = FALSE
  /\ UNCHANGED <<imported, Channels, status, stopped, pc, held, faults>>

\* The deferred calls: wait for the fetchers, then abort unless it is done.
Return ==
  /\ handler = "draining" /\ Exited
  /\ handler' = "returned"
  /\ IF status = "Done" THEN UNCHANGED <<restoring, pending>>
     ELSE pending' = {} /\ restoring' = FALSE
  /\ UNCHANGED <<imported, Channels, status, stopped, pc, held, faults>>

\* The node is asked to stop.
Stop ==
  /\ handler # "returned" /\ ~stopped /\ Fault("stop")
  /\ stopped' = TRUE
  /\ UNCHANGED <<Restorer, Channels, handler, status, pc, held>>

FetcherStep(f) == Fetch(f) \/ Check(f) \/ Import(f) \/ Mark(f) \/ Abort(f) \/ Send(f) \/ Exit(f)

HandlerStep ==
  \/ TakeReturned \/ TakeError \/ TakeStop \/ TakeDone \/ Return
  \/ \E f \in Fetchers : Dispatch(f)

Next == HandlerStep \/ Stop \/ \E f \in Fetchers : FetcherStep(f)

Spec == Init /\ [][Next]_vars

\* Every goroutine that can run eventually runs.
FairSpec ==
  /\ Spec
  /\ WF_vars(HandlerStep)
  /\ \A f \in Fetchers : WF_vars(FetcherStep(f))

----------------------------------------------------------------------------
\* While the handler is in its loop and no fetcher has given up, every chunk
\* the restorer still waits for is in exactly one place: to be dispatched, with
\* one fetcher, or on its way back.  So a retried chunk is never restored twice
\* and never forgotten (checkpoint_sync.go 238-275).
NoChunkLost ==
  LET Holders(c) == {f \in Fetchers : held[f] = c}
      Places(c) == (IF c \in heap THEN 1 ELSE 0) + Cardinality(Holders(c))
                   + Cardinality({i \in DOMAIN returnCh : returnCh[i] = c})
      GivenUp == errorCh # <<>> \/ \E f \in Fetchers : pc[f] \in {"sendNext", "sendBail"}
  IN (handler = "select" /\ restoring /\ ~GivenUp)
       => \A c \in Chunks : Places(c) = (IF c \in pending THEN 1 ELSE 0)

\* When handleCheckpoint returns, no fetcher is left and no restore is in
\* progress, so that the StartRestore of the next checkpoint succeeds and no
\* late fetcher writes into it (lines 160-179, 204-209).
CleanExit == handler = "returned" => (Exited /\ ~restoring)

\* A checkpoint that is reported as restored is complete: "Returns true when
\* the checkpoint has been fully restored" (checkpoint.go).
DoneIsComplete == status = "Done" => imported = Chunks

\* Once the last chunk has been restored, the handler reports success: the
\* fetcher signals "to the toplevel handler that we're done" (line 125).
RestoredIsDone ==
  (handler = "returned" /\ imported = Chunks) => status = "Done"

\* handleCheckpoint returns: the wait for the fetchers "to drain" ends (lines
\* 204-209).
HandlerReturns == <>(handler = "returned")
=============================================================================
