--------------------------- MODULE NodeIntegration ---------------------------
(***************************************************************************)
(* src/src/node_integration.cpp: events are queued, the oldest dropped when *)
(* the queue is full, and posted in batches.  The body of a batch is not    *)
(* in the job: the worker reads it from _batch when it executes the job.    *)
(***************************************************************************)
EXTENDS NetClient

CONSTANTS NI_QUEUE_SIZE,
          MaxEvents      \* bound: events of a behaviour, numbered

VARIABLES
    niQueue,      \* _queue from _q_tail to _q_head
    niBatch,      \* _batch: the events it was built from
    niInflight,   \* _inflight
    niNext        \* history: number of the next event

niVars == <<niQueue, niBatch, niInflight, niNext>>

Batches == {[i \in 1 .. n |-> k + i] : n \in 0 .. NI_QUEUE_SIZE, k \in 0 .. MaxEvents}
NiTags  == [src : {"ni"}, batch : Batches]

ASSUME NodeIntegrationAssumption ==
    NI_QUEUE_SIZE \in Nat \ {0} /\ MaxEvents \in Nat /\ NiTags \subseteq Tags

NiInit == niQueue = <<>> /\ niBatch = <<>> /\ niInflight = FALSE /\ niNext = 1

\* node_integration_push; the queue's callers are the scripts and the button.
NiPush ==
    /\ LoopFree
    /\ niNext <= MaxEvents
    /\ niQueue' = Append(IF Len(niQueue) < NI_QUEUE_SIZE THEN niQueue ELSE Tail(niQueue), niNext)
    /\ niNext' = niNext + 1
    /\ UNCHANGED <<netVars, clientVars, niBatch, niInflight>>

\* Faulty variant of NiMayFlush: the flush does not wait for the last batch.
NiMayFlushAnyTime == niQueue # <<>>

NiMayFlush == ~niInflight /\ niQueue # <<>>

\* node_integration_update when the flush interval has passed: the batch is
\* built first, and the queue drained only if the worker takes the job.  Events
\* whose batch would not fit _batch stay queued.
NiFlush ==
    /\ LoopFree
    /\ NiMayFlush
    /\ \/ /\ Room(FALSE)
          /\ niBatch' = niQueue
          /\ Submit(FALSE, [src |-> "ni", batch |-> niQueue])
          /\ niQueue' = <<>>
          /\ niInflight' = TRUE
       \/ /\ ~Room(FALSE)
          /\ niBatch' = niQueue
          /\ UNCHANGED <<netVars, niQueue, niInflight>>
       \/ /\ niBatch' = <<>>
          /\ UNCHANGED <<netVars, niQueue, niInflight>>
    /\ UNCHANGED <<clientVars, niNext>>

\* node_integration_on_result: a deferred batch is lost like a posted one.
NiOnResult ==
    /\ Dispatched("ni")
    /\ niInflight' = FALSE
    /\ Done
    /\ UNCHANGED <<netVars, niQueue, niBatch, niNext>>

NiSteps == NiPush \/ NiFlush \/ NiOnResult

-----------------------------------------------------------------------------
\* The body the worker reads is the batch the job was made for: _batch is not
\* rebuilt between the enqueue and the execution, although neither side locks it.
NiBatchIntact ==
    \A j \in Elems(hiQ) \cup Elems(loQ) \cup (IF pc = "run" THEN {cur} ELSE {}) :
        j.tag.src = "ni" => j.tag.batch = niBatch
=============================================================================
