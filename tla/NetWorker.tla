------------------------------ MODULE NetWorker ------------------------------
(***************************************************************************)
(* The asynchronous network worker ("wór") of src/src/net_worker.cpp: one  *)
(* FreeRTOS task that serialises all probing, fed by the main loop through *)
(* two bounded queues (hi before lo) and answering through a third.        *)
(*                                                                         *)
(* Two processes share the queues.  The loop never blocks: it enqueues     *)
(* without waiting and polls without waiting.  The task blocks only on the *)
(* result queue.  A client module EXTENDS this one, replaces Submit and    *)
(* Deliver by its own operations, and keeps WorkerNext.                    *)
(***************************************************************************)
EXTENDS Naturals, Sequences, FiniteSets

CONSTANTS Jobs,        \* job instances the clients can have in the worker
          NoJob,       \* "the task holds no job"
          Kind,        \* [Jobs -> Kinds], job.kind as far as the gate cares
          Outcomes,    \* "ok", "fail", "deferred", as far as clients tell them
                       \* apart.  A closed heap gate defers any job; a blocked
                       \* target is deferred for checknet, a fail for monitors
          JOBQ_DEPTH,  \* NET_JOBQ_DEPTH, of each job queue
          RESQ_DEPTH   \* NET_RESQ_DEPTH

Kinds    == {"stun", "punch", "probe"}
Results  == [job : Jobs, outcome : Outcomes]

ASSUME NetWorkerAssumption ==
    /\ NoJob \notin Jobs
    /\ Kind \in [Jobs -> Kinds]
    /\ Outcomes \subseteq {"ok", "fail", "deferred"}
    /\ JOBQ_DEPTH \in Nat \ {0}
    /\ RESQ_DEPTH \in Nat \ {0}

VARIABLES
    hiQ, loQ,    \* s_hiQ, s_loQ
    resQ,        \* s_resQ
    pc,          \* where nw_task is: polling hi, polling lo, running, sending
    cur,         \* the job nw_task took and has not answered yet
    out,         \* the result nw_task has computed and is sending
    gate,        \* punch_gate_active(): g_gate_until lies in the future
    inFlight,    \* history: jobs accepted by net_worker_enqueue, not yet polled
    overtakes    \* history: lo jobs started while some hi job was waiting

netVars == <<hiQ, loQ, resQ, pc, cur, out, gate, inFlight, overtakes>>

Elems(q) == {q[i] : i \in 1 .. Len(q)}

NoResult == [job |-> NoJob, outcome |-> "fail"]

NetInit ==
    /\ hiQ = <<>> /\ loQ = <<>> /\ resQ = <<>>
    /\ pc = "hi" /\ cur = NoJob /\ out = NoResult
    /\ gate = FALSE
    /\ inFlight = {} /\ overtakes = 0

-----------------------------------------------------------------------------
(* The loop's side. *)

\* Faulty variant of Accepts, off by one.
AcceptsOneMore(q) == Len(q) <= JOBQ_DEPTH

Accepts(q) == Len(q) < JOBQ_DEPTH

\* net_worker_enqueue(j, TRUE) returning true.  A full queue refuses the job
\* and changes nothing.
EnqueueHi(j) ==
    /\ j \notin inFlight
    /\ Accepts(hiQ)
    /\ hiQ' = Append(hiQ, j)
    /\ inFlight' = inFlight \cup {j}
    /\ UNCHANGED <<loQ, resQ, pc, cur, out, gate, overtakes>>

EnqueueLo(j) ==
    /\ j \notin inFlight
    /\ Accepts(loQ)
    /\ loQ' = Append(loQ, j)
    /\ inFlight' = inFlight \cup {j}
    /\ UNCHANGED <<hiQ, resQ, pc, cur, out, gate, overtakes>>

\* net_worker_poll returning true: the loop takes the oldest result and
\* routes it by its source.
Poll ==
    /\ resQ # <<>>
    /\ resQ' = Tail(resQ)
    /\ inFlight' = inFlight \ {Head(resQ).job}
    /\ UNCHANGED <<hiQ, loQ, pc, cur, out, gate, overtakes>>

-----------------------------------------------------------------------------
(* The task's side.  Polling hi and polling lo are two calls: a hi job can *)
(* arrive between them.                                                    *)

\* Faulty variant of PollHi: the job is read with xQueuePeek and stays queued.
PollHiPeeking ==
    /\ pc = "hi"
    /\ \/ /\ hiQ # <<>>
          /\ cur' = Head(hiQ)
          /\ pc' = "run"
          /\ overtakes' = 0
       \/ /\ hiQ = <<>>
          /\ pc' = "lo"
          /\ UNCHANGED <<cur, overtakes>>
    /\ UNCHANGED <<hiQ, loQ, resQ, out, gate, inFlight>>

PollHi ==
    /\ pc = "hi"
    /\ \/ /\ hiQ # <<>>
          /\ cur' = Head(hiQ) /\ hiQ' = Tail(hiQ)
          /\ pc' = "run"
          /\ overtakes' = 0
       \/ /\ hiQ = <<>>
          /\ pc' = "lo"
          /\ UNCHANGED <<hiQ, cur, overtakes>>
    /\ UNCHANGED <<loQ, resQ, out, gate, inFlight>>

PollLo ==
    /\ pc = "lo"
    /\ \/ /\ ~gate /\ loQ # <<>>
          /\ cur' = Head(loQ) /\ loQ' = Tail(loQ)
          /\ pc' = "run"
          /\ overtakes' = IF hiQ = <<>> THEN overtakes ELSE overtakes + 1
       \/ /\ gate \/ loQ = <<>>
          /\ pc' = "hi"
          /\ UNCHANGED <<loQ, cur, overtakes>>
    /\ UNCHANGED <<hiQ, resQ, out, gate, inFlight>>

\* nw_execute.  A deferred job never reaches its executor, so only an executed
\* STUN opens the gate and only an executed punch closes it.
GateAfter(k, o) ==
    IF k = "stun" /\ o = "ok" THEN TRUE
    ELSE IF k = "punch" /\ o # "deferred" THEN FALSE
    ELSE gate

Execute ==
    /\ pc = "run"
    /\ \E o \in Outcomes :
         /\ out' = [job |-> cur, outcome |-> o]
         /\ gate' = GateAfter(Kind[cur], o)
    /\ pc' = "send"
    /\ UNCHANGED <<hiQ, loQ, resQ, cur, inFlight, overtakes>>

\* Faulty variant of SendResult: xQueueSend without waiting drops the result
\* when the loop is behind.
SendResultNoWait ==
    /\ pc = "send"
    /\ resQ' = IF Len(resQ) < RESQ_DEPTH THEN Append(resQ, out) ELSE resQ
    /\ pc' = "hi" /\ cur' = NoJob /\ out' = NoResult
    /\ UNCHANGED <<hiQ, loQ, gate, inFlight, overtakes>>

\* Faulty variant of SendResult: the task goes on with the queue it was in.
SendResultKeepLo ==
    /\ pc = "send"
    /\ Len(resQ) < RESQ_DEPTH
    /\ resQ' = Append(resQ, out)
    /\ pc' = "lo" /\ cur' = NoJob /\ out' = NoResult
    /\ UNCHANGED <<hiQ, loQ, gate, inFlight, overtakes>>

\* xQueueSend(s_resQ, &out, portMAX_DELAY): enabled when there is room.
SendResult ==
    /\ pc = "send"
    /\ Len(resQ) < RESQ_DEPTH
    /\ resQ' = Append(resQ, out)
    /\ pc' = "hi" /\ cur' = NoJob /\ out' = NoResult
    /\ UNCHANGED <<hiQ, loQ, gate, inFlight, overtakes>>

\* Faulty variant of GateExpires: the deadline is never reached.
GateExpiresNever ==
    /\ gate
    /\ UNCHANGED netVars

\* The ten seconds of g_gate_until run out.
GateExpires ==
    /\ gate
    /\ gate' = FALSE
    /\ UNCHANGED <<hiQ, loQ, resQ, pc, cur, out, inFlight, overtakes>>

WorkerNext == PollHi \/ PollLo \/ Execute \/ SendResult

-----------------------------------------------------------------------------
SubmitHi == \E j \in Jobs : EnqueueHi(j)
SubmitLo == \E j \in Jobs : EnqueueLo(j)

Next == SubmitHi \/ SubmitLo \/ Poll \/ WorkerNext \/ GateExpires

NetSpec == NetInit /\ [][Next]_netVars

\* nw_task is a task of higher priority than the loop, the loop polls on every
\* pass and never waits, and time passes.
FairNetSpec ==
    /\ NetSpec
    /\ WF_netVars(WorkerNext) /\ WF_netVars(Poll) /\ WF_netVars(GateExpires)

-----------------------------------------------------------------------------
\* The types of the queues, within the depths xQueueCreate gave them, and of
\* the task's state.
NetTypeOK ==
    /\ hiQ \in Seq(Jobs) /\ Len(hiQ) <= JOBQ_DEPTH
    /\ loQ \in Seq(Jobs) /\ Len(loQ) <= JOBQ_DEPTH
    /\ resQ \in Seq(Results) /\ Len(resQ) <= RESQ_DEPTH
    /\ pc \in {"hi", "lo", "run", "send"}
    /\ cur \in Jobs \cup {NoJob}
    /\ out \in Results \cup {NoResult}
    /\ gate \in BOOLEAN
    /\ inFlight \in SUBSET Jobs
    /\ overtakes \in Nat

JobsOf(q) == {q[i].job : i \in 1 .. Len(q)}

\* Every job net_worker_enqueue accepted and the loop has not polled yet is in
\* a queue, in the task's hands, or in a result: none is lost, however long the
\* loop takes to poll (the task waits in xQueueSend with portMAX_DELAY).
NothingLost ==
    inFlight \subseteq Elems(hiQ) \cup Elems(loQ) \cup {cur} \cup JobsOf(resQ)

Injective(q)     == \A i, k \in 1 .. Len(q) : q[i] = q[k] => i = k
InjectiveJobs(q) == \A i, k \in 1 .. Len(q) : q[i].job = q[k].job => i = k

\* No job is in two places, and none is there that was not accepted: a job is
\* executed at most once and answered at most once.
NothingDoubled ==
    /\ Injective(hiQ) /\ Injective(loQ) /\ InjectiveJobs(resQ)
    /\ Elems(hiQ) \cap Elems(loQ) = {}
    /\ cur \notin Elems(hiQ) \cup Elems(loQ) \cup JobsOf(resQ)
    /\ (Elems(hiQ) \cup Elems(loQ)) \cap JobsOf(resQ) = {}

\* A job the worker accepted is in it exactly once until the loop has polled its
\* result: nothing is dropped when a queue is full, nothing executed or answered
\* twice.
EachJobOnce == NothingLost /\ NothingDoubled

\* Priority inversion is bounded: while a hi job waits, at most one lo job
\* (taken between the two polls of nw_task) starts ahead of it.
OvertakenOnce == overtakes <= 1

\* A monitor's job, a check-now or a punch step that entered the hi queue is
\* always answered.
HiAnswered == \A j \in Jobs : (j \in Elems(hiQ)) ~> (j \notin inFlight)

\* A lo job is answered too, provided the hi clients fall silent: the punch
\* gate cannot hold it for ever.
LoAnswered ==
    \A j \in Jobs :
        <>[][~SubmitHi]_netVars => ((j \in Elems(loQ)) ~> (j \notin inFlight))

\* What a client hands over is answered, in either queue, whatever the outcomes
\* and the punch gate.
AllAnswered == HiAnswered /\ LoAnswered

-----------------------------------------------------------------------------
(* The refinement mapping to JobService.  A job is pending until nw_execute *)
(* has returned; a result is done from then until the loop polls it.        *)

PendingJobs == Elems(hiQ) \cup Elems(loQ) \cup (IF pc = "run" THEN {cur} ELSE {})
DoneResults == Elems(resQ) \cup (IF pc = "send" THEN {out} ELSE {})

Service == INSTANCE JobService WITH pending <- PendingJobs, done <- DoneResults

\* NetWorker implements JobService: every accepted job is executed exactly once
\* and answered exactly once, whatever the interleaving of loop and task.
ImplementsService == Service!Spec
=============================================================================
