------------------------------ MODULE Checknet ------------------------------
(***************************************************************************)
(* src/src/checknet.cpp: the measurement cycle.  The backend assigns jobs, *)
(* all of them go to the worker's lo queue, and the cycle reports when all *)
(* results have come back or the collection times out.  One deaf peer per  *)
(* cycle is traced on the node's own initiative.                           *)
(***************************************************************************)
EXTENDS NetClient

CONSTANTS CHECKNET_JOBS,   \* CHECKNET_MAX_JOBS and the gateway ping
          MaxCycles        \* bound: cycles of a behaviour

VARIABLES
    cnState,         \* g_state
    cnCount,         \* g_jobCount
    cnOutstanding,   \* g_outstanding
    cnRes,           \* g_res: where the result filed at an index came from
    cnTrLaunched,    \* g_tr_launched
    cnTrJob,         \* g_tr_job, 0 for -1
    cnCycle,         \* history: the number of this cycle
    cnTimedOut,      \* history: a cycle was ended with results outstanding
    cnTraces         \* history: traces launched in this cycle

cnVars == <<cnState, cnCount, cnOutstanding, cnRes, cnTrLaunched, cnTrJob,
            cnCycle, cnTimedOut, cnTraces>>

Indices == 1 .. CHECKNET_JOBS
CnTags  == [src : {"cn"}, ref : Indices, trace : BOOLEAN, cycle : 1 .. MaxCycles]

ASSUME ChecknetAssumption ==
    CHECKNET_JOBS \in Nat \ {0} /\ MaxCycles \in Nat /\ CnTags \subseteq Tags

CnTag(i, trace) == [src |-> "cn", ref |-> i, trace |-> trace, cycle |-> cnCycle]

Unfiled == [cycle |-> 0, measured |-> FALSE]

CnInit ==
    /\ cnState = "IDLE" /\ cnCount = 0 /\ cnOutstanding = 0
    /\ cnRes = [i \in Indices |-> Unfiled]
    /\ cnTrLaunched = FALSE /\ cnTrJob = 0
    /\ cnCycle = 0 /\ cnTimedOut = FALSE /\ cnTraces = 0

\* checknet_run: the cycle is due, WiFi and WebSocket are up.
CnRun ==
    /\ LoopFree
    /\ cnState = "IDLE"
    /\ cnCycle < MaxCycles
    /\ cnState' = "WAIT"
    /\ cnCycle' = cnCycle + 1
    /\ cnTraces' = 0
    /\ UNCHANGED <<netVars, clientVars, cnCount, cnOutstanding, cnRes,
                   cnTrLaunched, cnTrJob, cnTimedOut>>

\* checknet_on_jobs up to its enqueue loop, with n usable jobs.  In any other
\* state check_jobs is ignored.
CnOnJobs ==
    /\ LoopFree
    /\ cnState = "WAIT"
    /\ \E n \in 0 .. CHECKNET_JOBS :
         /\ cnCount' = n
         /\ cnState' = IF n = 0 THEN "IDLE" ELSE "WAIT"
         /\ filling' = IF n = 0 THEN 0 ELSE 1
    /\ cnOutstanding' = 0
    /\ cnRes' = [i \in Indices |-> Unfiled]
    /\ cnTrLaunched' = FALSE /\ cnTrJob' = 0
    /\ UNCHANGED <<netVars, nr, cnCycle, cnTimedOut, cnTraces>>

\* cn_finish_cycle: send what was collected, become idle.
Finish == cnState' = "IDLE"

\* A job that finds the queue full stays reported as failed.
CnRefused == UNCHANGED <<netVars, cnOutstanding>>

FillEnds ==
    /\ filling' = 0
    /\ IF cnOutstanding' = 0 THEN Finish ELSE cnState' = "COLLECT"

\* One turn of the enqueue loop, and what follows the last one.
CnFill ==
    /\ filling > 0
    /\ \/ /\ Room(FALSE)
          /\ Submit(FALSE, CnTag(filling, FALSE))
          /\ cnOutstanding' = cnOutstanding + 1
       \/ ~Room(FALSE) /\ CnRefused
    /\ IF filling < cnCount
       THEN filling' = filling + 1 /\ UNCHANGED cnState
       ELSE FillEnds
    /\ UNCHANGED <<nr, cnCount, cnRes, cnTrLaunched, cnTrJob, cnCycle,
                   cnTimedOut, cnTraces>>

\* checknet_update: no check_jobs within CHECKNET_ASSIGN_TIMEOUT_MS.
CnAssignTimeout ==
    /\ LoopFree
    /\ cnState = "WAIT"
    /\ cnState' = "IDLE"
    /\ UNCHANGED <<netVars, clientVars, cnCount, cnOutstanding, cnRes,
                   cnTrLaunched, cnTrJob, cnCycle, cnTimedOut, cnTraces>>

\* checknet_update: NET_COLLECT_TIMEOUT_MS have passed, send what there is.
CnCollectTimeout ==
    /\ LoopFree
    /\ cnState = "COLLECT"
    /\ Finish
    /\ cnTimedOut' = TRUE
    /\ UNCHANGED <<netVars, clientVars, cnCount, cnOutstanding, cnRes,
                   cnTrLaunched, cnTrJob, cnCycle, cnTraces>>

\* Faulty variant of TraceAllowed: only a finished trace stops the next one.
TraceAllowedUntilDone == cnTrJob = 0

\* The autonomous trace: the probe lost everything, and none was launched yet.
TraceAllowed == ~cnTrLaunched /\ cnTrJob = 0

\* checknet_on_net_result outside of a collection.
CnIgnore ==
    /\ Dispatched("cn")
    /\ cnState # "COLLECT"
    /\ Done
    /\ UNCHANGED <<netVars, cnVars>>

\* Whether the probe that lost everything was an ICMP one to a peer, and the
\* trace cooldowns have passed, is the choice of the second disjunct; is_trace
\* is set by an executed trace only.
CnOnResult ==
    /\ Dispatched("cn")
    /\ cnState = "COLLECT"
    /\ LET i       == nr.job.tag.ref
           isTrace == nr.job.tag.trace /\ nr.outcome # "deferred"
           rest    == cnOutstanding + cnTraces' - cnTraces - 1
       IN  /\ \/ /\ i \in 1 .. cnCount /\ isTrace
                 /\ cnTrJob' = i
                 /\ UNCHANGED <<netVars, cnRes, cnTrLaunched, cnTraces>>
              \/ /\ i \in 1 .. cnCount /\ ~isTrace
                 /\ cnRes' = [cnRes EXCEPT ![i] =
                       [cycle |-> nr.job.tag.cycle, measured |-> nr.outcome # "deferred"]]
                 /\ \/ UNCHANGED <<netVars, cnTrLaunched, cnTraces>>
                    \/ /\ nr.outcome # "ok" /\ TraceAllowed /\ Room(FALSE)
                       /\ Submit(FALSE, CnTag(i, TRUE))
                       /\ cnTrLaunched' = TRUE /\ cnTraces' = cnTraces + 1
                 /\ UNCHANGED cnTrJob
              \/ /\ i \notin 1 .. cnCount
                 /\ UNCHANGED <<netVars, cnRes, cnTrLaunched, cnTrJob, cnTraces>>
           /\ cnOutstanding' = rest
           /\ IF rest = 0 THEN Finish ELSE UNCHANGED cnState
    /\ Done
    /\ UNCHANGED <<cnCount, cnCycle, cnTimedOut>>

CnNext ==
    \/ CnRun \/ CnOnJobs \/ CnFill \/ CnAssignTimeout \/ CnCollectTimeout
    \/ CnIgnore \/ CnOnResult

-----------------------------------------------------------------------------
\* Until a collection times out, g_outstanding is exactly the number of jobs of
\* the cycle in the worker: the cycle neither reports before its last result nor
\* waits for a result that will not come, and between cycles nothing of it is
\* left in the worker.
CnOutstandingExact ==
    ~cnTimedOut =>
        Cardinality({j \in Present : j.tag.src = "cn"}) =
            IF cnState = "COLLECT" \/ filling > 0 THEN cnOutstanding ELSE 0

\* At most one autonomous trace per cycle (checknet.cpp:37), also when the
\* results of an abandoned cycle arrive in the next one.
CnOneTrace == cnTraces <= 1

\* As long as no collection timed out, what a cycle collects at an index was
\* measured by a job of this cycle.  After a time-out the results that come late
\* are filed in the cycle that collects then (checknet.cpp:399 says they are
\* ignored; the guard only asks whether some cycle collects).
CnOwnResults ==
    cnState = "COLLECT" /\ ~cnTimedOut => \A i \in Indices : cnRes[i].cycle \in {0, cnCycle}
=============================================================================
