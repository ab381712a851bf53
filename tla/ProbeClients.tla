---------------------------- MODULE ProbeClients ----------------------------
(***************************************************************************)
(* The probing clients together on one network worker: checknet and node   *)
(* integration on its lo queue, monitors and check-now on its hi queue.    *)
(* They meet only in the worker's queues, where each can find them full of *)
(* the others' jobs.                                                       *)
(***************************************************************************)
EXTENDS Checknet, Monitors, CheckNow, NodeIntegration

CONSTANT Together    \* sets of clients that are active together

VARIABLE on          \* the clients that are active in this behaviour

vars == <<netVars, clientVars, cnVars, monVars, cnowVars, niVars, on>>

Init ==
    /\ NetInit /\ ClientInit
    /\ CnInit /\ MonInit /\ CnowInit /\ NiInit
    /\ on \in Together

WorkerStep ==
    /\ WorkerNext
    /\ UNCHANGED <<clientVars, cnVars, monVars, cnowVars, niVars, on>>

TakeStep ==
    /\ Take
    /\ UNCHANGED <<cnVars, monVars, cnowVars, niVars, on>>

CnStep ==
    /\ "cn" \in on /\ CnNext
    /\ UNCHANGED <<monVars, cnowVars, niVars, on>>

MonStep ==
    /\ "mon" \in on /\ MonNext
    /\ UNCHANGED <<cnVars, cnowVars, niVars, on>>

CnowStep ==
    /\ "cnow" \in on /\ CnowNext
    /\ UNCHANGED <<cnVars, monVars, niVars, on>>

NiStep ==
    /\ "ni" \in on /\ NiSteps
    /\ UNCHANGED <<cnVars, monVars, cnowVars, on>>

ClientsNext == WorkerStep \/ TakeStep \/ CnStep \/ MonStep \/ CnowStep \/ NiStep

ClientsSpec == Init /\ [][ClientsNext]_vars

\* The clients' own state keeps its types.
ClientsTypeOK ==
    /\ nr \in Results \cup {NoResult}
    /\ filling \in 0 .. CHECKNET_JOBS
    /\ cnState \in {"IDLE", "WAIT", "COLLECT"} /\ (cnState = "COLLECT" => cnOutstanding > 0)
    /\ cnCount \in 0 .. CHECKNET_JOBS
    /\ cnOutstanding \in 0 .. cnCount + 1
    /\ cnTrLaunched \in BOOLEAN /\ cnTrJob \in {0} \cup Indices
    /\ monCfg \in [Slots -> [id : {0} \cup MonIds, conf : MonConfs]]
    /\ monRun \in [Slots -> [state : {"unknown", "down", "up"}, cfail : 0 .. FAIL_N, cok : 0 .. OK_N,
                             awaiting : BOOLEAN]]
    /\ cnowId \in {NoCnow} \cup CnowIds /\ cnowRetried \in BOOLEAN
    /\ Len(niQueue) <= NI_QUEUE_SIZE /\ niInflight \in BOOLEAN

\* What a client waits for is on its way in the worker, and nothing else of it
\* is: no client is silenced by an answer that cannot come, none takes the end of
\* its work to be before its last answer, however the queues fill with the jobs
\* of the others.
AwaitedIsUnderWay ==
    ClientsTypeOK /\ CnOutstandingExact /\ MonAwaitingBacked /\ CnowSlotBacked

\* Nothing is asked twice of the network for one purpose: a cycle traces one peer,
\* and only results of its own fill its report; a slot has one probe.
AskedOnce == CnOneTrace /\ CnOwnResults /\ MonOneProbeUnchanged
=============================================================================
