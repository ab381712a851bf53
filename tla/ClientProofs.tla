---------------------------- MODULE ClientProofs ----------------------------
(***************************************************************************)
(* Proofs about the clients of the network worker, for any queues, timers  *)
(* and tags.  First the probing clients together on one worker, any set of *)
(* them active: what each waits for is on its way, nothing is asked twice, *)
(* and the batch the worker reads is the one the job was made for.  Then   *)
(* the two clients that must not wait for ever, the script engine and the  *)
(* WebSocket watchdog: each waits exactly for what is on its way, a script *)
(* is resumed once, and the watchdog never restarts a node early nor       *)
(* forgets the outage it restarted it for.                                 *)
(***************************************************************************)
EXTENDS ProbeClients, ScriptEngine, WsWatchdog, NetWorkerProofs,
        FiniteSetTheorems, WellFoundedInduction

\* The jobs of one client.  A client's part of the invariant speaks of its own
\* jobs only, so no other client can disturb it.
Of(src) == {j \in Present : j.tag.src = src}

ClientTags == CnTags \cup MonTags \cup CnowTags \cup NiTags

TagsKnown == \A j \in Present : j.tag \in ClientTags

(***************************************************************************)
(* Checknet.  Until a collection times out, the jobs of the cycle are      *)
(* counted exactly and are all of this cycle.                              *)
(***************************************************************************)
CnTypeOK ==
    /\ cnState \in {"IDLE", "WAIT", "COLLECT"} /\ cnCount \in 0 .. CHECKNET_JOBS
    /\ cnOutstanding \in 0 .. cnCount /\ (cnState = "COLLECT" => cnOutstanding > 0)
    /\ filling \in 0 .. cnCount
    /\ filling > 0 => cnState = "WAIT" /\ cnOutstanding < filling
    /\ nr # NoResult => filling = 0
    /\ cnCycle \in 0 .. MaxCycles /\ (cnState # "IDLE" => cnCycle > 0)
    /\ cnTrLaunched \in BOOLEAN /\ cnTrJob \in {0} \cup Indices /\ cnTimedOut \in BOOLEAN
    /\ cnRes \in [Indices -> [cycle : 0 .. MaxCycles, measured : BOOLEAN]]

TracedOnce ==
    /\ cnTraces \in {0, 1}
    /\ cnTraces = 1 => cnTrLaunched
    /\ cnState = "WAIT" => cnTraces = 0

CycleExact ==
    ~cnTimedOut =>
        /\ IsFiniteSet(Of("cn"))
        /\ Cardinality(Of("cn")) = IF cnState = "COLLECT" \/ filling > 0 THEN cnOutstanding ELSE 0
        /\ \A j \in Of("cn") : j.tag.cycle = cnCycle
        /\ cnState = "COLLECT" \/ filling > 0 =>
              \A i \in Indices : cnRes[i].cycle \in {0, cnCycle}

CnInv == CnTypeOK /\ TracedOnce /\ CycleExact

(***************************************************************************)
(* Monitors.  A slot that was configured once has one probe at most, and   *)
(* waits for it.                                                           *)
(***************************************************************************)
Runs == [state : {"unknown", "down", "up"}, cfail : 0 .. FAIL_N, cok : 0 .. OK_N,
         awaiting : BOOLEAN]

MonTypeOK ==
    /\ monCfg \in [Slots -> [id : {0} \cup MonIds, conf : MonConfs]]
    /\ monRun \in [Slots -> Runs]
    /\ monGen \in [Slots -> 0 .. MaxSets]
    /\ \A s \in Slots : monGen[s] = 0 => monCfg[s].id = 0

SlotOnce ==
    /\ \A j \in Of("mon") : monGen[j.tag.ref] > 0
    /\ \A j, k \in Of("mon") : j.tag.ref = k.tag.ref /\ monGen[j.tag.ref] = 1 => j = k
    /\ \A j \in Of("mon") : monGen[j.tag.ref] = 1 /\ monCfg[j.tag.ref].id # 0
                              => monRun[j.tag.ref].awaiting

MonInv == MonTypeOK /\ MonAwaitingBacked /\ SlotOnce

(***************************************************************************)
(* Check-now.                                                              *)
(***************************************************************************)
CnowInv ==
    /\ cnowId \in {NoCnow} \cup CnowIds /\ cnowRetried \in BOOLEAN
    /\ cnowId # NoCnow <=> Of("cnow") # {}
    /\ \A j \in Of("cnow") : j.tag.id = cnowId
    /\ \A j, k \in Of("cnow") : j = k

(***************************************************************************)
(* Node integration.  The queue holds the latest events, in order.         *)
(***************************************************************************)
Run(k, n) == [i \in 1 .. n |-> k + i]

NiInv ==
    /\ niInflight \in BOOLEAN /\ niNext \in 1 .. MaxEvents + 1
    /\ \E n \in 0 .. NI_QUEUE_SIZE : n < niNext /\ niQueue = Run(niNext - 1 - n, n)
    /\ niInflight <=> Of("ni") # {}
    /\ \A j \in Of("ni") : j.tag.batch = niBatch
    /\ \A j, k \in Of("ni") : j = k

ProbeInv == ClientInv /\ TagsKnown /\ CnInv /\ MonInv /\ CnowInv /\ NiInv
-----------------------------------------------------------------------------
(* What a step of one client does to the jobs of each.                     *)

LEMMA TagsAre ==
  /\ ClientTags \subseteq Tags
  /\ \A t \in ClientTags : /\ t.src = "cn" => t \in CnTags
                           /\ t.src = "mon" => t \in MonTags
                           /\ t.src = "cnow" => t \in CnowTags
                           /\ t.src = "ni" => t \in NiTags
  /\ \A t \in CnTags : t.src = "cn"
  /\ \A t \in MonTags : t.src = "mon"
  /\ \A t \in CnowTags : t.src = "cnow"
  /\ \A t \in NiTags : t.src = "ni"
BY ChecknetAssumption, MonitorsAssumption, CheckNowAssumption, NodeIntegrationAssumption
   DEF ClientTags, CnTags, MonTags, CnowTags, NiTags

Bases == ClientInv /\ TagsKnown

\* Nothing is asked, nothing answered.
LEMMA StepIdle ==
  ASSUME Bases, UNCHANGED <<netVars, nr>>
  PROVE  Bases' /\ \A src : Of(src)' = Of(src)
<1>1. ClientInv' /\ Present' = Present
  BY ClientIdle DEF Bases
<1> QED BY <1>1 DEF Bases, TagsKnown, Of

\* A job is asked.
LEMMA StepAsks ==
  ASSUME Bases, NEW hi \in BOOLEAN, NEW t \in ClientTags, Submit(hi, t), nr' = nr
  PROVE  /\ Bases'
         /\ \E j \in Jobs : j.tag = t /\ j \notin Of(t.src) /\ Of(t.src)' = Of(t.src) \cup {j}
         /\ \A src : src # t.src => Of(src)' = Of(src)
<1>1. NetInv' /\ \E j \in Jobs : j.tag = t /\ j \notin Present /\ inFlight' = inFlight \cup {j}
  BY SubmitNew, TagsAre DEF Bases
<1>2. PICK j \in Jobs : j.tag = t /\ j \notin Present /\ inFlight' = inFlight \cup {j}
  BY <1>1
<1>3. ClientInv' /\ Present' = Present \cup {j}
  BY <1>1, <1>2, JobAdded DEF Bases
<1>4. Bases'
  BY <1>2, <1>3 DEF Bases, TagsKnown
<1>5. j \notin Of(t.src) /\ Of(t.src)' = Of(t.src) \cup {j}
  BY <1>2, <1>3 DEF Of
<1>6. \A src : src # t.src => Of(src)' = Of(src)
  BY <1>2, <1>3 DEF Of
<1> QED BY <1>2, <1>4, <1>5, <1>6

\* A result is dispatched, and nothing asked.
LEMMA StepAnswered ==
  ASSUME Bases, NEW s, Dispatched(s), Done, UNCHANGED netVars
  PROVE  /\ Bases' /\ nr.job \in Of(s) /\ Of(s)' = Of(s) \ {nr.job}
         /\ \A src : src # s => Of(src)' = Of(src)
<1>1. nr # NoResult /\ nr' = NoResult /\ nr.job.tag.src = s
  BY DEF Dispatched, Done
<1>2. ClientInv' /\ Present' = Present \ {nr.job} /\ nr.job \in Present
  BY <1>1, ResultDone DEF Bases
<1> QED BY <1>1, <1>2 DEF Bases, TagsKnown, Of

\* A result is dispatched, and its client asks again.
LEMMA StepAsksAgain ==
  ASSUME Bases, NEW hi \in BOOLEAN, NEW t \in ClientTags, Submit(hi, t),
         Dispatched(t.src), Done
  PROVE  /\ Bases' /\ nr.job \in Of(t.src)
         /\ \E j \in Jobs : /\ j.tag = t /\ j \notin Of(t.src)
                           /\ Of(t.src)' = (Of(t.src) \ {nr.job}) \cup {j}
         /\ \A src : src # t.src => Of(src)' = Of(src)
<1>1. nr # NoResult /\ nr' = NoResult /\ nr.job.tag.src = t.src
  BY DEF Dispatched, Done
<1>2. NetInv' /\ \E j \in Jobs : j.tag = t /\ j \notin Present /\ inFlight' = inFlight \cup {j}
  BY SubmitNew, TagsAre DEF Bases
<1>3. PICK j \in Jobs : j.tag = t /\ j \notin Present /\ inFlight' = inFlight \cup {j}
  BY <1>2
<1>4. {j} \subseteq Jobs /\ {j} \cap Present = {} /\ nr' \in {nr, NoResult}
  BY <1>1, <1>3
<1>5. ClientInv' /\ Present' = inFlight \cup {j}
  BY <1>1, <1>2, <1>3, <1>4, ClientStep DEF Bases
<1>6. Present = inFlight \cup {nr.job} /\ nr.job \notin inFlight
  BY <1>1, PresentIs DEF Bases
<1>7. Present' = (Present \ {nr.job}) \cup {j} /\ nr.job \in Present
  BY <1>5, <1>6
<1>8. Bases'
  BY <1>3, <1>5, <1>7 DEF Bases, TagsKnown
<1>9. /\ j \notin Of(t.src) /\ Of(t.src)' = (Of(t.src) \ {nr.job}) \cup {j} /\ nr.job \in Of(t.src)
  BY <1>1, <1>3, <1>7 DEF Of
<1>10. \A src : src # t.src => Of(src)' = Of(src)
  BY <1>1, <1>3, <1>7 DEF Of
<1> QED BY <1>3, <1>8, <1>9, <1>10

\* A client that stands still keeps its part.
LEMMA CnKept ==
  ASSUME CnInv, UNCHANGED <<cnVars, filling>>, Of("cn")' = Of("cn"), nr' # NoResult => filling = 0
  PROVE  CnInv'
BY DEF CnInv, CnTypeOK, TracedOnce, CycleExact, cnVars

LEMMA MonKept ==
  ASSUME MonInv, UNCHANGED monVars, Of("mon")' = Of("mon")
  PROVE  MonInv'
<1>1. \A s \in Slots : ProbesOf(s)' = ProbesOf(s)
  BY DEF ProbesOf, Of, monVars
<1>2. MonAwaitingBacked'
  BY <1>1 DEF MonInv, MonAwaitingBacked, monVars
<1> QED BY <1>2 DEF MonInv, MonTypeOK, SlotOnce, monVars

LEMMA CnowKept ==
  ASSUME CnowInv, UNCHANGED cnowVars, Of("cnow")' = Of("cnow")
  PROVE  CnowInv'
BY DEF CnowInv, cnowVars

LEMMA NiKept ==
  ASSUME NiInv, UNCHANGED niVars, Of("ni")' = Of("ni")
  PROVE  NiInv'
BY DEF NiInv, niVars
-----------------------------------------------------------------------------
(* Check-now.                                                              *)

Others(s) == \A src : src # s => Of(src)' = Of(src)

LEMMA CnowTagIs ==
  ASSUME NEW id \in CnowIds
  PROVE  CnowTag(id) \in ClientTags /\ CnowTag(id).src = "cnow" /\ CnowTag(id).id = id
BY DEF CnowTag, CnowTags, ClientTags

LEMMA CnowSteps ==
  ASSUME Bases, CnowInv, CnowNext
  PROVE  Bases' /\ CnowInv' /\ Others("cnow") /\ filling' = filling
<1>1. CASE CnowOnCmd
  <2>1. PICK id \in CnowIds : Submit(TRUE, CnowTag(id)) /\ cnowId' = id
    BY <1>1 DEF CnowOnCmd
  <2>2. cnowRetried' = FALSE /\ nr' = nr /\ filling' = filling /\ cnowId = NoCnow
    BY <1>1 DEF CnowOnCmd, clientVars
  <2>3. PICK t \in ClientTags : t = CnowTag(id) /\ t.src = "cnow" /\ t.id = id
    BY CnowTagIs
  <2>4. /\ Bases' /\ Others("cnow")
        /\ \E j \in Jobs : j.tag = t /\ Of("cnow")' = Of("cnow") \cup {j}
    BY <2>1, <2>2, <2>3, StepAsks DEF Others
  <2>5. Of("cnow") = {} /\ id # NoCnow
    BY <2>2, CheckNowAssumption DEF CnowInv
  <2>6. CnowInv'
    BY <2>1, <2>2, <2>3, <2>4, <2>5 DEF CnowInv
  <2> QED BY <2>2, <2>4, <2>6
<1>2. CASE CnowOnResult
  <2>1. Dispatched("cnow") /\ Done /\ filling' = filling
    BY <1>2 DEF CnowOnResult, Done
  <2>2. CASE cnowId' = NoCnow /\ UNCHANGED <<netVars, cnowRetried>>
    <3>1. Bases' /\ nr.job \in Of("cnow") /\ Of("cnow")' = Of("cnow") \ {nr.job} /\ Others("cnow")
      BY <2>1, <2>2, StepAnswered DEF Others
    <3>2. Of("cnow")' = {}
      BY <3>1 DEF CnowInv
    <3>3. CnowInv'
      BY <2>2, <3>2 DEF CnowInv
    <3> QED BY <2>1, <3>1, <3>3
  <2>3. CASE cnowId # NoCnow /\ Submit(TRUE, CnowTag(cnowId)) /\ cnowRetried' = TRUE /\ UNCHANGED cnowId
    <3>1. PICK t \in ClientTags : t = CnowTag(cnowId) /\ t.src = "cnow" /\ t.id = cnowId
      BY <2>3, CnowTagIs DEF CnowInv
    <3>2. /\ Bases' /\ nr.job \in Of("cnow") /\ Others("cnow")
          /\ \E j \in Jobs : /\ j.tag = t
                            /\ Of("cnow")' = (Of("cnow") \ {nr.job}) \cup {j}
      <4>1. Submit(TRUE, t) /\ Dispatched(t.src) /\ Done
        BY <2>1, <2>3, <3>1
      <4> QED BY <3>1, <4>1, StepAsksAgain DEF Others
    <3>3. PICK j \in Jobs : j.tag = t /\ Of("cnow")' = {j}
      <4>1. Of("cnow") = {nr.job}
        BY <3>2 DEF CnowInv
      <4> QED BY <3>2, <4>1
    <3>4. CnowInv'
      BY <2>3, <3>1, <3>3 DEF CnowInv
    <3> QED BY <2>1, <3>2, <3>4
  <2> QED BY <1>2, <2>2, <2>3 DEF CnowOnResult
<1> QED BY <1>1, <1>2 DEF CnowNext

-----------------------------------------------------------------------------
(* Node integration.                                                       *)

\* A run of numbers is a queue, loses its head and gains a last number as one.
LEMMA RunIs ==
  ASSUME NEW k \in Nat, NEW n \in Nat
  PROVE  /\ Run(k, n) \in Seq(Nat) /\ Len(Run(k, n)) = n
         /\ Append(Run(k, n), k + n + 1) = Run(k, n + 1)
         /\ n > 0 => Tail(Run(k, n)) = Run(k + 1, n - 1)
<1>1. Run(k, n) \in Seq(Nat) /\ Len(Run(k, n)) = n
  BY DEF Run
<1>2. Append(Run(k, n), k + n + 1) = Run(k, n + 1)
  BY <1>1 DEF Run
<1>3. ASSUME n > 0 PROVE Tail(Run(k, n)) = Run(k + 1, n - 1)
  BY <1>1, <1>3 DEF Run
<1> QED BY <1>1, <1>2, <1>3

LEMMA NiPushes ==
  ASSUME NiInv, NiPush
  PROVE  \E n \in 0 .. NI_QUEUE_SIZE : n < niNext' /\ niQueue' = Run(niNext' - 1 - n, n)
<1>0. /\ niNext \in Nat /\ niNext >= 1 /\ niNext' = niNext + 1
      /\ NI_QUEUE_SIZE \in Nat /\ NI_QUEUE_SIZE >= 1
  BY NodeIntegrationAssumption DEF NiInv, NiPush
<1>1. PICK n \in 0 .. NI_QUEUE_SIZE : n < niNext /\ niQueue = Run(niNext - 1 - n, n)
  BY DEF NiInv
<1>2. PICK k \in Nat : k = niNext - 1 - n
  BY <1>0, <1>1
<1>3. niQueue = Run(k, n) /\ Len(niQueue) = n /\ k + n + 1 = niNext
  BY <1>0, <1>1, <1>2, RunIs
<1>4. CASE n < NI_QUEUE_SIZE
  <2>0. niQueue' = Append(niQueue, niNext)
    BY <1>3, <1>4 DEF NiPush
  <2>1. niQueue' = Run(k, n + 1)
    <3>1. Append(Run(k, n), k + n + 1) = Run(k, n + 1)
      <4>1. n \in Nat
        BY <1>0, <1>1
      <4> QED BY <4>1, RunIs
    <3> QED BY <1>3, <2>0, <3>1
  <2>2. n + 1 \in 0 .. NI_QUEUE_SIZE /\ n + 1 < niNext' /\ niNext' - 1 - (n + 1) = k
    BY <1>0, <1>1, <1>2, <1>4
  <2> QED BY <2>1, <2>2
<1>5. CASE n = NI_QUEUE_SIZE
  <2>1. Tail(niQueue) = Run(k + 1, n - 1)
    <3>1. n \in Nat /\ n > 0
      BY <1>0, <1>5
    <3>2. Tail(Run(k, n)) = Run(k + 1, n - 1)
      BY <3>1, RunIs
    <3> QED BY <1>3, <3>2
  <2>2. niQueue' = Append(Run(k + 1, n - 1), niNext)
    BY <1>0, <1>3, <1>5, <2>1 DEF NiPush
  <2>3. k + 1 \in Nat /\ n - 1 \in Nat /\ (k + 1) + (n - 1) + 1 = niNext /\ (n - 1) + 1 = n
    BY <1>0, <1>1, <1>2, <1>5
  <2>4. niQueue' = Run(k + 1, n)
    BY <2>2, <2>3, RunIs
  <2>5. n < niNext' /\ niNext' - 1 - n = k + 1
    BY <1>0, <1>1, <1>2
  <2> QED BY <2>4, <2>5
<1>6. n < NI_QUEUE_SIZE \/ n = NI_QUEUE_SIZE
  BY <1>0, <1>1
<1> QED BY <1>4, <1>5, <1>6

LEMMA NiSteps1 ==
  ASSUME Bases, NiInv, NiSteps
  PROVE  Bases' /\ NiInv' /\ Others("ni") /\ filling' = filling
<1>1. CASE NiPush
  <2>1. UNCHANGED <<netVars, nr, filling, niBatch, niInflight>>
    BY <1>1 DEF NiPush, clientVars
  <2>2. Bases' /\ \A src : Of(src)' = Of(src)
    BY <2>1, StepIdle
  <2>3. niNext' \in 1 .. MaxEvents + 1
    BY <1>1, NodeIntegrationAssumption DEF NiPush, NiInv
  <2>4. NiInv'
    BY <1>1, <2>1, <2>2, <2>3, NiPushes DEF NiInv
  <2> QED BY <2>1, <2>2, <2>4 DEF Others
<1>2. CASE NiFlush
  <2>1. nr' = nr /\ filling' = filling /\ niNext' = niNext /\ ~niInflight /\ Of("ni") = {}
    BY <1>2 DEF NiFlush, NiMayFlush, clientVars, NiInv
  <2>2. CASE UNCHANGED <<netVars, niQueue, niInflight>>
    <3>1. Bases' /\ \A src : Of(src)' = Of(src)
      BY <2>1, <2>2, StepIdle
    <3>2. NiInv'
      BY <2>1, <2>2, <3>1 DEF NiInv
    <3> QED BY <2>1, <3>1, <3>2 DEF Others
  <2>3. CASE /\ niBatch' = niQueue /\ niQueue' = <<>> /\ niInflight' = TRUE
             /\ Submit(FALSE, [src |-> "ni", batch |-> niQueue])
    <3> DEFINE t == [src |-> "ni", batch |-> niQueue]
    <3>1. PICK n \in 0 .. NI_QUEUE_SIZE : n < niNext /\ niQueue = Run(niNext - 1 - n, n)
      BY DEF NiInv
    <3>2. niNext - 1 - n \in 0 .. MaxEvents
      BY <3>1, NodeIntegrationAssumption DEF NiInv
    <3>3. niQueue \in Batches
      BY <3>1, <3>2 DEF Batches, Run
    <3>4. t \in ClientTags /\ t.src = "ni" /\ t.batch = niQueue
      BY <3>3 DEF NiTags, ClientTags
    <3> HIDE DEF t
    <3>5. /\ Bases' /\ Others("ni")
          /\ \E j \in Jobs : j.tag = t /\ Of("ni")' = Of("ni") \cup {j}
      BY <2>1, <2>3, <3>4, StepAsks DEF Others, t
    <3>6. PICK j \in Jobs : j.tag.batch = niQueue /\ Of("ni")' = {j}
      BY <2>1, <3>4, <3>5
    <3>7. niQueue' = Run(niNext - 1 - 0, 0) /\ 0 \in 0 .. NI_QUEUE_SIZE /\ 0 < niNext
      BY <2>3, NodeIntegrationAssumption DEF Run, NiInv
    <3>8. \E m \in 0 .. NI_QUEUE_SIZE : m < niNext' /\ niQueue' = Run(niNext' - 1 - m, m)
      BY <2>1, <3>7
    <3>9. NiInv'
      BY <2>1, <2>3, <3>6, <3>8 DEF NiInv
    <3> QED BY <2>1, <3>5, <3>9
  <2> QED BY <1>2, <2>2, <2>3 DEF NiFlush
<1>3. CASE NiOnResult
  <2>1. Dispatched("ni") /\ Done /\ UNCHANGED netVars /\ filling' = filling
    BY <1>3 DEF NiOnResult, Done
  <2>2. Bases' /\ nr.job \in Of("ni") /\ Of("ni")' = Of("ni") \ {nr.job} /\ Others("ni")
    BY <2>1, StepAnswered DEF Others
  <2>3. Of("ni")' = {}
    BY <2>2 DEF NiInv
  <2>4. NiInv'
    BY <1>3, <2>3 DEF NiInv, NiOnResult
  <2> QED BY <2>1, <2>2, <2>4
<1> QED BY <1>1, <1>2, <1>3 DEF NiSteps

-----------------------------------------------------------------------------
(* Monitors.                                                               *)

LEMMA LeastIs ==
  ASSUME NEW S \in SUBSET Nat, S # {}
  PROVE  Least(S) \in S
<1>1. PICK x \in S : \A y \in S : ~(<<y, x>> \in OpToRel(<, Nat))
  BY WFMin, NatLessThanWellFounded
<1>2. ASSUME NEW y \in S PROVE x <= y
  <2>1. ~(y < x)
    BY <1>1 DEF OpToRel
  <2>2. x \in Nat /\ y \in Nat
    OBVIOUS
  <2> QED BY <2>1, <2>2
<1> QED BY <1>2 DEF Least

LEMMA JudgedIs ==
  ASSUME NEW run \in Runs, NEW ok \in BOOLEAN
  PROVE  Judged(run, ok) \in Runs /\ Judged(run, ok).awaiting = FALSE
<1>1. AtMost(run.cok + 1, OK_N) \in 0 .. OK_N /\ AtMost(run.cfail + 1, FAIL_N) \in 0 .. FAIL_N
  BY MonitorsAssumption DEF AtMost, Runs
<1>2. 0 \in 0 .. OK_N /\ 0 \in 0 .. FAIL_N
  BY MonitorsAssumption
<1> QED BY <1>1, <1>2 DEF Judged, Runs

LEMMA FreshRunIs == FreshRun \in Runs /\ FreshRun.awaiting = FALSE
BY MonitorsAssumption DEF FreshRun, Runs

LEMMA ProbesAre ==
  ASSUME NEW s
  PROVE  ProbesOf(s) = {j \in Of("mon") : j.tag.ref = s /\ j.tag.id = monCfg[s].id}
BY DEF ProbesOf, Of

LEMMA ProbesAreThen ==
  ASSUME NEW s
  PROVE  ProbesOf(s)' = {j \in Of("mon")' : j.tag.ref = s /\ j.tag.id = monCfg'[s].id}
BY DEF ProbesOf, Of

LEMMA MonSets ==
  ASSUME Bases, MonInv, MonOnSet
  PROVE  Bases' /\ MonInv' /\ Others("mon") /\ filling' = filling
<1>1. PICK id \in MonIds, conf \in MonConfs :
        LET slots == IF SlotsOf(id) # {} THEN SlotsOf(id) ELSE SlotsOf(0)
            s     == Least(slots)
        IN  /\ slots # {}
            /\ monGen[s] < MaxSets
            /\ monCfg' = [monCfg EXCEPT ![s] = [id |-> id, conf |-> conf]]
            /\ monRun' = [monRun EXCEPT ![s] = ResetRun(s)]
            /\ monGen' = [monGen EXCEPT ![s] = @ + 1]
  BY DEF MonOnSet
<1>2. PICK slots \in SUBSET Slots :
        /\ slots # {}
        /\ slots = IF SlotsOf(id) # {} THEN SlotsOf(id) ELSE SlotsOf(0)
  BY <1>1 DEF SlotsOf
<1>3. PICK s \in Slots : s = Least(slots)
  BY <1>2, LeastIs, MonitorsAssumption
<1>4. /\ monGen[s] < MaxSets
      /\ monCfg' = [monCfg EXCEPT ![s] = [id |-> id, conf |-> conf]]
      /\ monRun' = [monRun EXCEPT ![s] = FreshRun]
      /\ monGen' = [monGen EXCEPT ![s] = @ + 1]
  BY <1>1, <1>2, <1>3 DEF ResetRun
<1>5. UNCHANGED <<netVars, nr, filling>>
  BY DEF MonOnSet, clientVars
<1>6. Bases' /\ \A src : Of(src)' = Of(src)
  BY <1>5, StepIdle
<1>7. MonTypeOK'
  BY <1>4, FreshRunIs, MonitorsAssumption DEF MonInv, MonTypeOK
<1>8. MonAwaitingBacked'
  <2> SUFFICES ASSUME NEW r \in Slots, monCfg'[r].id # 0, monRun'[r].awaiting
               PROVE  ProbesOf(r)' # {}
    BY DEF MonAwaitingBacked
  <2>1. r # s
    BY <1>4, FreshRunIs DEF MonInv, MonTypeOK
  <2>2. monCfg'[r] = monCfg[r] /\ monRun'[r] = monRun[r]
    BY <1>4, <2>1 DEF MonInv, MonTypeOK
  <2>3. ProbesOf(r) # {}
    BY <2>2 DEF MonInv, MonAwaitingBacked
  <2> QED BY <1>6, <2>2, <2>3, ProbesAre, ProbesAreThen
<1>9. SlotOnce'
  <2>1. /\ \A r \in Slots : r # s => /\ monGen'[r] = monGen[r] /\ monCfg'[r] = monCfg[r]
                                     /\ monRun'[r] = monRun[r]
        /\ monGen'[s] = monGen[s] + 1
    BY <1>4 DEF MonInv, MonTypeOK
  <2>2. \A j \in Of("mon") : j.tag.ref \in Slots
    BY TagsAre DEF Of, Bases, TagsKnown, MonTags
  <2>3. \A j \in Of("mon") : /\ monGen'[j.tag.ref] > 0
                             /\ j.tag.ref = s => monGen'[s] # 1
    BY <2>1, <2>2 DEF MonInv, MonTypeOK, SlotOnce
  <2> QED BY <1>6, <2>1, <2>2, <2>3 DEF MonInv, SlotOnce
<1> QED BY <1>5, <1>6, <1>7, <1>8, <1>9 DEF MonInv, Others

LEMMA MonClears ==
  ASSUME Bases, MonInv, MonOnClear
  PROVE  Bases' /\ MonInv' /\ Others("mon") /\ filling' = filling
<1>1. PICK id \in MonIds : /\ SlotsOf(id) # {}
                           /\ monCfg' = [monCfg EXCEPT ![Least(SlotsOf(id))].id = 0]
  BY DEF MonOnClear
<1>2. PICK s \in Slots : s = Least(SlotsOf(id))
  <2>1. SlotsOf(id) \in SUBSET Nat /\ SlotsOf(id) \subseteq Slots
    BY MonitorsAssumption DEF SlotsOf
  <2> QED BY <1>1, <2>1, LeastIs
<1>3. /\ monCfg' = [monCfg EXCEPT ![s].id = 0]
      /\ UNCHANGED <<netVars, nr, filling, monRun, monGen>>
  BY <1>1, <1>2 DEF MonOnClear, clientVars
<1>4. Bases' /\ \A src : Of(src)' = Of(src)
  BY <1>3, StepIdle
<1>5. /\ \A r \in Slots : r # s => monCfg'[r] = monCfg[r]
      /\ monCfg'[s].id = 0
      /\ monCfg' \in [Slots -> [id : {0} \cup MonIds, conf : MonConfs]]
  BY <1>3 DEF MonInv, MonTypeOK
<1>6. MonTypeOK'
  BY <1>3, <1>5 DEF MonInv, MonTypeOK
<1>7. MonAwaitingBacked'
  <2> SUFFICES ASSUME NEW r \in Slots, monCfg'[r].id # 0, monRun'[r].awaiting
               PROVE  ProbesOf(r)' # {}
    BY DEF MonAwaitingBacked
  <2>1. monCfg'[r] = monCfg[r] /\ monRun'[r] = monRun[r]
    BY <1>3, <1>5
  <2>2. ProbesOf(r) # {}
    BY <2>1 DEF MonInv, MonAwaitingBacked
  <2> QED BY <1>4, <2>1, <2>2, ProbesAre, ProbesAreThen
<1>8. SlotOnce'
  <2>1. \A j \in Of("mon") : j.tag.ref \in Slots
    BY TagsAre DEF Of, Bases, TagsKnown, MonTags
  <2> QED BY <1>3, <1>4, <1>5, <2>1 DEF MonInv, SlotOnce
<1> QED BY <1>3, <1>4, <1>6, <1>7, <1>8 DEF MonInv, Others

LEMMA MonAsks ==
  ASSUME Bases, MonInv, MonProbe
  PROVE  Bases' /\ MonInv' /\ Others("mon") /\ filling' = filling
<1>1. PICK s \in Slots :
        /\ monCfg[s].id # 0 /\ ~monRun[s].awaiting
        /\ Submit(TRUE, [src |-> "mon", ref |-> s, id |-> monCfg[s].id, gen |-> monGen[s]])
        /\ monRun' = [monRun EXCEPT ![s].awaiting = TRUE]
  BY DEF MonProbe
<1>2. UNCHANGED <<nr, filling, monCfg, monGen>>
  BY DEF MonProbe, clientVars
<1>3. monCfg[s].id \in MonIds /\ monGen[s] \in 1 .. MaxSets
  BY <1>1, MonitorsAssumption DEF MonInv, MonTypeOK
<1>4. [src |-> "mon", ref |-> s, id |-> monCfg[s].id, gen |-> monGen[s]] \in MonTags
  BY <1>3 DEF MonTags
<1>5. PICK t \in ClientTags :
        /\ t = [src |-> "mon", ref |-> s, id |-> monCfg[s].id, gen |-> monGen[s]]
        /\ t.src = "mon" /\ t.ref = s /\ t.id = monCfg[s].id
  BY <1>4 DEF ClientTags
<1>6. /\ Bases' /\ Others("mon")
      /\ \E j \in Jobs : j.tag = t /\ Of("mon")' = Of("mon") \cup {j}
  BY <1>1, <1>2, <1>5, StepAsks DEF Others
<1>7. PICK j \in Jobs : j.tag = t /\ Of("mon")' = Of("mon") \cup {j}
  BY <1>6
<1>8. /\ \A r \in Slots : r # s => monRun'[r] = monRun[r]
      /\ monRun'[s].awaiting = TRUE
      /\ monRun' \in [Slots -> Runs]
  BY <1>1 DEF MonInv, MonTypeOK, Runs
<1>9. MonTypeOK'
  BY <1>2, <1>8 DEF MonInv, MonTypeOK
<1>10. MonAwaitingBacked'
  <2> SUFFICES ASSUME NEW r \in Slots, monCfg'[r].id # 0, monRun'[r].awaiting
               PROVE  ProbesOf(r)' # {}
    BY DEF MonAwaitingBacked
  <2>1. CASE r = s
    <3>1. j \in ProbesOf(r)'
      BY <1>2, <1>5, <1>7, <2>1, ProbesAreThen
    <3> QED BY <3>1
  <2>2. CASE r # s
    <3>1. ProbesOf(r) # {}
      BY <1>2, <1>8, <2>2 DEF MonInv, MonAwaitingBacked
    <3> QED BY <1>2, <1>7, <3>1, ProbesAre, ProbesAreThen
  <2> QED BY <2>1, <2>2
<1>11. SlotOnce'
  <2>1. \A k \in Of("mon") : k.tag.ref \in Slots
    BY TagsAre DEF Of, Bases, TagsKnown, MonTags
  <2>2. monGen[s] = 1 => \A k \in Of("mon") : k.tag.ref # s
    BY <1>1 DEF MonInv, SlotOnce
  <2>3. monGen[s] > 0
    BY <1>3
  <2>4. \A k \in Of("mon")' : monGen'[k.tag.ref] > 0
    BY <1>2, <1>5, <1>7, <2>3 DEF MonInv, SlotOnce
  <2>5. \A k, l \in Of("mon")' : k.tag.ref = l.tag.ref /\ monGen'[k.tag.ref] = 1 => k = l
    BY <1>2, <1>5, <1>7, <2>2 DEF MonInv, SlotOnce
  <2>6. \A k \in Of("mon")' : monGen'[k.tag.ref] = 1 /\ monCfg'[k.tag.ref].id # 0
                              => monRun'[k.tag.ref].awaiting
    BY <1>2, <1>5, <1>7, <1>8, <2>1 DEF MonInv, SlotOnce
  <2> QED BY <2>4, <2>5, <2>6 DEF SlotOnce
<1> QED BY <1>2, <1>6, <1>9, <1>10, <1>11 DEF MonInv

LEMMA MonAnswered ==
  ASSUME Bases, MonInv, MonOnResult
  PROVE  Bases' /\ MonInv' /\ Others("mon") /\ filling' = filling
<1>1. /\ Dispatched("mon") /\ Done /\ UNCHANGED <<netVars, monCfg, monGen, filling>>
  BY DEF MonOnResult, Done
<1>2. PICK j : j = nr.job
  OBVIOUS
<1>3. /\ Bases' /\ j \in Of("mon") /\ Of("mon")' = Of("mon") \ {j} /\ Others("mon")
  BY <1>1, <1>2, StepAnswered DEF Others
<1>4. \A k \in Of("mon") : k.tag.ref \in Slots
  BY TagsAre DEF Of, Bases, TagsKnown, MonTags
<1>5. PICK s \in Slots : s = j.tag.ref
  BY <1>3, <1>4
<1>6. /\ monRun' \in [Slots -> Runs]
      /\ \A r \in Slots : r # s => monRun'[r] = monRun[r]
      /\ monCfg[s].id # j.tag.id => monRun'[s] = monRun[s]
      /\ monCfg[s].id = j.tag.id => monRun'[s].awaiting = FALSE
  <2>1. monRun \in [Slots -> Runs] /\ monRun[s] \in Runs
    BY DEF MonInv, MonTypeOK
  <2>2. CASE monCfg[s].id # j.tag.id
    BY <1>2, <1>5, <2>1, <2>2 DEF MonOnResult
  <2>3. CASE monCfg[s].id = j.tag.id /\ nr.outcome = "deferred"
    <3>1. monRun' = [monRun EXCEPT ![s].awaiting = FALSE]
      BY <1>2, <1>5, <2>3 DEF MonOnResult
    <3> QED BY <2>1, <2>3, <3>1 DEF Runs
  <2>4. CASE monCfg[s].id = j.tag.id /\ nr.outcome # "deferred"
    <3>1. PICK ok \in BOOLEAN : ok = (nr.outcome = "ok")
      OBVIOUS
    <3>2. monRun' = [monRun EXCEPT ![s] = Judged(monRun[s], ok)]
      BY <1>2, <1>5, <2>4, <3>1 DEF MonOnResult
    <3>3. Judged(monRun[s], ok) \in Runs /\ Judged(monRun[s], ok).awaiting = FALSE
      BY <2>1, JudgedIs
    <3> QED BY <2>1, <2>4, <3>2, <3>3
  <2> QED BY <2>2, <2>3, <2>4
<1>7. MonTypeOK'
  BY <1>1, <1>6 DEF MonInv, MonTypeOK
<1>8. MonAwaitingBacked'
  <2> SUFFICES ASSUME NEW r \in Slots, monCfg'[r].id # 0, monRun'[r].awaiting
               PROVE  ProbesOf(r)' # {}
    BY DEF MonAwaitingBacked
  <2>1. monCfg'[r] = monCfg[r] /\ (r = s => monCfg[s].id # j.tag.id) /\ monRun'[r] = monRun[r]
    BY <1>1, <1>6
  <2>2. ProbesOf(r) # {}
    BY <2>1 DEF MonInv, MonAwaitingBacked
  <2>3. j \notin ProbesOf(r)
    BY <1>5, <2>1, ProbesAre
  <2> QED BY <1>3, <2>1, <2>2, <2>3, ProbesAre, ProbesAreThen
<1>9. SlotOnce'
  <2>1. monGen[s] = 1 => \A k \in Of("mon") \ {j} : k.tag.ref # s
    BY <1>3, <1>5 DEF MonInv, SlotOnce
  <2> QED BY <1>1, <1>3, <1>4, <1>6, <2>1 DEF MonInv, SlotOnce
<1> QED BY <1>1, <1>3, <1>7, <1>8, <1>9 DEF MonInv

LEMMA MonSteps ==
  ASSUME Bases, MonInv, MonNext
  PROVE  Bases' /\ MonInv' /\ Others("mon") /\ filling' = filling
BY MonSets, MonClears, MonAsks, MonAnswered DEF MonNext

-----------------------------------------------------------------------------
(* Checknet.                                                               *)

\* Jobs of the cycle are counted.
Cycling == cnState = "COLLECT" \/ filling > 0

LEMMA NoneLeft ==
  ASSUME CnInv, ~cnTimedOut, ~Cycling
  PROVE  Of("cn") = {}
BY FS_EmptySet DEF CnInv, CycleExact, Cycling

LEMMA CnIdleSteps ==
  ASSUME Bases, CnInv, CnRun \/ CnOnJobs \/ CnAssignTimeout \/ CnCollectTimeout
  PROVE  Bases' /\ CnInv' /\ Others("cn")
<1>1. /\ UNCHANGED <<netVars, nr>> /\ nr = NoResult /\ filling = 0
  BY DEF CnRun, CnOnJobs, CnAssignTimeout, CnCollectTimeout, clientVars, LoopFree
<1>2. Bases' /\ \A src : Of(src)' = Of(src)
  BY <1>1, StepIdle
<1>3. IsFiniteSet({}) /\ Cardinality({}) = 0
  BY FS_EmptySet
<1>4. CASE CnRun
  <2>1. /\ cnState = "IDLE" /\ cnState' = "WAIT" /\ cnCycle' = cnCycle + 1 /\ cnTraces' = 0
        /\ cnCycle < MaxCycles
        /\ UNCHANGED <<filling, cnCount, cnOutstanding, cnRes, cnTrLaunched, cnTrJob, cnTimedOut>>
    BY <1>4 DEF CnRun, clientVars
  <2>2. CnTypeOK' /\ TracedOnce'
    BY <1>1, <2>1, ChecknetAssumption DEF CnInv, CnTypeOK, TracedOnce
  <2>3. CycleExact'
    <3>1. ~cnTimedOut => Of("cn")' = {}
      BY <1>1, <1>2, <2>1, NoneLeft DEF Cycling
    <3> QED BY <1>1, <1>3, <2>1, <3>1 DEF CycleExact
  <2> QED BY <1>2, <2>2, <2>3 DEF CnInv, Others
<1>5. CASE CnOnJobs
  <2>1. PICK n \in 0 .. CHECKNET_JOBS :
          /\ cnCount' = n
          /\ cnState' = IF n = 0 THEN "IDLE" ELSE "WAIT"
          /\ filling' = IF n = 0 THEN 0 ELSE 1
    BY <1>5 DEF CnOnJobs
  <2>2. /\ cnState = "WAIT" /\ cnOutstanding' = 0 /\ cnRes' = [i \in Indices |-> Unfiled]
        /\ cnTrLaunched' = FALSE /\ cnTrJob' = 0
        /\ UNCHANGED <<cnCycle, cnTimedOut, cnTraces>>
    BY <1>5 DEF CnOnJobs
  <2>3. CnTypeOK'
    <3>1. cnRes' \in [Indices -> [cycle : 0 .. MaxCycles, measured : BOOLEAN]]
      BY <2>2, ChecknetAssumption DEF Unfiled
    <3>2. /\ cnCount' \in 0 .. CHECKNET_JOBS /\ 0 \in 0 .. cnCount' /\ filling' \in 0 .. cnCount'
          /\ cnState' \in {"IDLE", "WAIT"} /\ (filling' > 0 => cnState' = "WAIT")
      BY <2>1, ChecknetAssumption
    <3>3. cnCycle > 0
      BY <2>2 DEF CnInv, CnTypeOK
    <3> QED BY <1>1, <2>2, <3>1, <3>2, <3>3 DEF CnInv, CnTypeOK
  <2>4. TracedOnce'
    BY <2>1, <2>2 DEF CnInv, TracedOnce
  <2>5. CycleExact'
    <3>1. ~cnTimedOut => Of("cn")' = {}
      BY <1>1, <1>2, <2>2, NoneLeft DEF Cycling
    <3>2. \A i \in Indices : cnRes'[i].cycle = 0
      BY <2>2 DEF Unfiled
    <3>3. cnState' # "COLLECT" /\ cnOutstanding' = 0
      BY <2>1, <2>2
    <3> QED BY <1>3, <2>2, <3>1, <3>2, <3>3 DEF CycleExact
  <2> QED BY <1>2, <2>3, <2>4, <2>5 DEF CnInv, Others
<1>6. CASE CnAssignTimeout
  <2>1. /\ cnState = "WAIT" /\ cnState' = "IDLE"
        /\ UNCHANGED <<filling, cnCount, cnOutstanding, cnRes, cnTrLaunched, cnTrJob, cnCycle,
                      cnTimedOut, cnTraces>>
    BY <1>6 DEF CnAssignTimeout, clientVars
  <2>2. CnTypeOK' /\ TracedOnce'
    BY <1>1, <2>1 DEF CnInv, CnTypeOK, TracedOnce
  <2>3. CycleExact'
    <3>1. ~cnTimedOut => Of("cn")' = {}
      BY <1>1, <1>2, <2>1, NoneLeft DEF Cycling
    <3> QED BY <1>1, <1>3, <2>1, <3>1 DEF CycleExact
  <2> QED BY <1>2, <2>2, <2>3 DEF CnInv, Others
<1>7. CASE CnCollectTimeout
  <2>1. /\ cnState = "COLLECT" /\ cnState' = "IDLE" /\ cnTimedOut' = TRUE
        /\ UNCHANGED <<filling, cnCount, cnOutstanding, cnRes, cnTrLaunched, cnTrJob, cnCycle, cnTraces>>
    BY <1>7 DEF CnCollectTimeout, Finish, clientVars
  <2>2. CnTypeOK' /\ TracedOnce' /\ CycleExact'
    BY <1>1, <2>1 DEF CnInv, CnTypeOK, TracedOnce, CycleExact
  <2> QED BY <1>2, <2>2 DEF CnInv, Others
<1> QED BY <1>4, <1>5, <1>6, <1>7

LEMMA CnTagIs ==
  ASSUME NEW i \in Indices, NEW tr \in BOOLEAN, cnCycle \in 1 .. MaxCycles
  PROVE  /\ CnTag(i, tr) \in ClientTags /\ CnTag(i, tr).src = "cn"
         /\ CnTag(i, tr).cycle = cnCycle
BY DEF CnTag, CnTags, ClientTags

\* A turn of the enqueue loop that hands a job over, or finds the queue full.
LEMMA CnFillSubmits ==
  ASSUME Bases, CnInv, CnFill
  PROVE  /\ Bases' /\ Others("cn") /\ nr' = nr
         /\ \/ /\ cnOutstanding' = cnOutstanding + 1
               /\ \E j \in Jobs : /\ j \notin Of("cn") /\ j.tag.cycle = cnCycle
                                 /\ Of("cn")' = Of("cn") \cup {j}
            \/ cnOutstanding' = cnOutstanding /\ Of("cn")' = Of("cn")
<1>1. filling > 0 /\ nr' = nr
  BY DEF CnFill
<1>2. CASE Submit(FALSE, CnTag(filling, FALSE)) /\ cnOutstanding' = cnOutstanding + 1
  <2>1. filling \in Indices /\ cnCycle \in 1 .. MaxCycles
    BY <1>1, ChecknetAssumption DEF CnInv, CnTypeOK, Indices
  <2>2. PICK t \in ClientTags : t = CnTag(filling, FALSE) /\ t.src = "cn" /\ t.cycle = cnCycle
    BY <2>1, CnTagIs
  <2>3. /\ Bases' /\ Others("cn")
        /\ \E j \in Jobs : j.tag = t /\ j \notin Of("cn") /\ Of("cn")' = Of("cn") \cup {j}
    BY <1>1, <1>2, <2>2, StepAsks DEF Others
  <2> QED BY <1>1, <1>2, <2>2, <2>3
<1>3. CASE CnRefused
  <2>1. Bases' /\ \A src : Of(src)' = Of(src)
    BY <1>1, <1>3, StepIdle DEF CnRefused
  <2> QED BY <1>1, <1>3, <2>1 DEF CnRefused, Others
<1> QED BY <1>2, <1>3 DEF CnFill

LEMMA CnFillKeeps ==
  ASSUME Bases, CnInv, CnFill
  PROVE  Bases' /\ CnInv' /\ Others("cn")
<1>1. /\ filling > 0 /\ nr' = nr /\ nr = NoResult /\ cnState = "WAIT"
      /\ UNCHANGED <<cnCount, cnRes, cnTrLaunched, cnTrJob, cnCycle, cnTimedOut, cnTraces>>
  BY DEF CnFill, CnInv, CnTypeOK
<1>2. /\ filling \in Nat /\ cnCount \in Nat /\ cnOutstanding \in Nat
      /\ filling <= cnCount /\ cnOutstanding < filling /\ cnCount <= CHECKNET_JOBS
  BY <1>1, ChecknetAssumption DEF CnInv, CnTypeOK
<1>3. cnOutstanding' = cnOutstanding + 1 \/ cnOutstanding' = cnOutstanding
  BY CnFillSubmits
<1>4. \/ /\ filling < cnCount /\ filling' = filling + 1 /\ cnState' = "WAIT"
      \/ /\ filling' = 0 /\ cnOutstanding' = 0 /\ cnState' = "IDLE"
      \/ /\ filling' = 0 /\ cnOutstanding' # 0 /\ cnState' = "COLLECT"
  BY <1>1 DEF CnFill, FillEnds, Finish
<1>5. CnTypeOK' /\ TracedOnce'
  BY <1>1, <1>2, <1>3, <1>4 DEF CnInv, CnTypeOK, TracedOnce
<1>6. ASSUME ~cnTimedOut'
      PROVE  /\ IsFiniteSet(Of("cn"))' /\ Cardinality(Of("cn"))' = cnOutstanding'
             /\ \A j \in Of("cn")' : j.tag.cycle = cnCycle'
             /\ \A i \in Indices : cnRes'[i].cycle \in {0, cnCycle'}
  <2>1. /\ IsFiniteSet(Of("cn")) /\ Cardinality(Of("cn")) = cnOutstanding
        /\ \A j \in Of("cn") : j.tag.cycle = cnCycle
        /\ \A i \in Indices : cnRes[i].cycle \in {0, cnCycle}
    BY <1>1, <1>6 DEF CnInv, CycleExact
  <2>2. CASE cnOutstanding' = cnOutstanding /\ Of("cn")' = Of("cn")
    BY <1>1, <2>1, <2>2
  <2>3. CASE /\ cnOutstanding' = cnOutstanding + 1
             /\ \E j \in Jobs : /\ j \notin Of("cn") /\ j.tag.cycle = cnCycle
                               /\ Of("cn")' = Of("cn") \cup {j}
    <3>1. PICK j \in Jobs : /\ j \notin Of("cn") /\ j.tag.cycle = cnCycle
                           /\ Of("cn")' = Of("cn") \cup {j}
      BY <2>3
    <3>2. /\ IsFiniteSet(Of("cn") \cup {j})
          /\ Cardinality(Of("cn") \cup {j}) = Cardinality(Of("cn")) + 1
      BY <2>1, <3>1, FS_AddElement
    <3> QED BY <1>1, <2>1, <2>3, <3>1, <3>2
  <2> QED BY <2>2, <2>3, CnFillSubmits
<1>7. CycleExact'
  <2>1. (IF cnState' = "COLLECT" \/ filling' > 0 THEN cnOutstanding' ELSE 0) = cnOutstanding'
    BY <1>2, <1>4
  <2> QED BY <1>6, <2>1 DEF CycleExact
<1> QED BY <1>5, <1>7, CnFillSubmits DEF CnInv

LEMMA CnIgnores ==
  ASSUME Bases, CnInv, CnIgnore
  PROVE  Bases' /\ CnInv' /\ Others("cn")
<1>1. /\ Dispatched("cn") /\ Done /\ UNCHANGED <<netVars, cnVars, filling>> /\ nr # NoResult
      /\ cnState # "COLLECT"
  BY DEF CnIgnore, Done, Dispatched
<1>2. Bases' /\ nr.job \in Of("cn") /\ Others("cn")
  BY <1>1, StepAnswered DEF Others
<1>3. cnTimedOut
  BY <1>1, <1>2, NoneLeft DEF Cycling, CnInv, CnTypeOK
<1>4. CnTypeOK' /\ TracedOnce' /\ CycleExact'
  BY <1>1, <1>3 DEF CnInv, CnTypeOK, TracedOnce, CycleExact, cnVars
<1> QED BY <1>2, <1>4 DEF CnInv

\* What the result of a collection files, and whether it starts the trace.
LEMMA CnResultSubmits ==
  ASSUME Bases, CnInv, CnOnResult
  PROVE  /\ Bases' /\ Others("cn") /\ nr.job \in Of("cn") /\ nr' = NoResult /\ filling' = filling
         /\ \/ /\ cnTraces' = cnTraces /\ UNCHANGED cnTrLaunched
               /\ Of("cn")' = Of("cn") \ {nr.job}
            \/ /\ cnTraces = 0 /\ cnTraces' = 1 /\ cnTrLaunched' = TRUE
               /\ \E j \in Jobs : /\ j \notin Of("cn") /\ j.tag.cycle = cnCycle
                                 /\ Of("cn")' = (Of("cn") \ {nr.job}) \cup {j}
<1>1. Dispatched("cn") /\ Done /\ nr' = NoResult /\ filling' = filling
  BY DEF CnOnResult, Done
<1>2. CASE UNCHANGED <<netVars, cnTrLaunched, cnTraces>>
  <2>1. Bases' /\ nr.job \in Of("cn") /\ Of("cn")' = Of("cn") \ {nr.job} /\ Others("cn")
    BY <1>1, <1>2, StepAnswered DEF Others
  <2> QED BY <1>1, <1>2, <2>1
<1>3. CASE /\ nr.job.tag.ref \in 1 .. cnCount /\ TraceAllowed
           /\ Submit(FALSE, CnTag(nr.job.tag.ref, TRUE))
           /\ cnTrLaunched' = TRUE /\ cnTraces' = cnTraces + 1
  <2>1. nr.job.tag.ref \in Indices /\ cnCycle \in 1 .. MaxCycles
    BY <1>3, ChecknetAssumption DEF CnOnResult, CnInv, CnTypeOK, Indices
  <2>2. PICK t \in ClientTags : /\ t = CnTag(nr.job.tag.ref, TRUE) /\ t.src = "cn"
                               /\ t.cycle = cnCycle
    BY <2>1, CnTagIs
  <2>3. /\ Bases' /\ nr.job \in Of("cn") /\ Others("cn")
        /\ \E j \in Jobs : /\ j.tag = t /\ j \notin Of("cn")
                          /\ Of("cn")' = (Of("cn") \ {nr.job}) \cup {j}
    BY <1>1, <1>3, <2>2, StepAsksAgain DEF Others
  <2>4. cnTraces = 0
    BY <1>3 DEF TraceAllowed, CnInv, TracedOnce
  <2>5. cnTraces' = 1
    BY <1>3, <2>4
  <2>6. \E j \in Jobs : /\ j \notin Of("cn") /\ j.tag.cycle = cnCycle
                       /\ Of("cn")' = (Of("cn") \ {nr.job}) \cup {j}
    BY <2>2, <2>3
  <2> QED BY <1>1, <1>3, <2>3, <2>4, <2>5, <2>6
<1> QED BY <1>2, <1>3 DEF CnOnResult

LEMMA CnResultFiles ==
  ASSUME Bases, CnInv, CnOnResult, nr.job \in Of("cn")
  PROVE  /\ cnRes' \in [Indices -> [cycle : 0 .. MaxCycles, measured : BOOLEAN]]
         /\ \A i \in Indices : cnRes'[i].cycle \in {cnRes[i].cycle, nr.job.tag.cycle}
         /\ cnTrJob' \in {0} \cup Indices
<1>1. nr.job.tag \in CnTags
  BY TagsAre DEF Of, Bases, TagsKnown
<1>2. cnRes \in [Indices -> [cycle : 0 .. MaxCycles, measured : BOOLEAN]]
      /\ cnTrJob \in {0} \cup Indices /\ 1 .. cnCount \subseteq Indices
  BY ChecknetAssumption DEF CnInv, CnTypeOK, Indices
<1>3. CASE cnRes' = cnRes
  <2>1. cnTrJob' \in {0} \cup Indices
    BY <1>2 DEF CnOnResult
  <2> QED BY <1>2, <1>3, <2>1
<1>4. CASE /\ nr.job.tag.ref \in 1 .. cnCount /\ UNCHANGED cnTrJob
           /\ cnRes' = [cnRes EXCEPT ![nr.job.tag.ref] =
                           [cycle |-> nr.job.tag.cycle, measured |-> nr.outcome # "deferred"]]
  <2>1. PICK m \in BOOLEAN : m = (nr.outcome # "deferred")
    OBVIOUS
  <2>2. PICK c \in 0 .. MaxCycles : c = nr.job.tag.cycle
    BY <1>1, ChecknetAssumption DEF CnTags
  <2>3. cnRes' = [cnRes EXCEPT ![nr.job.tag.ref] = [cycle |-> c, measured |-> m]]
    BY <1>4, <2>1, <2>2
  <2> QED BY <1>2, <1>4, <2>2, <2>3
<1> QED BY <1>3, <1>4 DEF CnOnResult

LEMMA CnAnswered ==
  ASSUME Bases, CnInv, CnOnResult
  PROVE  Bases' /\ CnInv' /\ Others("cn")
<1>1. /\ cnState = "COLLECT" /\ nr # NoResult /\ filling = 0
      /\ UNCHANGED <<cnCount, cnCycle, cnTimedOut>>
      /\ cnOutstanding' = cnOutstanding + cnTraces' - cnTraces - 1
      /\ cnState' = IF cnOutstanding' = 0 THEN "IDLE" ELSE "COLLECT"
  BY DEF CnOnResult, Dispatched, Finish, CnInv, CnTypeOK
<1>2. /\ Bases' /\ Others("cn") /\ nr.job \in Of("cn") /\ nr' = NoResult /\ filling' = 0
  BY <1>1, CnResultSubmits
<1>3. /\ cnTraces \in {0, 1} /\ cnCount \in Nat /\ cnOutstanding \in Nat
      /\ cnOutstanding > 0 /\ cnOutstanding <= cnCount
  BY <1>1, ChecknetAssumption DEF CnInv, CnTypeOK, TracedOnce
<1>4. \/ /\ cnTraces' = cnTraces /\ UNCHANGED cnTrLaunched /\ cnOutstanding' = cnOutstanding - 1
         /\ Of("cn")' = Of("cn") \ {nr.job}
      \/ /\ cnTraces = 0 /\ cnTraces' = 1 /\ cnTrLaunched' = TRUE
         /\ cnOutstanding' = cnOutstanding
         /\ \E j \in Jobs : /\ j \notin Of("cn") /\ j.tag.cycle = cnCycle
                           /\ Of("cn")' = (Of("cn") \ {nr.job}) \cup {j}
  <2>1. cnTraces' = cnTraces => cnOutstanding' = cnOutstanding - 1
    BY <1>1, <1>3
  <2>2. cnTraces = 0 /\ cnTraces' = 1 => cnOutstanding' = cnOutstanding
    BY <1>1, <1>3
  <2> QED BY <2>1, <2>2, CnResultSubmits
<1>5. /\ cnOutstanding' \in 0 .. cnCount /\ (cnState' = "COLLECT" => cnOutstanding' > 0)
      /\ cnState' \in {"IDLE", "COLLECT"}
  <2>1. cnOutstanding' \in 0 .. cnCount
    BY <1>3, <1>4
  <2> QED BY <1>1, <2>1
<1>6. CnTypeOK'
  BY <1>1, <1>2, <1>4, <1>5, CnResultFiles DEF CnInv, CnTypeOK
<1>7. TracedOnce'
  BY <1>4, <1>5 DEF CnInv, TracedOnce
<1>8. ASSUME ~cnTimedOut'
      PROVE  /\ IsFiniteSet(Of("cn"))' /\ Cardinality(Of("cn"))' = cnOutstanding'
             /\ \A j \in Of("cn")' : j.tag.cycle = cnCycle'
             /\ \A i \in Indices : cnRes'[i].cycle \in {0, cnCycle'}
  <2>1. /\ IsFiniteSet(Of("cn")) /\ Cardinality(Of("cn")) = cnOutstanding
        /\ \A j \in Of("cn") : j.tag.cycle = cnCycle
        /\ \A i \in Indices : cnRes[i].cycle \in {0, cnCycle}
    BY <1>1, <1>8 DEF CnInv, CycleExact
  <2>2. /\ IsFiniteSet(Of("cn") \ {nr.job})
        /\ Cardinality(Of("cn") \ {nr.job}) = cnOutstanding - 1
    BY <1>2, <2>1, FS_RemoveElement
  <2>3. \A i \in Indices : cnRes'[i].cycle \in {0, cnCycle'}
    BY <1>1, <1>2, <2>1, CnResultFiles
  <2>4. CASE cnOutstanding' = cnOutstanding - 1 /\ Of("cn")' = Of("cn") \ {nr.job}
    BY <1>1, <2>1, <2>2, <2>3, <2>4
  <2>5. CASE /\ cnOutstanding' = cnOutstanding
             /\ \E j \in Jobs : /\ j \notin Of("cn") /\ j.tag.cycle = cnCycle
                               /\ Of("cn")' = (Of("cn") \ {nr.job}) \cup {j}
    <3>1. PICK j \in Jobs : /\ j \notin Of("cn") /\ j.tag.cycle = cnCycle
                           /\ Of("cn")' = (Of("cn") \ {nr.job}) \cup {j}
      BY <2>5
    <3>2. /\ IsFiniteSet((Of("cn") \ {nr.job}) \cup {j})
          /\ Cardinality((Of("cn") \ {nr.job}) \cup {j}) = (cnOutstanding - 1) + 1
      BY <2>2, <3>1, FS_AddElement
    <3>3. Cardinality(Of("cn"))' = cnOutstanding'
      <4>1. (cnOutstanding - 1) + 1 = cnOutstanding
        BY <1>3
      <4>2. Cardinality(Of("cn"))' = Cardinality((Of("cn") \ {nr.job}) \cup {j})
        BY <3>1
      <4> QED BY <2>5, <3>2, <4>1, <4>2
    <3> QED BY <1>1, <2>1, <2>3, <3>1, <3>2, <3>3
  <2> QED BY <1>4, <2>4, <2>5
<1>9. CycleExact'
  <2>1. (IF cnState' = "COLLECT" \/ filling' > 0 THEN cnOutstanding' ELSE 0) = cnOutstanding'
    BY <1>1, <1>2
  <2> QED BY <1>8, <2>1 DEF CycleExact
<1> QED BY <1>2, <1>6, <1>7, <1>9 DEF CnInv

LEMMA CnSteps ==
  ASSUME Bases, CnInv, CnNext
  PROVE  Bases' /\ CnInv' /\ Others("cn")
BY CnIdleSteps, CnFillKeeps, CnIgnores, CnAnswered DEF CnNext

-----------------------------------------------------------------------------
(* The clients together.                                                   *)

LEMMA ProbeInvInit == Init => ProbeInv
<1> SUFFICES ASSUME Init PROVE ProbeInv
  OBVIOUS
<1>1. ClientInv /\ Present = {}
  BY ClientInvInit DEF Init
<1>2. TagsKnown /\ \A src : Of(src) = {}
  BY <1>1 DEF TagsKnown, Of
<1>3. CnInv
  <2>1. IsFiniteSet({}) /\ Cardinality({}) = 0
    BY FS_EmptySet
  <2>2. cnRes \in [Indices -> [cycle : 0 .. MaxCycles, measured : BOOLEAN]]
    BY ChecknetAssumption DEF Init, CnInit, Unfiled
  <2>3. cnCount \in 0 .. CHECKNET_JOBS /\ cnOutstanding \in 0 .. cnCount
        /\ filling \in 0 .. cnCount /\ cnCycle \in 0 .. MaxCycles
    BY ChecknetAssumption DEF Init, CnInit, ClientInit
  <2>5. CnTypeOK
    <3>1. cnState = "IDLE" /\ filling = 0 /\ cnTrJob = 0
      BY DEF Init, CnInit, ClientInit
    <3>2. cnTrLaunched \in BOOLEAN /\ cnTimedOut \in BOOLEAN
      BY DEF Init, CnInit
    <3>3. ~(filling > 0)
      BY <3>1
    <3> QED BY <2>2, <2>3, <3>1, <3>2, <3>3 DEF CnTypeOK
  <2>6. TracedOnce
    BY DEF Init, CnInit, TracedOnce
  <2>4. CycleExact
    BY <1>2, <2>1 DEF Init, CnInit, ClientInit, CycleExact
  <2> QED BY <2>4, <2>5, <2>6 DEF CnInv
<1>4. MonInv
  <2>1. monCfg \in [Slots -> [id : {0} \cup MonIds, conf : MonConfs]]
    BY MonitorsAssumption DEF Init, MonInit
  <2>2. MonTypeOK
    BY <2>1, FreshRunIs, MonitorsAssumption DEF Init, MonInit, MonTypeOK
  <2>3. MonAwaitingBacked
    BY DEF Init, MonInit, MonAwaitingBacked
  <2> QED BY <1>2, <2>2, <2>3 DEF MonInv, SlotOnce
<1>5. CnowInv
  BY <1>2 DEF Init, CnowInit, CnowInv
<1>6. NiInv
  <2>1. niQueue = Run(niNext - 1 - 0, 0) /\ 0 < niNext /\ 0 \in 0 .. NI_QUEUE_SIZE
    BY NodeIntegrationAssumption DEF Init, NiInit, Run
  <2>2. \E n \in 0 .. NI_QUEUE_SIZE : n < niNext /\ niQueue = Run(niNext - 1 - n, n)
    BY <2>1
  <2>3. niNext \in 1 .. MaxEvents + 1 /\ niInflight = FALSE
    BY NodeIntegrationAssumption DEF Init, NiInit
  <2> QED BY <1>2, <2>2, <2>3 DEF NiInv
<1> QED BY <1>1, <1>2, <1>3, <1>4, <1>5, <1>6 DEF ProbeInv

\* The other clients run only when the loop is not filling a cycle.
LEMMA NotFilling ==
  ASSUME CnInv, MonNext \/ CnowNext \/ NiSteps
  PROVE  filling = 0
BY DEF CnInv, CnTypeOK, MonNext, MonOnSet, MonOnClear, MonProbe, MonOnResult,
       CnowNext, CnowOnCmd, CnowOnResult, NiSteps, NiPush, NiFlush, NiOnResult,
       LoopFree, Dispatched

LEMMA ProbeInvNext == ProbeInv /\ [ClientsNext]_vars => ProbeInv'
<1> SUFFICES ASSUME ProbeInv, [ClientsNext]_vars PROVE ProbeInv'
  OBVIOUS
<1>0. Bases /\ CnInv /\ MonInv /\ CnowInv /\ NiInv
  BY DEF ProbeInv, Bases
<1> DEFINE Rest == CnInv' /\ MonInv' /\ CnowInv' /\ NiInv'
<1>1. CASE WorkerStep
  <2>1. WorkerNext /\ UNCHANGED <<clientVars, cnVars, monVars, cnowVars, niVars>>
    BY <1>1 DEF WorkerStep
  <2>2. ClientInv' /\ Present' = Present /\ nr' = nr /\ filling' = filling
    BY <1>0, <2>1, WorkerUnseen DEF Bases
  <2>3. Bases' /\ \A src : Of(src)' = Of(src)
    BY <1>0, <2>2 DEF Bases, TagsKnown, Of
  <2>4. nr' # NoResult => filling = 0
    BY <1>0, <2>2 DEF CnInv, CnTypeOK
  <2>5. Rest
    BY <1>0, <2>1, <2>2, <2>3, <2>4, CnKept, MonKept, CnowKept, NiKept
  <2> QED BY <2>3, <2>5 DEF ProbeInv, Bases
<1>2. CASE TakeStep
  <2>1. Take /\ UNCHANGED <<cnVars, monVars, cnowVars, niVars>>
    BY <1>2 DEF TakeStep
  <2>2. ClientInv' /\ Present' = Present /\ LoopFree /\ filling' = filling
    BY <1>0, <2>1, TakeKeepsPresent DEF Bases
  <2>3. Bases' /\ \A src : Of(src)' = Of(src)
    BY <1>0, <2>2 DEF Bases, TagsKnown, Of
  <2>4. filling = 0
    BY <2>2 DEF LoopFree
  <2>5. Rest
    BY <1>0, <2>1, <2>2, <2>3, <2>4, CnKept, MonKept, CnowKept, NiKept
  <2> QED BY <2>3, <2>5 DEF ProbeInv, Bases
<1>3. CASE CnStep
  <2>1. CnNext /\ UNCHANGED <<monVars, cnowVars, niVars>>
    BY <1>3 DEF CnStep
  <2>2. Bases' /\ CnInv' /\ Others("cn")
    BY <1>0, <2>1, CnSteps
  <2>3. Of("mon")' = Of("mon") /\ Of("cnow")' = Of("cnow") /\ Of("ni")' = Of("ni")
    BY <2>2 DEF Others
  <2>4. Rest
    BY <1>0, <2>1, <2>2, <2>3, MonKept, CnowKept, NiKept
  <2> QED BY <2>2, <2>4 DEF ProbeInv, Bases
<1>4. CASE MonStep
  <2>1. MonNext /\ UNCHANGED <<cnVars, cnowVars, niVars>>
    BY <1>4 DEF MonStep
  <2>2. Bases' /\ MonInv' /\ Others("mon") /\ filling' = filling
    BY <1>0, <2>1, MonSteps
  <2>3. Of("cn")' = Of("cn") /\ Of("cnow")' = Of("cnow") /\ Of("ni")' = Of("ni")
    BY <2>2 DEF Others
  <2>4. filling = 0
    BY <1>0, <2>1, NotFilling
  <2>5. Rest
    BY <1>0, <2>1, <2>2, <2>3, <2>4, CnKept, CnowKept, NiKept
  <2> QED BY <2>2, <2>5 DEF ProbeInv, Bases
<1>5. CASE CnowStep
  <2>1. CnowNext /\ UNCHANGED <<cnVars, monVars, niVars>>
    BY <1>5 DEF CnowStep
  <2>2. Bases' /\ CnowInv' /\ Others("cnow") /\ filling' = filling
    BY <1>0, <2>1, CnowSteps
  <2>3. Of("cn")' = Of("cn") /\ Of("mon")' = Of("mon") /\ Of("ni")' = Of("ni")
    BY <2>2 DEF Others
  <2>4. filling = 0
    BY <1>0, <2>1, NotFilling
  <2>5. Rest
    BY <1>0, <2>1, <2>2, <2>3, <2>4, CnKept, MonKept, NiKept
  <2> QED BY <2>2, <2>5 DEF ProbeInv, Bases
<1>6. CASE NiStep
  <2>1. NiSteps /\ UNCHANGED <<cnVars, monVars, cnowVars>>
    BY <1>6 DEF NiStep
  <2>2. Bases' /\ NiInv' /\ Others("ni") /\ filling' = filling
    BY <1>0, <2>1, NiSteps1
  <2>3. Of("cn")' = Of("cn") /\ Of("mon")' = Of("mon") /\ Of("cnow")' = Of("cnow")
    BY <2>2 DEF Others
  <2>4. filling = 0
    BY <1>0, <2>1, NotFilling
  <2>5. Rest
    BY <1>0, <2>1, <2>2, <2>3, <2>4, CnKept, MonKept, CnowKept
  <2> QED BY <2>2, <2>5 DEF ProbeInv, Bases
<1>7. CASE UNCHANGED vars
  <2>1. UNCHANGED <<netVars, nr, filling, cnVars, monVars, cnowVars, niVars>>
    BY <1>7 DEF vars, clientVars
  <2>2. Bases' /\ \A src : Of(src)' = Of(src)
    BY <1>0, <2>1, StepIdle
  <2>3. nr' # NoResult => filling = 0
    BY <1>0, <2>1 DEF CnInv, CnTypeOK
  <2>4. Rest
    BY <1>0, <2>1, <2>2, <2>3, CnKept, MonKept, CnowKept, NiKept
  <2> QED BY <2>2, <2>4 DEF ProbeInv, Bases
<1> QED BY <1>1, <1>2, <1>3, <1>4, <1>5, <1>6, <1>7 DEF ClientsNext

THEOREM ProbeInvariant == ClientsSpec => []ProbeInv
BY ProbeInvInit, ProbeInvNext, PTL DEF ClientsSpec

-----------------------------------------------------------------------------
(* What the runs check of it.                                              *)

LEMMA TypesHold == ASSUME ProbeInv PROVE ClientsTypeOK
<1>1. nr \in Results \cup {NoResult}
  BY DEF ProbeInv, ClientInv
<1>2. /\ cnCount \in 0 .. CHECKNET_JOBS /\ cnOutstanding \in 0 .. cnCount + 1
      /\ filling \in 0 .. CHECKNET_JOBS
  BY ChecknetAssumption DEF ProbeInv, CnInv, CnTypeOK
<1>3. Len(niQueue) <= NI_QUEUE_SIZE
  <2>1. PICK n \in 0 .. NI_QUEUE_SIZE : n < niNext /\ niQueue = Run(niNext - 1 - n, n)
    BY DEF ProbeInv, NiInv
  <2>2. niNext - 1 - n \in Nat /\ n \in Nat /\ n <= NI_QUEUE_SIZE
    BY <2>1, NodeIntegrationAssumption DEF ProbeInv, NiInv
  <2> QED BY <2>1, <2>2, RunIs
<1> QED BY <1>1, <1>2, <1>3
     DEF ProbeInv, CnInv, CnTypeOK, MonInv, MonTypeOK, Runs, CnowInv, NiInv, ClientsTypeOK

LEMMA CnExact == ASSUME ProbeInv PROVE CnOutstandingExact
BY DEF ProbeInv, CnInv, CycleExact, Of, CnOutstandingExact

\* A set of at most one element has at most one.
LEMMA AtMostOne ==
  ASSUME NEW S, \A x, y \in S : x = y
  PROVE  IsFiniteSet(S) /\ Cardinality(S) <= 1
<1>1. CASE S = {}
  BY <1>1, FS_EmptySet
<1>2. CASE S # {}
  <2>1. PICK x \in S : TRUE
    BY <1>2
  <2>2. S = {x}
    BY <2>1
  <2>3. IsFiniteSet({x}) /\ Cardinality({x}) = 1
    BY FS_Singleton
  <2> QED BY <2>2, <2>3
<1> QED BY <1>1, <1>2

LEMMA CnowBacked == ASSUME ProbeInv PROVE CnowSlotBacked
<1>1. CnowInv
  BY DEF ProbeInv
<1>2. {j.tag.id : j \in Of("cnow")} = {cnowId} \ {NoCnow}
  <2>1. CASE Of("cnow") = {}
    BY <1>1, <2>1 DEF CnowInv
  <2>2. CASE Of("cnow") # {}
    <3>1. PICK j : Of("cnow") = {j}
      BY <1>1, <2>2 DEF CnowInv
    <3> QED BY <1>1, <2>2, <3>1 DEF CnowInv
  <2> QED BY <2>1, <2>2
<1>3. Cardinality(Of("cnow")) <= 1
  BY <1>1, AtMostOne DEF CnowInv
<1> QED BY <1>2, <1>3 DEF CnowSlotBacked, Of

\* For any queues, slots and cycles: what a client waits for is on its way, and
\* nothing else of it is.
THEOREM NothingAwaitedInVain == ClientsSpec => []AwaitedIsUnderWay
<1>1. ProbeInv => AwaitedIsUnderWay
  BY TypesHold, CnExact, CnowBacked DEF AwaitedIsUnderWay, ProbeInv, MonInv
<1> QED BY <1>1, ProbeInvariant, PTL

\* A cycle traces one peer and files only its own results, and a slot whose
\* configuration never changed has one probe.
THEOREM NothingAskedTwice == ClientsSpec => []AskedOnce
<1>1. ASSUME ProbeInv PROVE AskedOnce
  <2>1. CnOneTrace
    BY <1>1 DEF ProbeInv, CnInv, TracedOnce, CnOneTrace
  <2>2. CnOwnResults
    BY <1>1 DEF ProbeInv, CnInv, CycleExact, CnOwnResults
  <2>3. MonOneProbeUnchanged
    <3> SUFFICES ASSUME NEW s \in Slots, monGen[s] = 1
                 PROVE  Cardinality(ProbesOf(s)) <= 1
      BY DEF MonOneProbeUnchanged
    <3>1. \A j, k \in ProbesOf(s) : j = k
      BY <1>1, ProbesAre DEF ProbeInv, MonInv, SlotOnce
    <3> QED BY <3>1, AtMostOne
  <2> QED BY <2>1, <2>2, <2>3 DEF AskedOnce
<1>2. ProbeInv => AskedOnce
  BY <1>1
<1> QED BY <1>2, ProbeInvariant, PTL

\* The batch is not rebuilt while a job made for it is on its way.
THEOREM BatchIntact == ClientsSpec => []NiBatchIntact
<1>1. ASSUME ProbeInv PROVE NiBatchIntact
  <2>1. Elems(hiQ) \cup Elems(loQ) \cup ({cur} \ {NoJob}) \subseteq Present
    BY <1>1 DEF ProbeInv, ClientInv, NetInv, AllAccepted, Present
  <2>2. pc = "run" => cur # NoJob
    BY <1>1, NetWorkerAssumption DEF ProbeInv, ClientInv, NetInv, CurFollowsPc
  <2> QED BY <1>1, <2>1, <2>2 DEF ProbeInv, NiInv, Of, NiBatchIntact
<1>2. ProbeInv => NiBatchIntact
  BY <1>1
<1> QED BY <1>2, ProbeInvariant, PTL

-----------------------------------------------------------------------------

(***************************************************************************)
(* The script engine's inductive invariant.                                *)
(***************************************************************************)
Carries(j, a) == j.tag.token = a.token /\ j.tag.id = a.id /\ j.tag.step = a.step

\* A token is given once, so a job is known by it.
JobsKnown ==
    /\ \A j \in Present : j.tag \in ScTags /\ j.tag.token <= scSeq
    /\ \A j, k \in Present : j.tag.token = k.tag.token => j = k

\* A script that is suspended has not been resumed, and its job is on its way.
AwaitsKnown ==
    \A i \in ActivePlaces :
        /\ scAwaits[i].token <= scSeq /\ scResumed[scAwaits[i].token] = 0
        /\ \E j \in Present : Carries(j, scAwaits[i])

\* Tokens not given yet resumed nothing.
TokensOnce ==
    /\ scResumed \in [Tokens -> {0, 1}]
    /\ \A t \in Tokens : t > scSeq => scResumed[t] = 0

EngInv ==
    /\ ClientInv /\ EngineTypeOK
    /\ JobsKnown /\ AwaitsKnown /\ ScAwaitFits /\ TokensOnce /\ ScFreshKept
    /\ nr # NoResult => filling = 0

(***************************************************************************)
(* The watchdog's.                                                         *)
(***************************************************************************)
ProbeIs ==
    /\ \A j \in Present : j.tag \in WdTags
    /\ probing <=> \E j \in Present : j.tag.src = "wd"
    /\ \A j, k \in Present : j.tag.src = "wd" /\ k.tag.src = "wd" => j = k

\* The outage of the watchdog is no longer than the real one; a session that is
\* up has ended both the outage and the episode.
OutageIs ==
    /\ downFor <= deadFor
    /\ downSince = 0 => downFor = 0
    /\ link = "up" => downSince = 0 /\ nvs = 0
    /\ prev = nvs

WdInv == ClientInv /\ WdTypeOK /\ ProbeIs /\ OutageIs /\ WdGraceHonoured

-----------------------------------------------------------------------------
(* The watchdog.                                                           *)

LEMMA WdTagIs ==
  /\ \A t \in WdTags : t \in Tags /\ (t.src = "wd" \/ t.src = "other")
  /\ WdTag \in WdTags /\ WdTag.src = "wd"
  /\ [src |-> "other"] \in WdTags
  /\ \A t \in WdTags : t.src = "wd" => t = WdTag
BY WdTagsAssumption DEF WdTags, WdTag

LEMMA NetInvStarts == NetInit => NetInv
BY NetInvInit

\* A restart starts from nothing but NVS.
LEMMA WdBoots ==
  ASSUME WdInv, NEW why \in {"power", "hung", "proph"}, NEW stored \in 0 .. moments,
         Boot(why, stored),
         why = "hung" => deadFor >= WS_WD_GRACE,
         why = "proph" => deadFor >= WS_WD_PROPH
  PROVE  WdInv'
<1>2. NetInit'
  BY DEF Boot, NetInit
<1>3. NetInv'
  BY <1>2, NetInvStarts, PTL
<1>4. nr' = NoResult /\ inFlight' = {} /\ nr'.job = NoJob
  BY DEF Boot, NoResult
<1>5. ClientInv' /\ Present' = {}
  BY <1>3, <1>4 DEF ClientInv, Present
<1>6. WdTypeOK'
  <2>1. boot' \in [why : {"power", "hung", "proph"}, deadFor : 0 .. WS_WD_PROPH]
    BY DEF Boot, WdInv, WdTypeOK
  <2>2. 0 \in 0 .. WS_WD_PROPH /\ 0 \in 0 .. moments /\ moments' = moments
    BY WatchdogAssumption DEF Boot, WdInv, WdTypeOK
  <2> QED BY <2>1, <2>2 DEF Boot, WdInv, WdTypeOK
<1>8. OutageIs' /\ WdGraceHonoured'
  BY DEF Boot, OutageIs, WdGraceHonoured
<1>7. ProbeIs'
  BY <1>5 DEF Boot, ProbeIs
<1> QED BY <1>5, <1>6, <1>7, <1>8 DEF WdInv

\* Whatever leaves the worker, the result at hand and the probe's flag alone.
LEMMA WdSameProbe ==
  ASSUME WdInv, UNCHANGED <<netVars, nr, probing>>
  PROVE  ClientInv' /\ ProbeIs'
BY ClientIdle DEF WdInv, ProbeIs

\* The tick, whatever ws.loop reported in it.
LEMMA WsLoopIs ==
  ASSUME WdInv, WsLoop
  PROVE  /\ link' \in {"down", "open", "up"} /\ clock' \in BOOLEAN
         /\ prev' \in {prev, 0} /\ nvs' = prev'
         /\ link' = "up" => nvs' = 0
         /\ nvs' # nvs => nvs' = 0 /\ link' = "up"
BY DEF WdInv, WdTypeOK, OutageIs, WsLoop, NothingHappens, Connects, Disconnects,
       Identified, Refused

LEMMA WdTicks == ASSUME WdInv, Tick PROVE WdInv'
<1>1. /\ WsLoop /\ LoopFree
      /\ deadFor' = IF link' = "up" \/ ~wifi THEN 0 ELSE deadFor
  BY DEF Tick
<1>2. /\ moments \in Nat /\ moments <= MaxMoments /\ downSince \in 0 .. moments
      /\ downFor \in 0 .. WS_WD_PROPH /\ deadFor \in 0 .. WS_WD_PROPH
      /\ downFor <= deadFor /\ prev \in 0 .. moments /\ prev = nvs
      /\ (downSince = 0 => downFor = 0) /\ nr = NoResult
      /\ WS_WD_PROPH \in Nat
  BY <1>1, WatchdogAssumption DEF WdInv, WdTypeOK, OutageIs, LoopFree
<1>3. CASE TickUp
  <2>1. ClientInv' /\ ProbeIs'
    BY <1>3, WdSameProbe DEF TickUp, clientVars
  <2>2. WdTypeOK'
    BY <1>1, <1>2, <1>3, WsLoopIs DEF TickUp, WdInv, WdTypeOK
  <2>3. OutageIs' /\ WdGraceHonoured'
    BY <1>1, <1>2, <1>3, WsLoopIs DEF TickUp, WdInv, OutageIs, WdGraceHonoured
  <2> QED BY <2>1, <2>2, <2>3 DEF WdInv
<1>4. CASE TickDown
  <2>1. ClientInv' /\ ProbeIs'
    BY <1>4, WdSameProbe DEF TickDown, clientVars
  <2>2. moments' \in 1 .. MaxMoments /\ moments <= moments'
    BY <1>2, <1>4, WatchdogAssumption DEF TickDown
  <2>3. WdTypeOK'
    BY <1>1, <1>2, <1>4, <2>2, WsLoopIs DEF TickDown, WdInv, WdTypeOK
  <2>4. OutageIs' /\ WdGraceHonoured'
    BY <1>1, <1>2, <1>4, <2>2, WsLoopIs DEF TickDown, WdInv, OutageIs, WdGraceHonoured
  <2> QED BY <2>1, <2>3, <2>4 DEF WdInv
<1>5. CASE TickProbe
  <2>1. /\ link' # "up" /\ wifi /\ nr' = nr
        /\ UNCHANGED <<wifi, downSince, downFor, moments, boot>>
    BY <1>5 DEF TickProbe, clientVars
  <2>2. probing' \in BOOLEAN /\ probeDue' \in BOOLEAN
    BY <1>5 DEF TickProbe, WdInv, WdTypeOK
  <2>3. WdTypeOK'
    BY <1>1, <1>2, <2>1, <2>2, WsLoopIs DEF WdInv, WdTypeOK
  <2>4. OutageIs' /\ WdGraceHonoured'
    BY <1>1, <1>2, <2>1, WsLoopIs DEF WdInv, OutageIs, WdGraceHonoured
  <2>5. CASE UNCHANGED <<netVars, probing>>
    <3>1. ClientInv' /\ ProbeIs'
      BY <2>1, <2>5, WdSameProbe
    <3> QED BY <2>3, <2>4, <3>1 DEF WdInv
  <2>6. CASE ~probing /\ Submit(FALSE, WdTag) /\ probing' = TRUE
    <3>1. \A j \in Present : j.tag.src # "wd"
      BY <2>6 DEF WdInv, ProbeIs
    <3>2. PICK j \in Jobs : j.tag = WdTag /\ j \notin Present /\ inFlight' = inFlight \cup {j}
      BY <2>6, WdTagIs, SubmitNew DEF WdInv
    <3>3. NetInv'
      BY <2>6, WdTagIs, SubmitNew DEF WdInv
    <3>4. ClientInv' /\ Present' = Present \cup {j}
      BY <2>1, <3>2, <3>3, JobAdded DEF WdInv
    <3>5. ProbeIs'
      BY <2>6, <3>1, <3>2, <3>4, WdTagIs DEF WdInv, ProbeIs
    <3> QED BY <2>3, <2>4, <3>4, <3>5 DEF WdInv
  <2> QED BY <1>5, <2>5, <2>6 DEF TickProbe
<1> QED BY <1>3, <1>4, <1>5 DEF Tick
\* What ws_wd_persist_episode stores is a moment, and the one stored before if
\* there was one.
LEMMA EpisodeIs ==
  ASSUME WdInv, NEW known
  PROVE  /\ Episode(known) \in 0 .. moments
         /\ nvs # 0 => Episode(known) = nvs
BY DEF WdInv, WdTypeOK, OutageIs, Episode

\* Clocks, WiFi and the like.
LEMMA WdSurroundings ==
  ASSUME WdInv, Time \/ ProbeTime \/ WifiChanges
  PROVE  WdInv'
<1>1. /\ downFor \in 0 .. WS_WD_PROPH /\ deadFor \in 0 .. WS_WD_PROPH
      /\ downFor <= deadFor /\ WS_WD_PROPH \in Nat
      /\ (link = "up" => downSince = 0) /\ (downSince = 0 => downFor = 0)
  BY WatchdogAssumption DEF WdInv, WdTypeOK, OutageIs
<1>2. ClientInv' /\ ProbeIs'
  BY WdSameProbe DEF Time, ProbeTime, WifiChanges, clientVars
<1>3. CASE Time
  <2>1. downFor' \in 0 .. WS_WD_PROPH /\ deadFor' \in 0 .. WS_WD_PROPH /\ downFor' <= deadFor'
    BY <1>1, <1>3 DEF Time, Later
  <2>2. WdTypeOK' /\ OutageIs' /\ WdGraceHonoured'
    BY <1>3, <2>1 DEF Time, WdInv, WdTypeOK, OutageIs, WdGraceHonoured
  <2> QED BY <1>2, <2>2 DEF WdInv
<1>4. CASE ProbeTime
  BY <1>2, <1>4 DEF ProbeTime, WdInv, WdTypeOK, OutageIs, WdGraceHonoured
<1>5. CASE WifiChanges
  BY <1>2, <1>5 DEF WifiChanges, WdInv, WdTypeOK, OutageIs, WdGraceHonoured
<1> QED BY <1>3, <1>4, <1>5

\* The result of a probe is dispatched, or of another client's job.
LEMMA WdAnswered ==
  ASSUME WdInv, Dispatched("wd"), Done, UNCHANGED netVars, probing' = FALSE
  PROVE  ClientInv' /\ ProbeIs'
<1>1. nr # NoResult /\ nr.job.tag.src = "wd" /\ nr' = NoResult /\ ProbeIs
  BY DEF Dispatched, Done, WdInv
<1>2. ClientInv' /\ Present' = Present \ {nr.job} /\ nr.job \in Present
  BY <1>1, ResultDone DEF WdInv
<1> QED BY <1>1, <1>2 DEF ProbeIs

LEMMA OthersAreAnswered ==
  ASSUME WdInv, Dispatched("other"), Done, UNCHANGED <<netVars, probing>>
  PROVE  ClientInv' /\ ProbeIs'
<1>1. nr # NoResult /\ nr.job.tag.src = "other" /\ nr' = NoResult /\ ProbeIs
  BY DEF Dispatched, Done, WdInv
<1>2. ClientInv' /\ Present' = Present \ {nr.job} /\ nr.job \in Present
  BY <1>1, ResultDone DEF WdInv
<1> QED BY <1>1, <1>2 DEF ProbeIs

LEMMA WdResults ==
  ASSUME WdInv, WdOnResult
  PROVE  WdInv'
<1>1. CASE /\ probing' = FALSE /\ Done
           /\ UNCHANGED <<netVars, wifi, link, clock, downSince, downFor, prev, nvs,
                          moments, deadFor, boot>>
           /\ probeDue' \in {probeDue, FALSE}
  <2>1. ClientInv' /\ ProbeIs'
    BY <1>1, WdAnswered DEF WdOnResult
  <2>2. WdTypeOK' /\ OutageIs' /\ WdGraceHonoured'
    BY <1>1 DEF WdInv, WdTypeOK, OutageIs, WdGraceHonoured
  <2> QED BY <2>1, <2>2 DEF WdInv
<1>2. CASE downSince # 0 /\ link # "up" /\ downFor >= WS_WD_GRACE /\ Restart("hung", clock)
  <2>1. deadFor >= WS_WD_GRACE
    BY <1>2, WatchdogAssumption DEF WdInv, WdTypeOK, OutageIs
  <2> QED BY <1>2, <2>1, EpisodeIs, WdBoots DEF Restart
<1> QED BY <1>1, <1>2 DEF WdOnResult

LEMMA WdRestarts ==
  ASSUME WdInv, Prophylactic \/ PowerFails
  PROVE  WdInv'
<1>1. CASE Prophylactic
  <2>1. PICK known \in {clock, clock \/ link = "open"} : Restart("proph", known)
    BY <1>1 DEF Prophylactic
  <2>2. deadFor >= WS_WD_PROPH
    BY <1>1, WatchdogAssumption DEF Prophylactic, WdInv, WdTypeOK, OutageIs
  <2> QED BY <2>1, <2>2, EpisodeIs, WdBoots DEF Restart
<1>2. CASE PowerFails
  <2>1. nvs \in 0 .. moments
    BY DEF WdInv, WdTypeOK
  <2> QED BY <1>2, <2>1, WdBoots DEF PowerFails
<1> QED BY <1>1, <1>2

\* The worker's other clients.
LEMMA WdOthers ==
  ASSUME WdInv, OthersAsk \/ OthersAnswered
  PROVE  WdInv'
<1>1. CASE OthersAsk
  <2>2. /\ NetInv'
        /\ \E j \in Jobs : /\ j.tag = [src |-> "other"] /\ j \notin Present
                           /\ inFlight' = inFlight \cup {j}
    BY <1>1, WdTagIs, SubmitNew DEF OthersAsk, WdInv
  <2>3. PICK j \in Jobs : /\ j.tag = [src |-> "other"] /\ j \notin Present
                          /\ inFlight' = inFlight \cup {j}
    BY <2>2
  <2>4. ClientInv' /\ Present' = Present \cup {j}
    BY <1>1, <2>2, <2>3, JobAdded DEF OthersAsk, clientVars, WdInv
  <2>5. j.tag \in WdTags /\ j.tag.src = "other" /\ UNCHANGED wdVars
    BY <1>1, <2>3, WdTagIs DEF OthersAsk
  <2>6. ProbeIs'
    BY <2>4, <2>5 DEF WdInv, ProbeIs, wdVars
  <2>7. WdTypeOK' /\ OutageIs' /\ WdGraceHonoured'
    BY <2>5 DEF wdVars, WdInv, WdTypeOK, OutageIs, WdGraceHonoured
  <2> QED BY <2>4, <2>6, <2>7 DEF WdInv
<1>2. CASE OthersAnswered
  <2>1. ClientInv' /\ ProbeIs'
    BY <1>2, OthersAreAnswered DEF OthersAnswered, wdVars
  <2>2. WdTypeOK' /\ OutageIs' /\ WdGraceHonoured'
    BY <1>2 DEF OthersAnswered, wdVars, WdInv, WdTypeOK, OutageIs, WdGraceHonoured
  <2> QED BY <2>1, <2>2 DEF WdInv
<1> QED BY <1>1, <1>2

LEMMA WdUnchanged ==
  ASSUME WdInv, ClientInv', Present' = Present, UNCHANGED wdVars
  PROVE  WdInv'
BY DEF WdInv, wdVars, WdTypeOK, OutageIs, WdGraceHonoured, ProbeIs

LEMMA WdInvNext == ASSUME WdInv, [WdNext]_nodeVars PROVE WdInv'
<1>1. CASE WorkerNext /\ UNCHANGED <<clientVars, wdVars>>
  BY <1>1, WorkerUnseen, WdUnchanged DEF WdInv
<1>2. CASE Take /\ UNCHANGED wdVars
  BY <1>2, TakeKeepsPresent, WdUnchanged DEF WdInv
<1>3. CASE UNCHANGED nodeVars
  BY <1>3, ClientIdle, WdUnchanged DEF nodeVars, clientVars, WdInv
<1> QED BY <1>1, <1>2, <1>3, WdTicks, WdRestarts, WdResults, WdSurroundings, WdOthers DEF WdNext

LEMMA WdInvInit == ASSUME NetInit, ClientInit, WdInit PROVE WdInv
<1>1. ClientInv /\ Present = {}
  BY ClientInvInit
<1>2. WdTypeOK
  <2>1. boot \in [why : {"power", "hung", "proph"}, deadFor : 0 .. WS_WD_PROPH]
    BY WatchdogAssumption DEF WdInit
  <2>2. 0 \in 0 .. WS_WD_PROPH /\ 0 \in 0 .. MaxMoments /\ 0 \in 0 .. 0
    BY WatchdogAssumption
  <2> QED BY <2>1, <2>2 DEF WdInit, WdTypeOK
<1>3. ProbeIs /\ OutageIs /\ WdGraceHonoured
  BY <1>1 DEF WdInit, ProbeIs, OutageIs, WdGraceHonoured
<1> QED BY <1>1, <1>2, <1>3 DEF WdInv

THEOREM WatchdogInvariant == WdSpec => []WdInv
<1>1. NetInit /\ ClientInit /\ WdInit => WdInv
  BY WdInvInit
<1>2. WdInv /\ [WdNext]_nodeVars => WdInv'
  BY WdInvNext
<1> QED BY <1>1, <1>2, PTL DEF WdSpec

\* For any grace period, prophylactic limit and queue: the watchdog waits for a
\* probe exactly while one is in the worker, and restarts no node early.
THEOREM WatchdogConsistent == WdSpec => []WdConsistent
<1>1. ASSUME WdInv PROVE WdConsistent
  <2>1. CASE probing
    <3>1. PICK j \in Present : j.tag.src = "wd"
      BY <1>1, <2>1 DEF WdInv, ProbeIs
    <3>2. {k \in Present : k.tag.src = "wd"} = {j}
      BY <1>1, <3>1 DEF WdInv, ProbeIs
    <3> QED BY <1>1, <2>1, <3>2, FS_Singleton DEF WdInv, WdConsistent, WdProbeBacked
  <2>2. CASE ~probing
    <3>1. {k \in Present : k.tag.src = "wd"} = {}
      BY <1>1, <2>2 DEF WdInv, ProbeIs
    <3> QED BY <1>1, <2>2, <3>1, FS_EmptySet DEF WdInv, WdConsistent, WdProbeBacked
  <2> QED BY <2>1, <2>2
<1> QED BY <1>1, WatchdogInvariant, PTL

\* What NVS holds of an outage is neither lost nor replaced by any restart, and
\* is cleared by the session that reports it.
THEOREM EpisodeOutlivesRestarts == WdSpec => WdEpisodeKept
<1> DEFINE Kept == /\ nvs # 0 /\ nvs' # nvs => nvs' = 0 /\ link' = "up"
                   /\ link' = "up" => nvs' = 0
<1>1. ASSUME WdInv, [WdNext]_nodeVars PROVE Kept
  <2>1. CASE Tick
    BY <1>1, <2>1, WsLoopIs DEF Tick
  <2>2. CASE \E why, stored : Boot(why, stored) /\ (nvs # 0 => stored = nvs)
    BY <2>2 DEF Boot
  <2>3. CASE UNCHANGED <<link, nvs>>
    BY <1>1, <2>3 DEF WdInv, OutageIs
  <2>4. ASSUME Restart("hung", clock) PROVE Kept
    BY <1>1, <2>2, <2>4, EpisodeIs DEF Restart
  <2>5. CASE WdOnResult
    BY <2>3, <2>4, <2>5 DEF WdOnResult
  <2>6. CASE Prophylactic
    <3>1. PICK known \in {clock, clock \/ link = "open"} : Restart("proph", known)
      BY <2>6 DEF Prophylactic
    <3> QED BY <1>1, <2>2, <3>1, EpisodeIs DEF Restart
  <2>7. CASE PowerFails
    BY <2>2, <2>7 DEF PowerFails
  <2>8. CASE \/ Time \/ ProbeTime \/ WifiChanges \/ OthersAsk \/ OthersAnswered
             \/ UNCHANGED wdVars \/ UNCHANGED nodeVars
    BY <2>3, <2>8 DEF Time, ProbeTime, WifiChanges, OthersAsk, OthersAnswered, wdVars, nodeVars
  <2> QED BY <1>1, <2>1, <2>5, <2>6, <2>7, <2>8 DEF WdNext
<1>2. WdInv /\ [WdNext]_nodeVars => [Kept]_nodeVars
  BY <1>1
<1> QED BY <1>2, WatchdogInvariant, PTL DEF WdSpec, WdEpisodeKept
-----------------------------------------------------------------------------
(* The script engine: what a run of steps does.                            *)

NewAwait(s, k) ==
    [token |-> scSeq + 1, id |-> s.id, step |-> k, due |-> FALSE, late |-> filling # 0]

Tables == [Places -> Awaits \cup {NoAwait}]

\* The run ends in a network step of its script, whose await takes the first free
\* place.
Launched(aw, s, k, p, j) ==
    /\ s.prog[k] = "net" /\ k <= Len(s.prog) /\ ~Awaiting(aw, s.id)
    /\ aw[p] = NoAwait /\ \A q \in 1 .. p - 1 : aw[q] # NoAwait
    /\ scSeq' = scSeq + 1 /\ scSeq' <= MaxTokens
    /\ j \notin Present /\ inFlight' = inFlight \cup {j}
    /\ j.tag = [src |-> "script", token |-> scSeq + 1, id |-> s.id, step |-> k]
    /\ scAwaits' = [aw EXCEPT ![p] = NewAwait(s, k)]

\* It ends without one.
NotLaunched(aw) ==
    /\ scAwaits' = aw /\ inFlight' = inFlight
    /\ scSeq' \in {scSeq, scSeq + 1} /\ scSeq' <= MaxTokens

\* script_engine_register_await finds the first free place if there is one.
LEMMA FreePlaceIs ==
  ASSUME NEW aw \in Tables, \E i \in Places : aw[i] = NoAwait
  PROVE  /\ FreePlace(aw) \in Places /\ aw[FreePlace(aw)] = NoAwait
         /\ \A q \in 1 .. FreePlace(aw) - 1 : aw[q] # NoAwait
<1> DEFINE Free == {i \in Places : aw[i] = NoAwait}
<1>1. Free \subseteq Nat /\ Free # {}
  BY DEF Places
<1>2. PICK i \in Free : \A k \in Free : ~(<<k, i>> \in OpToRel(<, Nat))
  BY <1>1, WFMin, NatLessThanWellFounded
<1>3. \A k \in Free : ~(k < i)
  BY <1>1, <1>2 DEF OpToRel
<1>4. i \in Places /\ aw[i] = NoAwait /\ \A q \in 1 .. i - 1 : aw[q] # NoAwait
  BY <1>3, ScriptAssumption DEF Places
<1> QED BY <1>4 DEF FreePlace

LEMMA LoadedIs ==
  ASSUME EngineTypeOK, NEW s \in Loaded
  PROVE  /\ s.id \in ScriptIds /\ s.prog \in Seq({"net", "local"})
         /\ Len(s.prog) <= MAX_STEPS
<1>1. /\ scDs \in Seq(Scripts) /\ scUs \in Seq(Scripts)
  <2>1. <<>> \in Seq(Scripts)
    OBVIOUS
  <2> QED BY <2>1, ScriptAssumption DEF EngineTypeOK
<1>2. s \in Scripts
  BY <1>1 DEF Loaded, Active
<1> QED BY <1>2, ScriptAssumption DEF Scripts

\* run_steps: whatever it does is one of the two.
LEMMA RunOutcome ==
  ASSUME ClientInv, EngineTypeOK,
         NEW aw \in Tables, NEW s \in Loaded, NEW from \in Nat \ {0},
         RunSteps(aw, s, from)
  PROVE  /\ NetInv'
         /\ \/ NotLaunched(aw)
            \/ \E k \in Steps, p \in Places, j \in Jobs : Launched(aw, s, k, p, j)
<1>1. scSeq \in Nat /\ scSeq <= MaxTokens /\ MaxTokens \in Nat
  BY ScriptAssumption DEF EngineTypeOK
<1>2. CASE UNCHANGED netVars /\ scAwaits' = aw /\ UNCHANGED scSeq
  <2>1. NetInv'
    BY <1>2, NetInvOther DEF netVars, ClientInv, NetInv, NetTypeOK
  <2> QED BY <1>1, <1>2, <2>1 DEF NotLaunched, netVars
<1>3. CASE scSeq < MaxTokens /\ UNCHANGED netVars /\ scAwaits' = aw /\ scSeq' = scSeq + 1
  <2>1. NetInv'
    BY <1>3, NetInvOther DEF netVars, ClientInv, NetInv, NetTypeOK
  <2> QED BY <1>1, <1>3, <2>1 DEF NotLaunched, netVars
<1>4. ASSUME NEW k \in from .. Len(s.prog), s.prog[k] = "net", scSeq < MaxTokens,
             ~Awaiting(aw, s.id), \E i \in Places : aw[i] = NoAwait, Launch(aw, s, k)
      PROVE  /\ NetInv'
             /\ \E p \in Places, j \in Jobs : k \in Steps /\ Launched(aw, s, k, p, j)
  <2> DEFINE t == [src |-> "script", token |-> scSeq + 1, id |-> s.id, step |-> k]
             p == FreePlace(aw)
  <2>1. k \in Steps /\ k <= Len(s.prog)
    <3>1. Len(s.prog) \in Nat /\ Len(s.prog) <= MAX_STEPS /\ MAX_STEPS \in Nat
      BY LoadedIs, ScriptAssumption
    <3> QED BY <1>4, <3>1 DEF Steps
  <2>2. t \in Tags
    <3>1. scSeq + 1 \in Tokens /\ s.id \in ScriptIds
      BY <1>1, <1>4, LoadedIs DEF Tokens
    <3> QED BY <2>1, <3>1, ScTagsAssumption DEF ScTags
  <2>4. Submit(FALSE, t)
    BY <1>4 DEF Launch
  <2>5. NetInv' /\ \E j \in Jobs : j.tag = t /\ j \notin Present /\ inFlight' = inFlight \cup {j}
    <3> HIDE DEF t
    <3> QED BY <2>2, <2>4, SubmitNew
  <2>6. PICK j \in Jobs : j.tag = t /\ j \notin Present /\ inFlight' = inFlight \cup {j}
    BY <2>5
  <2>7. p \in Places /\ aw[p] = NoAwait /\ \A q \in 1 .. p - 1 : aw[q] # NoAwait
    BY <1>4, FreePlaceIs
  <2>8. Launched(aw, s, k, p, j)
    BY <1>1, <1>4, <2>1, <2>6, <2>7 DEF Launched, Launch, NewAwait
  <2> QED BY <2>1, <2>5, <2>7, <2>8
<1>5. CASE \E k \in from .. Len(s.prog) :
              /\ s.prog[k] = "net" /\ scSeq < MaxTokens
              /\ ~Awaiting(aw, s.id) /\ \E i \in Places : aw[i] = NoAwait
              /\ Launch(aw, s, k)
  BY <1>4, <1>5
<1> QED BY <1>2, <1>3, <1>5 DEF RunSteps, LaunchFails
\* A run begins with the awaits aw: those there were, without one that is over.
\* It may count that one as resumed, and end the dispatch of its result.
RunsOn(aw) ==
    /\ aw \in Tables /\ \A q \in Places : aw[q] = NoAwait \/ aw[q] = scAwaits[q]
    /\ UNCHANGED <<scDs, scUs, scNvs>>
    /\ scResumed' \in [Tokens -> {0, 1}]
    /\ \A t \in Tokens : \/ scResumed'[t] = scResumed[t]
                         \/ /\ t <= scSeq
                            /\ \A q \in Places : aw[q] # NoAwait => aw[q].token # t
    /\ \/ nr' = nr
       \/ /\ nr' = NoResult
          /\ \A q \in Places : aw[q] # NoAwait => aw[q].token # nr.job.tag.token
    /\ filling' \in 0 .. MAX_SCRIPTS
    /\ nr' # NoResult => filling' = 0
    /\ filling' # 0 => /\ filling \in Places /\ aw[filling] = NoAwait
                       /\ filling' = filling + 1

\* The places after the run hold what they held at its beginning, but for one
\* new await.
LEMMA RunLeaves ==
  ASSUME NEW aw \in Tables, NEW s, NEW k \in Steps, NEW p \in Places, NEW j,
         Launched(aw, s, k, p, j)
  PROVE  \A q \in Places : \/ q # p /\ scAwaits'[q] = aw[q]
                           \/ q = p /\ scAwaits'[q] = NewAwait(s, k)
BY DEF Launched, Tables

LEMMA NewAwaitIs ==
  ASSUME EngineTypeOK, NEW s \in Loaded, NEW k \in Steps, scSeq + 1 <= MaxTokens
  PROVE  /\ NewAwait(s, k) \in Awaits /\ NewAwait(s, k) # NoAwait
         /\ NewAwait(s, k).token = scSeq + 1 /\ NewAwait(s, k).id = s.id
         /\ NewAwait(s, k).step = k /\ NewAwait(s, k).late = (filling # 0)
<1>1. scSeq + 1 \in Tokens /\ scSeq + 1 # 0
  BY ScriptAssumption DEF EngineTypeOK, Tokens
<1>2. NewAwait(s, k).token = scSeq + 1
  BY DEF NewAwait
<1> QED BY <1>1, <1>2, LoadedIs DEF NewAwait, Awaits, NoAwait

LEMMA RunKeepsNothing ==
  ASSUME EngInv, NEW aw, RunsOn(aw), NetInv', NotLaunched(aw)
  PROVE  EngInv'
<1>1. /\ aw \in Tables /\ \A q \in Places : aw[q] = NoAwait \/ aw[q] = scAwaits[q]
      /\ scAwaits' = aw /\ inFlight' = inFlight /\ UNCHANGED <<scDs, scUs, scNvs>>
      /\ scSeq \in Nat /\ scSeq' \in Nat /\ scSeq <= scSeq' /\ scSeq' <= MaxTokens
      /\ MaxTokens \in Nat
  BY ScriptAssumption DEF RunsOn, NotLaunched, EngInv, EngineTypeOK
<1>2. ClientInv' /\ Present' \subseteq Present
      /\ \A j \in Present : j \in Present' \/ (j = nr.job /\ nr' = NoResult /\ nr # NoResult)
  <2>1. {} \subseteq Jobs /\ {} \cap Present = {} /\ inFlight' = inFlight \cup {}
    BY <1>1
  <2>2. nr' \in {nr, NoResult}
    BY DEF RunsOn
  <2>3. /\ ClientInv'
        /\ nr' = nr => Present' = Present \cup {}
        /\ nr' = NoResult => Present' = (inFlight \cup {})
    BY <2>1, <2>2, ClientStep DEF EngInv
  <2>4. CASE nr' = nr
    BY <2>3, <2>4
  <2>5. CASE nr' = NoResult /\ nr # NoResult
    <3>1. Present = inFlight \cup {nr.job} /\ Present' = inFlight
      BY <2>3, <2>5, PresentIs DEF EngInv
    <3> QED BY <2>3, <2>5, <3>1
  <2> QED BY <2>2, <2>4, <2>5
<1>3. ActivePlaces' \subseteq ActivePlaces /\ \A q \in ActivePlaces' : aw[q] = scAwaits[q] /\ aw[q] # NoAwait
  BY <1>1 DEF ActivePlaces
<1>4. EngineTypeOK'
  BY <1>1, <1>2 DEF RunsOn, EngInv, EngineTypeOK, ClientInv, Tables
<1>5. JobsKnown'
  BY <1>1, <1>2 DEF EngInv, JobsKnown, ScTags, Tokens
<1>6. AwaitsKnown'
  <2> SUFFICES ASSUME NEW q \in ActivePlaces'
               PROVE  /\ aw[q].token <= scSeq' /\ scResumed'[aw[q].token] = 0
                      /\ \E j \in Present' : Carries(j, aw[q])
    BY <1>1 DEF AwaitsKnown
  <2>1. q \in Places /\ aw[q] # NoAwait /\ aw[q] = scAwaits[q] /\ aw[q] \in Awaits /\ q \in ActivePlaces
    BY <1>1, <1>3 DEF ActivePlaces, Tables
  <2>2. aw[q].token \in Tokens
    BY <2>1 DEF Awaits
  <2>3. aw[q].token <= scSeq /\ scResumed[aw[q].token] = 0
    BY <2>1 DEF EngInv, AwaitsKnown
  <2>4. scResumed'[aw[q].token] = 0
    BY <2>1, <2>2, <2>3 DEF RunsOn
  <2>5. PICK j \in Present : Carries(j, aw[q])
    BY <2>1 DEF EngInv, AwaitsKnown
  <2>6. j \in Present'
    BY <1>2, <2>1, <2>5 DEF RunsOn, Carries
  <2> QED BY <1>1, <2>2, <2>3, <2>4, <2>5, <2>6 DEF Tokens
<1>7. ScAwaitFits'
  <2>1. Loaded' = Loaded
    BY <1>1 DEF Loaded, Active
  <2> QED BY <1>1, <1>3, <2>1 DEF EngInv, ScAwaitFits
<1>8. TokensOnce'
  BY <1>1 DEF RunsOn, EngInv, TokensOnce, Tokens
<1>9. ScFreshKept'
  <2> SUFFICES ASSUME NEW q \in ActivePlaces', filling' # 0, aw[q].late
               PROVE  q < filling'
    BY <1>1 DEF ScFreshKept
  <2>1. filling \in Places /\ filling' = filling + 1 /\ q \in Places
    BY DEF RunsOn, ActivePlaces
  <2>2. q < filling
    BY <1>3, <2>1 DEF EngInv, ScFreshKept, Places
  <2> QED BY <2>1, <2>2 DEF Places
<1> QED BY <1>2, <1>4, <1>5, <1>6, <1>7, <1>8, <1>9 DEF EngInv, RunsOn
LEMMA RunKeepsLaunch ==
  ASSUME EngInv, NEW aw, RunsOn(aw), NetInv',
         NEW s \in Loaded, NEW k \in Steps, NEW p \in Places, NEW j \in Jobs,
         Launched(aw, s, k, p, j)
  PROVE  EngInv'
<1> DEFINE new == NewAwait(s, k)
<1>0. EngineTypeOK /\ ClientInv /\ MaxTokens \in Nat
  BY ScriptAssumption DEF EngInv
<1>1. /\ aw \in Tables /\ \A q \in Places : aw[q] = NoAwait \/ aw[q] = scAwaits[q]
      /\ inFlight' = inFlight \cup {j} /\ j \notin Present
      /\ j.tag = [src |-> "script", token |-> scSeq + 1, id |-> s.id, step |-> k]
      /\ UNCHANGED <<scDs, scUs, scNvs>>
      /\ scSeq \in Nat /\ scSeq' = scSeq + 1 /\ scSeq + 1 <= MaxTokens
      /\ s.prog[k] = "net" /\ k <= Len(s.prog) /\ ~Awaiting(aw, s.id)
  BY <1>0 DEF RunsOn, Launched, EngineTypeOK
<1>2. /\ new \in Awaits /\ new # NoAwait /\ new.token = scSeq + 1 /\ new.id = s.id
      /\ new.step = k /\ new.late = (filling # 0)
  BY <1>0, <1>1, NewAwaitIs
<1> HIDE DEF new
<1>3. \A q \in Places : \/ q # p /\ scAwaits'[q] = aw[q]
                        \/ q = p /\ scAwaits'[q] = new
  BY <1>1, RunLeaves DEF new
<1>4. /\ ClientInv' /\ j \in Present' /\ Present' \subseteq Present \cup {j}
      /\ \A h \in Present : h \in Present' \/ (h = nr.job /\ nr' = NoResult)
  <2>1. {j} \subseteq Jobs /\ {j} \cap Present = {} /\ inFlight' = inFlight \cup {j}
    BY <1>1
  <2>2. nr' \in {nr, NoResult}
    BY DEF RunsOn
  <2>3. /\ ClientInv'
        /\ nr' = nr => Present' = Present \cup {j}
        /\ nr' = NoResult => Present' = inFlight \cup {j}
    BY <1>0, <2>1, <2>2, ClientStep
  <2>4. CASE nr' = nr
    BY <2>3, <2>4
  <2>5. CASE nr' = NoResult /\ nr # NoResult
    <3>1. Present = inFlight \cup {nr.job} /\ Present' = inFlight \cup {j}
      BY <1>0, <2>3, <2>5, PresentIs
    <3> QED BY <2>3, <2>5, <3>1
  <2> QED BY <2>2, <2>4, <2>5
<1>5. scAwaits' \in Tables
  BY <1>1, <1>2 DEF Launched, Tables, new
<1>6. EngineTypeOK'
  BY <1>0, <1>1, <1>4, <1>5 DEF RunsOn, EngineTypeOK, ClientInv, Tables
<1>7. j.tag \in ScTags /\ j.tag.token = scSeq + 1 /\ j.tag.id = s.id /\ j.tag.step = k
  <2>1. scSeq + 1 \in Tokens /\ s.id \in ScriptIds
    BY <1>0, <1>1, LoadedIs DEF Tokens
  <2> QED BY <1>1, <2>1 DEF ScTags
<1>8. JobsKnown'
  <2>1. \A h \in Present : h.tag \in ScTags /\ h.tag.token \in Nat /\ h.tag.token <= scSeq
    BY DEF EngInv, JobsKnown, ScTags, Tokens
  <2>2. \A h, g \in Present : h.tag.token = g.tag.token => h = g
    BY DEF EngInv, JobsKnown
  <2>3. \A h \in Present' : h.tag \in ScTags /\ h.tag.token <= scSeq'
    BY <1>1, <1>4, <1>7, <2>1
  <2>4. ASSUME NEW h \in Present', NEW g \in Present', h.tag.token = g.tag.token
        PROVE  h = g
    BY <1>1, <1>4, <1>7, <2>1, <2>2, <2>4
  <2> QED BY <2>3, <2>4 DEF JobsKnown
<1>9. AwaitsKnown'
  <2> SUFFICES ASSUME NEW q \in ActivePlaces'
               PROVE  /\ scAwaits'[q].token <= scSeq' /\ scResumed'[scAwaits'[q].token] = 0
                      /\ \E h \in Present' : Carries(h, scAwaits'[q])
    BY DEF AwaitsKnown
  <2>1. q \in Places /\ scAwaits'[q] # NoAwait
    BY DEF ActivePlaces
  <2>2. CASE q = p /\ scAwaits'[q] = new
    <3>1. scSeq + 1 \in Tokens /\ scResumed[scSeq + 1] = 0
      BY <1>1 DEF EngInv, TokensOnce, Tokens
    <3>2. scResumed'[scSeq + 1] = 0
      BY <1>1, <3>1 DEF RunsOn
    <3>3. Carries(j, new)
      BY <1>2, <1>7 DEF Carries
    <3> QED BY <1>1, <1>2, <1>4, <2>2, <3>2, <3>3
  <2>3. CASE scAwaits'[q] = aw[q]
    <3>1. aw[q] # NoAwait /\ aw[q] = scAwaits[q] /\ aw[q] \in Awaits /\ q \in ActivePlaces
      BY <1>1, <2>1, <2>3 DEF ActivePlaces, Tables
    <3>2. aw[q].token \in Tokens
      BY <3>1 DEF Awaits
    <3>3. aw[q].token <= scSeq /\ scResumed[aw[q].token] = 0
      BY <3>1 DEF EngInv, AwaitsKnown
    <3>4. scResumed'[aw[q].token] = 0
      BY <2>1, <3>1, <3>2, <3>3 DEF RunsOn
    <3>5. PICK h \in Present : Carries(h, aw[q])
      BY <3>1 DEF EngInv, AwaitsKnown
    <3>6. h \in Present'
      BY <1>0, <1>4, <2>1, <3>1, <3>5, NetWorkerAssumption, PresentIs DEF RunsOn, Carries, NoResult
    <3> QED BY <1>1, <2>3, <3>2, <3>3, <3>4, <3>5, <3>6 DEF Tokens
  <2> QED BY <1>3, <2>1, <2>2, <2>3
<1>10. ScAwaitFits'
  <2>1. Loaded' = Loaded
    BY <1>1 DEF Loaded, Active
  <2>2. ASSUME NEW q \in ActivePlaces'
        PROVE  \/ q = p /\ scAwaits'[q] = new
               \/ q # p /\ scAwaits'[q] = aw[q] /\ aw[q] = scAwaits[q] /\ q \in ActivePlaces
                  /\ scAwaits[q].id # s.id
    BY <1>1, <1>3 DEF ActivePlaces, Awaiting
  <2>3. ASSUME NEW q \in ActivePlaces'
        PROVE  \E r \in Loaded' :
                  /\ r.id = scAwaits'[q].id
                  /\ scAwaits'[q].step <= Len(r.prog) /\ r.prog[scAwaits'[q].step] = "net"
    <3>1. CASE q = p /\ scAwaits'[q] = new
      BY <1>1, <1>2, <2>1, <3>1
    <3>2. CASE scAwaits'[q] = scAwaits[q] /\ q \in ActivePlaces
      BY <2>1, <3>2 DEF EngInv, ScAwaitFits
    <3> QED BY <2>2, <3>1, <3>2
  <2>4. ASSUME NEW q \in ActivePlaces', NEW r \in ActivePlaces',
               scAwaits'[q].id = scAwaits'[r].id
        PROVE  q = r
    BY <1>2, <2>2, <2>4 DEF EngInv, ScAwaitFits
  <2> QED BY <2>3, <2>4 DEF ScAwaitFits
<1>11. TokensOnce'
  BY <1>1 DEF RunsOn, EngInv, TokensOnce, Tokens
<1>12. ScFreshKept'
  <2> SUFFICES ASSUME NEW q \in ActivePlaces', filling' # 0, scAwaits'[q].late
               PROVE  q < filling'
    BY DEF ScFreshKept
  <2>1. /\ filling \in Places /\ filling # 0 /\ filling' = filling + 1
        /\ aw[filling] = NoAwait /\ q \in Places /\ scAwaits'[q] # NoAwait
    BY DEF RunsOn, ActivePlaces, Places
  <2>2. CASE q = p
    <3>1. p <= filling
      BY <2>1 DEF Launched, Places
    <3> QED BY <2>1, <2>2, <3>1 DEF Places
  <2>3. CASE scAwaits'[q] = aw[q]
    <3>1. aw[q] = scAwaits[q] /\ q \in ActivePlaces
      BY <1>1, <2>1, <2>3 DEF ActivePlaces
    <3>2. q < filling
      BY <2>1, <2>3, <3>1 DEF EngInv, ScFreshKept
    <3> QED BY <2>1, <3>2 DEF Places
  <2> QED BY <1>3, <2>1, <2>2, <2>3
<1> QED BY <1>4, <1>6, <1>8, <1>9, <1>10, <1>11, <1>12 DEF EngInv, RunsOn
-----------------------------------------------------------------------------
(* The engine's actions.                                                   *)

\* Two awaits never carry the same token.
LEMMA TokensDiffer ==
  ASSUME EngInv, NEW i \in ActivePlaces, NEW k \in ActivePlaces,
         scAwaits[i].token = scAwaits[k].token
  PROVE  i = k
<1>1. PICK j \in Present : Carries(j, scAwaits[i])
  BY DEF EngInv, AwaitsKnown
<1>2. PICK h \in Present : Carries(h, scAwaits[k])
  BY DEF EngInv, AwaitsKnown
<1>3. j = h
  BY <1>1, <1>2 DEF Carries, EngInv, JobsKnown
<1> QED BY <1>1, <1>2, <1>3 DEF Carries, EngInv, ScAwaitFits

\* A run that begins as RunsOn says preserves the invariant.
LEMMA RunKeeps ==
  ASSUME EngInv, NEW aw, RunsOn(aw),
         \/ \E s \in Loaded, from \in Nat \ {0} : RunSteps(aw, s, from)
         \/ scAwaits' = aw /\ UNCHANGED <<netVars, scSeq>>
  PROVE  EngInv'
<1>0. ClientInv /\ EngineTypeOK /\ aw \in Tables
  BY DEF EngInv, RunsOn
<1>1. CASE scAwaits' = aw /\ UNCHANGED <<netVars, scSeq>>
  <2>1. NetInv'
    BY <1>0, <1>1, NetInvOther DEF netVars, ClientInv, NetInv, NetTypeOK
  <2>2. NotLaunched(aw)
    BY <1>0, <1>1 DEF NotLaunched, netVars, EngineTypeOK
  <2> QED BY <2>1, <2>2, RunKeepsNothing
<1>2. ASSUME NEW s \in Loaded, NEW from \in Nat \ {0}, RunSteps(aw, s, from)
      PROVE  EngInv'
  BY <1>0, <1>2, RunOutcome, RunKeepsNothing, RunKeepsLaunch
<1> QED BY <1>1, <1>2

LEMMA EngScRun == ASSUME EngInv, ScRun PROVE EngInv'
<1>1. PICK s \in Loaded : RunSteps(scAwaits, s, 1)
  BY DEF ScRun
<1>2. UNCHANGED <<clientVars, scDs, scUs, scNvs, scResumed>> /\ filling = 0
  BY DEF ScRun, LoopFree
<1>3. RunsOn(scAwaits)
  BY <1>2, ScriptAssumption DEF RunsOn, clientVars, EngInv, EngineTypeOK, TokensOnce, Tables
<1> QED BY <1>1, <1>3, RunKeeps

\* The await of place i ends, by its result or by its timeout.
LEMMA EngResume ==
  ASSUME EngInv, NEW i \in ActivePlaces, Resume(i), UNCHANGED <<scDs, scUs, scNvs>>,
         \/ nr' = nr
         \/ nr' = NoResult /\ scAwaits[i].token = nr.job.tag.token,
         filling' \in 0 .. MAX_SCRIPTS, nr' # NoResult => filling' = 0,
         filling' # 0 => filling = i /\ filling' = filling + 1
  PROVE  EngInv'
<1> DEFINE a  == scAwaits[i]
           aw == [scAwaits EXCEPT ![i] = NoAwait]
<1>1. /\ i \in Places /\ a # NoAwait /\ scAwaits \in Tables /\ a \in Awaits
      /\ aw \in Tables /\ aw[i] = NoAwait
      /\ \A q \in Places : q # i => aw[q] = scAwaits[q]
  BY DEF ActivePlaces, EngInv, EngineTypeOK, Tables
<1>2. a.token \in Tokens /\ a.step \in Steps
  BY <1>1 DEF Awaits
<1>3. a.token <= scSeq /\ scResumed[a.token] = 0 /\ scResumed \in [Tokens -> {0, 1}]
  BY DEF EngInv, AwaitsKnown, TokensOnce
<1>4. scResumed' = [scResumed EXCEPT ![a.token] = @ + 1]
  BY DEF Resume
<1>5. /\ scResumed' \in [Tokens -> {0, 1}]
      /\ \A t \in Tokens : t # a.token => scResumed'[t] = scResumed[t]
  BY <1>2, <1>3, <1>4
<1>6. \A q \in Places : aw[q] # NoAwait => aw[q].token # a.token
  <2> SUFFICES ASSUME NEW q \in Places, aw[q] # NoAwait, aw[q].token = a.token
               PROVE  FALSE
    OBVIOUS
  <2>1. q # i /\ q \in ActivePlaces /\ scAwaits[q].token = scAwaits[i].token
    BY <1>1 DEF ActivePlaces
  <2> QED BY <2>1, TokensDiffer
<1>7. RunsOn(aw)
  <2> HIDE DEF a, aw
  <2>1. \A q \in Places : aw[q] = NoAwait \/ aw[q] = scAwaits[q]
    BY <1>1
  <2>2. \A t \in Tokens : \/ scResumed'[t] = scResumed[t]
                         \/ /\ t <= scSeq
                            /\ \A q \in Places : aw[q] # NoAwait => aw[q].token # t
    BY <1>3, <1>5, <1>6
  <2>3. \/ nr' = nr
        \/ /\ nr' = NoResult
           /\ \A q \in Places : aw[q] # NoAwait => aw[q].token # nr.job.tag.token
    BY <1>6 DEF a
  <2> QED BY <1>1, <1>5, <2>1, <2>2, <2>3 DEF RunsOn
<1>8. \/ \E s \in Loaded, from \in Nat \ {0} : RunSteps(aw, s, from)
      \/ scAwaits' = aw /\ UNCHANGED <<netVars, scSeq>>
  <2>1. a.step + 1 \in Nat \ {0}
    BY <1>2 DEF Steps
  <2>2. CASE \E s \in Loaded : s.id = a.id /\ RunSteps(aw, s, a.step + 1)
    BY <2>1, <2>2
  <2>3. CASE scAwaits' = aw /\ UNCHANGED <<netVars, scSeq>>
    BY <2>3
  <2> QED BY <2>2, <2>3 DEF Resume
<1> QED
  <2> HIDE DEF aw
  <2> QED BY <1>7, <1>8, RunKeeps

LEMMA EngScOnResult == ASSUME EngInv, ScOnResult PROVE EngInv'
<1>1. /\ nr # NoResult /\ nr' = NoResult /\ filling = 0 /\ filling' = 0
      /\ UNCHANGED <<scDs, scUs, scNvs>> /\ 0 \in 0 .. MAX_SCRIPTS
  BY ScriptAssumption DEF ScOnResult, Dispatched, Done, EngInv
<1>2. CASE \E i \in Places : Matches(scAwaits[i], nr.job.tag) /\ Resume(i)
  <2>1. PICK i \in Places : Matches(scAwaits[i], nr.job.tag) /\ Resume(i)
    BY <1>2
  <2>2. i \in ActivePlaces /\ scAwaits[i].token = nr.job.tag.token
    BY <2>1 DEF Matches, ActivePlaces
  <2> QED BY <1>1, <2>1, <2>2, EngResume
<1>3. CASE /\ ~\E i \in Places : Matches(scAwaits[i], nr.job.tag)
           /\ UNCHANGED <<netVars, scAwaits, scSeq, scResumed>>
  <2>1. \A q \in Places : scAwaits[q] # NoAwait => scAwaits[q].token # nr.job.tag.token
    BY <1>3 DEF Matches
  <2>2. RunsOn(scAwaits)
    BY <1>1, <1>3, <2>1 DEF RunsOn, EngInv, EngineTypeOK, TokensOnce, Tables
  <2> QED BY <1>3, <2>2, RunKeeps
<1> QED BY <1>2, <1>3 DEF ScOnResult

LEMMA EngPassPlace == ASSUME EngInv, PassPlace PROVE EngInv'
<1>1. /\ filling \in Places /\ filling # 0 /\ nr' = nr /\ nr = NoResult
      /\ UNCHANGED <<scDs, scUs, scNvs>> /\ MAX_SCRIPTS \in Nat
      /\ filling' = (IF filling = MAX_SCRIPTS THEN 0 ELSE filling + 1)
  BY ScriptAssumption DEF PassPlace, EngInv, EngineTypeOK, Places
<1>2. filling' \in 0 .. MAX_SCRIPTS /\ (filling' # 0 => filling' = filling + 1)
  BY <1>1 DEF Places
<1>3. CASE TimedOut(scAwaits[filling]) /\ Resume(filling)
  <2>1. filling \in ActivePlaces
    BY <1>1, <1>3 DEF TimedOut, ActivePlaces
  <2> QED BY <1>1, <1>2, <1>3, <2>1, EngResume
<1>4. CASE ~TimedOut(scAwaits[filling]) /\ UNCHANGED <<netVars, scAwaits, scSeq, scResumed>>
  <2>1. ClientInv' /\ Present' = Present
    BY <1>1, <1>4, ClientIdle DEF EngInv
  <2>2. UNCHANGED <<scDs, scUs, scNvs, nr, scAwaits, scSeq, scResumed>>
    BY <1>1, <1>4
  <2>3. EngineTypeOK' /\ JobsKnown' /\ AwaitsKnown' /\ ScAwaitFits' /\ TokensOnce'
    BY <1>2, <2>1, <2>2 DEF EngInv, EngineTypeOK, JobsKnown, AwaitsKnown, ScAwaitFits, TokensOnce,
                      ActivePlaces, Loaded, Active
  <2>4. ScFreshKept'
    <3> SUFFICES ASSUME NEW q \in ActivePlaces, filling' # 0, scAwaits[q].late
                 PROVE  q < filling'
      BY <2>2 DEF ScFreshKept, ActivePlaces
    <3>1. q < filling
      BY <1>1 DEF EngInv, ScFreshKept
    <3> QED BY <1>1, <1>2, <3>1 DEF ActivePlaces, Places
  <2> QED BY <1>1, <2>1, <2>3, <2>4 DEF EngInv
<1> QED BY <1>3, <1>4 DEF PassPlace
\* What leaves the jobs, the scripts and the tokens alone, and of the awaits
\* changes the flags of time only.
LEMMA EngFlags ==
  ASSUME EngInv, ClientInv', Present' = Present, EngineTypeOK',
         UNCHANGED <<scDs, scUs, scNvs, scSeq, scResumed>>,
         \A q \in Places : \/ scAwaits'[q] = NoAwait /\ scAwaits[q] = NoAwait
                          \/ /\ scAwaits'[q] # NoAwait /\ scAwaits[q] # NoAwait
                             /\ scAwaits'[q].token = scAwaits[q].token
                             /\ scAwaits'[q].id = scAwaits[q].id
                             /\ scAwaits'[q].step = scAwaits[q].step
  PROVE  JobsKnown' /\ AwaitsKnown' /\ ScAwaitFits' /\ TokensOnce'
<1>1. ActivePlaces' = ActivePlaces
  BY DEF ActivePlaces
<1>2. \A q \in ActivePlaces : /\ scAwaits'[q].token = scAwaits[q].token
                            /\ scAwaits'[q].id = scAwaits[q].id
                            /\ scAwaits'[q].step = scAwaits[q].step
  BY DEF ActivePlaces
<1>3. JobsKnown' /\ TokensOnce'
  BY DEF EngInv, JobsKnown, TokensOnce
<1>4. AwaitsKnown'
  BY <1>1, <1>2 DEF EngInv, AwaitsKnown, Carries
<1>5. ScAwaitFits'
  <2>1. Loaded' = Loaded
    BY DEF Loaded, Active
  <2> QED BY <1>1, <1>2, <2>1 DEF EngInv, ScAwaitFits
<1> QED BY <1>3, <1>4, <1>5

LEMMA EngPassBegin == ASSUME EngInv, PassBegin PROVE EngInv'
<1>1. /\ nr = NoResult /\ nr' = nr /\ filling' = 1 /\ 1 \in 0 .. MAX_SCRIPTS
      /\ UNCHANGED <<netVars, scDs, scUs, scNvs, scSeq, scResumed>>
  BY ScriptAssumption DEF PassBegin, LoopFree
<1>2. ClientInv' /\ Present' = Present
  BY <1>1, ClientIdle DEF EngInv
<1>3. \A q \in Places : scAwaits'[q] = IF scAwaits[q] = NoAwait THEN NoAwait
                                     ELSE [scAwaits[q] EXCEPT !.late = FALSE]
  BY DEF PassBegin
<1>4. \A q \in Places : scAwaits[q] \in Awaits \cup {NoAwait}
  BY DEF EngInv, EngineTypeOK
<1>5. \A q \in Places :
         \/ scAwaits'[q] = NoAwait /\ scAwaits[q] = NoAwait
         \/ /\ scAwaits'[q] # NoAwait /\ scAwaits[q] # NoAwait
            /\ scAwaits'[q].token = scAwaits[q].token
            /\ scAwaits'[q].id = scAwaits[q].id
            /\ scAwaits'[q].step = scAwaits[q].step
            /\ scAwaits'[q] \in Awaits /\ ~scAwaits'[q].late
  <2> SUFFICES ASSUME NEW q \in Places, scAwaits[q] # NoAwait
               PROVE  /\ scAwaits'[q] # NoAwait
                      /\ scAwaits'[q].token = scAwaits[q].token
                      /\ scAwaits'[q].id = scAwaits[q].id
                      /\ scAwaits'[q].step = scAwaits[q].step
                      /\ scAwaits'[q] \in Awaits /\ ~scAwaits'[q].late
    BY <1>3
  <2>1. scAwaits[q] \in Awaits /\ scAwaits'[q] = [scAwaits[q] EXCEPT !.late = FALSE]
    BY <1>3, <1>4
  <2>2. /\ scAwaits'[q] \in Awaits /\ scAwaits'[q].token = scAwaits[q].token
        /\ scAwaits'[q].id = scAwaits[q].id /\ scAwaits'[q].step = scAwaits[q].step
        /\ scAwaits'[q].late = FALSE
    BY <2>1 DEF Awaits
  <2>3. scAwaits'[q].token # 0
    BY <2>2 DEF Awaits, Tokens
  <2> QED BY <2>2, <2>3 DEF NoAwait
<1>6. scAwaits' \in [Places -> Awaits \cup {NoAwait}]
  BY <1>5 DEF PassBegin
<1>7. EngineTypeOK'
  BY <1>1, <1>2, <1>6 DEF EngInv, EngineTypeOK, ClientInv
<1>8. JobsKnown' /\ AwaitsKnown' /\ ScAwaitFits' /\ TokensOnce'
  BY <1>1, <1>2, <1>5, <1>7, EngFlags
<1>9. ScFreshKept'
  BY <1>5 DEF ScFreshKept, ActivePlaces
<1> QED BY <1>1, <1>2, <1>7, <1>8, <1>9 DEF EngInv

LEMMA EngGetsDue == ASSUME EngInv, AwaitGetsDue PROVE EngInv'
<1>1. UNCHANGED <<netVars, clientVars, scDs, scUs, scNvs, scSeq, scResumed>>
  BY DEF AwaitGetsDue
<1>2. ClientInv' /\ Present' = Present /\ nr' = nr /\ filling' = filling
  BY <1>1, ClientIdle DEF EngInv, clientVars
<1>3. PICK i \in Places : /\ scAwaits[i] # NoAwait
                          /\ scAwaits' = [scAwaits EXCEPT ![i].due = TRUE]
  BY DEF AwaitGetsDue
<1>4. scAwaits \in [Places -> Awaits \cup {NoAwait}] /\ scAwaits[i] \in Awaits
  BY <1>3 DEF EngInv, EngineTypeOK
<1>5. PICK b : b = [scAwaits[i] EXCEPT !.due = TRUE]
  OBVIOUS
<1>6. /\ b \in Awaits /\ b.token = scAwaits[i].token /\ b.id = scAwaits[i].id
      /\ b.step = scAwaits[i].step /\ b.late = scAwaits[i].late
  BY <1>4, <1>5 DEF Awaits
<1>7. b.token # 0
  BY <1>6 DEF Awaits, Tokens
<1>8. b # NoAwait
  BY <1>7 DEF NoAwait
<1>9. scAwaits' = [scAwaits EXCEPT ![i] = b]
  BY <1>3, <1>4, <1>5
<1>10. \A q \in Places :
         \/ scAwaits'[q] = NoAwait /\ scAwaits[q] = NoAwait
         \/ /\ scAwaits'[q] # NoAwait /\ scAwaits[q] # NoAwait
            /\ scAwaits'[q].token = scAwaits[q].token
            /\ scAwaits'[q].id = scAwaits[q].id
            /\ scAwaits'[q].step = scAwaits[q].step
            /\ scAwaits'[q].late = scAwaits[q].late
  BY <1>3, <1>4, <1>6, <1>8, <1>9
<1>11. EngineTypeOK'
  <2>1. scAwaits' \in [Places -> Awaits \cup {NoAwait}]
    BY <1>4, <1>6, <1>9
  <2> QED BY <1>1, <1>2, <2>1 DEF EngInv, EngineTypeOK
<1>12. JobsKnown' /\ AwaitsKnown' /\ ScAwaitFits' /\ TokensOnce'
  BY <1>1, <1>2, <1>10, <1>11, EngFlags
<1>13. ScFreshKept'
  BY <1>2, <1>10 DEF EngInv, ScFreshKept, ActivePlaces
<1> QED BY <1>2, <1>11, <1>12, <1>13 DEF EngInv

\* A load leaves the awaits as they are, or none.
LEMMA EngLoads ==
  ASSUME EngInv, ScTasksUpdate \/ ScUserChange \/ ScClear
  PROVE  EngInv'
<1>1. /\ UNCHANGED <<netVars, clientVars, scSeq, scResumed>>
      /\ \/ scAwaits' = NoAwaits
         \/ scAwaits' = scAwaits /\ UNCHANGED <<scDs, scUs>>
      /\ scDs' \in DsLists \cup {<<>>} /\ scUs' \in UsLists \cup {<<>>}
      /\ scNvs' \in UsLists
  <2>1. CASE ScTasksUpdate
    BY <2>1 DEF ScTasksUpdate, LoadUser, AfterLoad, EngInv, EngineTypeOK
  <2>2. CASE ScUserChange
    BY <2>2 DEF ScUserChange, LoadUser, AfterLoad, EngInv, EngineTypeOK
  <2>3. CASE ScClear
    BY <2>3 DEF ScClear, EngInv, EngineTypeOK
  <2> QED BY <2>1, <2>2, <2>3
<1>2. ClientInv' /\ Present' = Present /\ nr' = nr /\ filling' = filling
  BY <1>1, ClientIdle DEF EngInv, clientVars
<1>3. EngineTypeOK'
  BY <1>1, <1>2 DEF EngInv, EngineTypeOK, NoAwaits
<1>4. JobsKnown' /\ TokensOnce'
  BY <1>1, <1>2 DEF EngInv, JobsKnown, TokensOnce
<1>5. CASE scAwaits' = NoAwaits
  <2>1. ActivePlaces' = {}
    BY <1>5 DEF ActivePlaces, NoAwaits
  <2> QED BY <1>2, <1>3, <1>4, <2>1 DEF EngInv, AwaitsKnown, ScAwaitFits, ScFreshKept
<1>6. CASE scAwaits' = scAwaits /\ UNCHANGED <<scDs, scUs>>
  <2>1. AwaitsKnown' /\ ScAwaitFits' /\ ScFreshKept'
    BY <1>1, <1>2, <1>6
       DEF EngInv, AwaitsKnown, ScAwaitFits, ScFreshKept, ActivePlaces, Loaded, Active
  <2> QED BY <1>2, <1>3, <1>4, <2>1 DEF EngInv
<1> QED BY <1>1, <1>5, <1>6

\* The worker's steps, and the taking of a result.
LEMMA EngOther ==
  ASSUME EngInv, ClientInv', Present' = Present, UNCHANGED <<filling, scVars>>,
         nr' # NoResult => filling = 0
  PROVE  EngInv'
<1>1. EngineTypeOK'
  BY DEF EngInv, EngineTypeOK, ClientInv, scVars
<1>2. JobsKnown' /\ AwaitsKnown' /\ ScAwaitFits' /\ TokensOnce' /\ ScFreshKept'
  BY DEF EngInv, JobsKnown, AwaitsKnown, ScAwaitFits, TokensOnce, ScFreshKept,
         ActivePlaces, Loaded, Active, scVars
<1> QED BY <1>1, <1>2 DEF EngInv

LEMMA EngInvNext == ASSUME EngInv, [EngineNext]_engineVars PROVE EngInv'
<1>1. CASE WorkerNext /\ UNCHANGED <<clientVars, scVars>>
  BY <1>1, WorkerUnseen, EngOther DEF EngInv
<1>2. CASE Take /\ UNCHANGED scVars
  BY <1>2, TakeKeepsPresent, EngOther DEF EngInv, LoopFree
<1>3. CASE UNCHANGED engineVars
  BY <1>3, ClientIdle, EngOther DEF engineVars, clientVars, EngInv
<1> QED BY <1>1, <1>2, <1>3, EngScRun, EngScOnResult, EngPassBegin, EngPassPlace,
           EngLoads, EngGetsDue DEF EngineNext, EngineStep

LEMMA EngInvInit == ASSUME EngineInit PROVE EngInv
<1>1. ClientInv /\ Present = {} /\ nr = NoResult /\ filling = 0
  BY ClientInvInit DEF EngineInit, ClientInit
<1>2. ActivePlaces = {}
  BY DEF EngineInit, ScInit, ActivePlaces
<1>3. EngineTypeOK
  BY <1>1, ScriptAssumption DEF EngineInit, ScInit, EngineTypeOK
<1>4. JobsKnown /\ AwaitsKnown /\ ScAwaitFits /\ ScFreshKept
  BY <1>1, <1>2 DEF JobsKnown, AwaitsKnown, ScAwaitFits, ScFreshKept
<1>5. TokensOnce
  BY DEF EngineInit, ScInit, TokensOnce
<1> QED BY <1>1, <1>3, <1>4, <1>5 DEF EngInv

THEOREM EngineInvariant == EngineSpec => []EngInv
<1>1. EngineInit => EngInv
  BY EngInvInit
<1>2. EngInv /\ [EngineNext]_engineVars => EngInv'
  BY EngInvNext
<1> QED BY <1>1, <1>2, PTL DEF EngineSpec

\* For any scripts, reloads and queue: a suspended script waits for exactly one
\* job, which is its own, and will find its program as it left it.
THEOREM EngineConsistent == EngineSpec => []ScConsistent
<1>1. ASSUME EngInv PROVE ScAwaitBacked
  <2> SUFFICES ASSUME NEW i \in ActivePlaces
               PROVE  /\ Cardinality(JobsCarrying(scAwaits[i])) = 1
                      /\ \A j \in JobsCarrying(scAwaits[i]) :
                            j.tag.id = scAwaits[i].id /\ j.tag.step = scAwaits[i].step
    BY DEF ScAwaitBacked
  <2>1. PICK j \in Present : Carries(j, scAwaits[i])
    BY <1>1 DEF EngInv, AwaitsKnown
  <2>2. JobsCarrying(scAwaits[i]) = {j}
    BY <1>1, <2>1 DEF JobsCarrying, Carries, EngInv, JobsKnown
  <2> QED BY <2>1, <2>2, FS_Singleton DEF Carries
<1>2. EngInv => ScConsistent
  BY <1>1 DEF EngInv, ScConsistent
<1> QED BY <1>2, EngineInvariant, PTL

\* The result and the timeout of a network step never both resume its script.
THEOREM ResumedOnce == EngineSpec => []ScResumedOnce
<1>1. EngInv => ScResumedOnce
  BY DEF EngInv, TokensOnce, ScResumedOnce
<1> QED BY <1>1, EngineInvariant, PTL

\* No timeout pass, however many places it goes through, ends an await it has
\* made itself.
THEOREM FreshAwaitKept == EngineSpec => []ScFreshKept
<1>1. EngInv => ScFreshKept
  BY DEF EngInv
<1> QED BY <1>1, EngineInvariant, PTL
=============================================================================
