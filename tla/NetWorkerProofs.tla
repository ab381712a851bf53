--------------------------- MODULE NetWorkerProofs ---------------------------
(***************************************************************************)
(* Proofs about NetWorker for every set of jobs and every queue depth: its *)
(* types, that no accepted job is lost or doubled, that priority inversion *)
(* is bounded by one, and that it implements JobService; and what proofs   *)
(* about its clients use of it.                                            *)
(***************************************************************************)
EXTENDS NetClient, TLAPS

(***************************************************************************)
(* What a queue's element set does under the two queue operations.         *)
(***************************************************************************)

\* Appending adds exactly the new element.
LEMMA AppendElems ==
  ASSUME NEW S, NEW q \in Seq(S), NEW x \in S
  PROVE  /\ Append(q, x) \in Seq(S)
         /\ Len(Append(q, x)) = Len(q) + 1
         /\ Elems(Append(q, x)) = Elems(q) \cup {x}
         /\ Injective(q) /\ x \notin Elems(q) => Injective(Append(q, x))
BY DEF Elems, Injective

\* Taking the head removes exactly the head, if no element is repeated.
LEMMA TailElems ==
  ASSUME NEW S, NEW q \in Seq(S), q # <<>>
  PROVE  /\ Tail(q) \in Seq(S)
         /\ Head(q) \in S
         /\ Len(Tail(q)) = Len(q) - 1
         /\ Elems(q) = Elems(Tail(q)) \cup {Head(q)}
         /\ Injective(q) => /\ Injective(Tail(q))
                            /\ Head(q) \notin Elems(Tail(q))
BY DEF Elems, Injective

\* The same two facts for the jobs named by a queue of results.
LEMMA AppendJobsOf ==
  ASSUME NEW q \in Seq(Results), NEW r \in Results
  PROVE  /\ JobsOf(Append(q, r)) = JobsOf(q) \cup {r.job}
         /\ InjectiveJobs(q) /\ r.job \notin JobsOf(q) => InjectiveJobs(Append(q, r))
BY DEF JobsOf, InjectiveJobs

LEMMA TailJobsOf ==
  ASSUME NEW q \in Seq(Results), q # <<>>
  PROVE  /\ JobsOf(q) = JobsOf(Tail(q)) \cup {Head(q).job}
         /\ InjectiveJobs(q) => /\ InjectiveJobs(Tail(q))
                                /\ Head(q).job \notin JobsOf(Tail(q))
<1>1. /\ Len(Tail(q)) = Len(q) - 1 /\ Len(q) \in Nat \ {0}
      /\ Head(q) = q[1]
      /\ \A i \in 1 .. Len(q) - 1 : Tail(q)[i] = q[i + 1]
  OBVIOUS
<1>2. JobsOf(Tail(q)) = {q[k].job : k \in 2 .. Len(q)}
  <2>1. ASSUME NEW i \in 1 .. Len(q) - 1
        PROVE  i + 1 \in 2 .. Len(q) /\ Tail(q)[i].job = q[i + 1].job
    BY <1>1
  <2>2. ASSUME NEW k \in 2 .. Len(q)
        PROVE  k - 1 \in 1 .. Len(q) - 1 /\ Tail(q)[k - 1].job = q[k].job
    BY <1>1
  <2> QED BY <1>1, <2>1, <2>2 DEF JobsOf
<1>3. JobsOf(q) = JobsOf(Tail(q)) \cup {Head(q).job}
  <2>1. 1 .. Len(q) = {1} \cup 2 .. Len(q)
    BY <1>1
  <2>2. JobsOf(q) = {q[1].job} \cup {q[k].job : k \in 2 .. Len(q)}
    BY <2>1 DEF JobsOf
  <2> QED BY <1>1, <1>2, <2>2
<1>4. ASSUME InjectiveJobs(q)
      PROVE  InjectiveJobs(Tail(q)) /\ Head(q).job \notin JobsOf(Tail(q))
  <2>1. Head(q).job \notin JobsOf(Tail(q))
    BY <1>1, <1>2, <1>4 DEF InjectiveJobs
  <2>2. InjectiveJobs(Tail(q))
    <3> SUFFICES ASSUME NEW i \in 1 .. Len(q) - 1, NEW k \in 1 .. Len(q) - 1,
                        Tail(q)[i].job = Tail(q)[k].job
                 PROVE  i = k
      BY <1>1 DEF InjectiveJobs
    <3>1. q[i + 1].job = q[k + 1].job /\ i + 1 \in 1 .. Len(q) /\ k + 1 \in 1 .. Len(q)
      BY <1>1
    <3> QED BY <3>1, <1>4 DEF InjectiveJobs
  <2> QED BY <2>1, <2>2
<1> QED BY <1>3, <1>4

(***************************************************************************)
(* The inductive invariant.  The task's fields follow its program counter; *)
(* whatever is in the worker was accepted; a lo job overtakes a waiting hi *)
(* job only while the task still owes that hi job its next poll.           *)
(***************************************************************************)
CurFollowsPc ==
    /\ pc \in {"hi", "lo"} => cur = NoJob
    /\ pc \in {"run", "send"} => cur \in Jobs
    /\ pc = "send" => out \in Results /\ out.job = cur

AllAccepted ==
    Elems(hiQ) \cup Elems(loQ) \cup JobsOf(resQ) \cup ({cur} \ {NoJob}) \subseteq inFlight

InversionOwed ==
    overtakes # 0 => overtakes = 1 /\ hiQ # <<>> /\ pc # "lo"

NetInv ==
    /\ NetTypeOK
    /\ CurFollowsPc
    /\ NothingLost
    /\ NothingDoubled
    /\ AllAccepted
    /\ InversionOwed

\* A step that leaves a queue alone leaves what it holds alone.
LEMMA SameQueues ==
  ASSUME UNCHANGED <<hiQ, loQ>>
  PROVE  /\ Elems(hiQ)' = Elems(hiQ) /\ Injective(hiQ)' = Injective(hiQ)
         /\ Elems(loQ)' = Elems(loQ) /\ Injective(loQ)' = Injective(loQ)
BY DEF Elems, Injective

LEMMA SameResults ==
  ASSUME UNCHANGED resQ
  PROVE  JobsOf(resQ)' = JobsOf(resQ) /\ InjectiveJobs(resQ)' = InjectiveJobs(resQ)
BY DEF JobsOf, InjectiveJobs

\* Whatever leaves the queues and the task's job alone preserves the parts of
\* the invariant that relate them.
LEMMA SameJobs ==
  ASSUME NetInv, UNCHANGED <<hiQ, loQ, resQ, cur, inFlight>>
  PROVE  NothingLost' /\ NothingDoubled' /\ AllAccepted'
BY SameQueues, SameResults DEF NetInv, NothingLost, NothingDoubled, AllAccepted

\* The worker starts empty.
LEMMA NetInvInit == ASSUME NetInit PROVE NetInv
<1>1. Elems(<<>>) = {} /\ JobsOf(<<>>) = {} /\ Injective(<<>>) /\ InjectiveJobs(<<>>)
  BY DEF Elems, JobsOf, Injective, InjectiveJobs
<1>2. NetTypeOK
  <2>1. <<>> \in Seq(Jobs) /\ <<>> \in Seq(Results) /\ Len(<<>>) = 0
    OBVIOUS
  <2>2. hiQ \in Seq(Jobs) /\ loQ \in Seq(Jobs) /\ resQ \in Seq(Results)
    BY <2>1 DEF NetInit
  <2>3. Len(hiQ) <= JOBQ_DEPTH /\ Len(loQ) <= JOBQ_DEPTH /\ Len(resQ) <= RESQ_DEPTH
    BY <2>1, NetWorkerAssumption DEF NetInit
  <2> QED BY <2>2, <2>3 DEF NetInit, NetTypeOK
<1>3. CurFollowsPc /\ InversionOwed
  BY DEF NetInit, CurFollowsPc, InversionOwed
<1>4. NothingLost /\ NothingDoubled /\ AllAccepted
  BY <1>1 DEF NetInit, NothingLost, NothingDoubled, AllAccepted
<1> QED BY <1>2, <1>3, <1>4 DEF NetInv

\* The loop's three operations preserve it.
LEMMA NetInvEnqueueHi ==
  ASSUME NetInv, NEW j \in Jobs, EnqueueHi(j)
  PROVE  NetInv'
<1>1. hiQ \in Seq(Jobs) /\ j \notin Elems(hiQ)
  BY DEF NetInv, NetTypeOK, AllAccepted, EnqueueHi
<1>2. /\ hiQ' \in Seq(Jobs) /\ Len(hiQ') = Len(hiQ) + 1
      /\ Elems(hiQ)' = Elems(hiQ) \cup {j}
      /\ Injective(hiQ) => Injective(hiQ)'
  BY <1>1, AppendElems DEF EnqueueHi
<1>3. /\ UNCHANGED <<loQ, resQ, pc, cur, out, gate, overtakes>>
      /\ inFlight' = inFlight \cup {j}
      /\ j \notin inFlight
  BY DEF EnqueueHi
<1>4. /\ Elems(loQ)' = Elems(loQ) /\ JobsOf(resQ)' = JobsOf(resQ)
      /\ Injective(loQ)' = Injective(loQ)
      /\ InjectiveJobs(resQ)' = InjectiveJobs(resQ)
  BY <1>3, SameResults DEF Elems, Injective
<1>5. NetTypeOK'
  BY <1>2, <1>3, NetWorkerAssumption DEF NetInv, NetTypeOK, EnqueueHi, Accepts
<1>6. CurFollowsPc'
  BY <1>3 DEF NetInv, CurFollowsPc
<1>7. NothingLost' /\ AllAccepted'
  BY <1>2, <1>3, <1>4 DEF NetInv, NothingLost, AllAccepted
<1>8. NothingDoubled'
  BY <1>2, <1>3, <1>4, NetWorkerAssumption DEF NetInv, NothingDoubled, AllAccepted
<1>9. InversionOwed'
  <2>1. hiQ' # <<>>
    BY <1>1, <1>2
  <2> QED BY <1>3, <2>1 DEF NetInv, InversionOwed
<1> QED BY <1>5, <1>6, <1>7, <1>8, <1>9 DEF NetInv

LEMMA NetInvEnqueueLo ==
  ASSUME NetInv, NEW j \in Jobs, EnqueueLo(j)
  PROVE  NetInv'
<1>1. loQ \in Seq(Jobs) /\ j \notin Elems(loQ)
  BY DEF NetInv, NetTypeOK, AllAccepted, EnqueueLo
<1>2. /\ loQ' \in Seq(Jobs) /\ Len(loQ') = Len(loQ) + 1
      /\ Elems(loQ)' = Elems(loQ) \cup {j}
      /\ Injective(loQ) => Injective(loQ)'
  BY <1>1, AppendElems DEF EnqueueLo
<1>3. /\ UNCHANGED <<hiQ, resQ, pc, cur, out, gate, overtakes>>
      /\ inFlight' = inFlight \cup {j}
      /\ j \notin inFlight
  BY DEF EnqueueLo
<1>4. /\ Elems(hiQ)' = Elems(hiQ) /\ JobsOf(resQ)' = JobsOf(resQ)
      /\ Injective(hiQ)' = Injective(hiQ)
      /\ InjectiveJobs(resQ)' = InjectiveJobs(resQ)
  BY <1>3, SameResults DEF Elems, Injective
<1>5. NetTypeOK'
  BY <1>2, <1>3, NetWorkerAssumption DEF NetInv, NetTypeOK, EnqueueLo, Accepts
<1>6. CurFollowsPc' /\ InversionOwed'
  BY <1>3 DEF NetInv, CurFollowsPc, InversionOwed
<1>7. NothingLost' /\ AllAccepted'
  BY <1>2, <1>3, <1>4 DEF NetInv, NothingLost, AllAccepted
<1>8. NothingDoubled'
  BY <1>2, <1>3, <1>4, NetWorkerAssumption DEF NetInv, NothingDoubled, AllAccepted
<1> QED BY <1>5, <1>6, <1>7, <1>8 DEF NetInv

LEMMA NetInvPoll == ASSUME NetInv, Poll PROVE NetInv'
<1>1. resQ \in Seq(Results) /\ resQ # <<>>
  BY DEF NetInv, NetTypeOK, Poll
<1>2. /\ resQ' \in Seq(Results) /\ Len(resQ') = Len(resQ) - 1
      /\ JobsOf(resQ) = JobsOf(resQ)' \cup {Head(resQ).job}
      /\ InjectiveJobs(resQ) => /\ InjectiveJobs(resQ)'
                                /\ Head(resQ).job \notin JobsOf(resQ)'
  BY <1>1, TailElems, TailJobsOf DEF Poll
<1>3. /\ UNCHANGED <<hiQ, loQ, pc, cur, out, gate, overtakes>>
      /\ inFlight' = inFlight \ {Head(resQ).job}
  BY DEF Poll
<1>4. /\ Elems(hiQ)' = Elems(hiQ) /\ Elems(loQ)' = Elems(loQ)
      /\ Injective(hiQ)' = Injective(hiQ) /\ Injective(loQ)' = Injective(loQ)
  BY <1>3 DEF Elems, Injective
<1>5. NetTypeOK'
  BY <1>1, <1>2, <1>3, NetWorkerAssumption DEF NetInv, NetTypeOK
<1>6. CurFollowsPc' /\ InversionOwed'
  BY <1>3 DEF NetInv, CurFollowsPc, InversionOwed
<1>7. NothingLost' /\ AllAccepted' /\ NothingDoubled'
  BY <1>2, <1>3, <1>4 DEF NetInv, NothingLost, AllAccepted, NothingDoubled
<1> QED BY <1>5, <1>6, <1>7 DEF NetInv

\* So do the task's steps.
LEMMA NetInvPollHi == ASSUME NetInv, PollHi PROVE NetInv'
<1>1. CASE /\ hiQ # <<>>
           /\ cur' = Head(hiQ) /\ hiQ' = Tail(hiQ)
           /\ pc' = "run" /\ overtakes' = 0
  <2>1. hiQ \in Seq(Jobs) /\ cur = NoJob
    BY DEF NetInv, NetTypeOK, CurFollowsPc, PollHi
  <2>2. /\ hiQ' \in Seq(Jobs) /\ cur' \in Jobs /\ Len(hiQ') = Len(hiQ) - 1
        /\ Elems(hiQ) = Elems(hiQ)' \cup {cur'}
        /\ Injective(hiQ) => Injective(hiQ)' /\ cur' \notin Elems(hiQ)'
    BY <1>1, <2>1, TailElems
  <2>3. UNCHANGED <<loQ, resQ, out, gate, inFlight>>
    BY DEF PollHi
  <2>4. /\ Elems(loQ)' = Elems(loQ) /\ JobsOf(resQ)' = JobsOf(resQ)
        /\ Injective(loQ)' = Injective(loQ)
        /\ InjectiveJobs(resQ)' = InjectiveJobs(resQ)
    BY <2>3 DEF Elems, JobsOf, Injective, InjectiveJobs
  <2>5. NetTypeOK' /\ CurFollowsPc' /\ InversionOwed'
    BY <1>1, <2>1, <2>2, <2>3, NetWorkerAssumption
       DEF NetInv, NetTypeOK, CurFollowsPc, InversionOwed
  <2>6. NothingLost' /\ AllAccepted' /\ NothingDoubled'
    BY <2>1, <2>2, <2>3, <2>4, NetWorkerAssumption
       DEF NetInv, NetTypeOK, NothingLost, AllAccepted, NothingDoubled
  <2> QED BY <2>5, <2>6 DEF NetInv
<1>2. CASE hiQ = <<>> /\ pc' = "lo" /\ UNCHANGED <<hiQ, cur, overtakes>>
  <2>1. UNCHANGED <<loQ, resQ, out, gate, inFlight>> /\ pc = "hi"
    BY DEF PollHi
  <2>2. NetTypeOK' /\ CurFollowsPc' /\ InversionOwed'
    BY <1>2, <2>1 DEF NetInv, NetTypeOK, CurFollowsPc, InversionOwed
  <2> QED BY <1>2, <2>1, <2>2, SameJobs DEF NetInv
<1> QED BY <1>1, <1>2 DEF PollHi

LEMMA NetInvPollLo == ASSUME NetInv, PollLo PROVE NetInv'
<1>1. CASE /\ loQ # <<>>
           /\ cur' = Head(loQ) /\ loQ' = Tail(loQ)
           /\ pc' = "run"
           /\ overtakes' = IF hiQ = <<>> THEN overtakes ELSE overtakes + 1
  <2>1. loQ \in Seq(Jobs) /\ cur = NoJob /\ overtakes = 0
    BY DEF NetInv, NetTypeOK, CurFollowsPc, InversionOwed, PollLo
  <2>2. /\ loQ' \in Seq(Jobs) /\ cur' \in Jobs /\ Len(loQ') = Len(loQ) - 1
        /\ Elems(loQ) = Elems(loQ)' \cup {cur'}
        /\ Injective(loQ) => Injective(loQ)' /\ cur' \notin Elems(loQ)'
    BY <1>1, <2>1, TailElems
  <2>3. UNCHANGED <<hiQ, resQ, out, gate, inFlight>>
    BY DEF PollLo
  <2>4. /\ Elems(hiQ)' = Elems(hiQ) /\ JobsOf(resQ)' = JobsOf(resQ)
        /\ Injective(hiQ)' = Injective(hiQ)
        /\ InjectiveJobs(resQ)' = InjectiveJobs(resQ)
    BY <2>3 DEF Elems, JobsOf, Injective, InjectiveJobs
  <2>5. NetTypeOK' /\ CurFollowsPc' /\ InversionOwed'
    BY <1>1, <2>1, <2>2, <2>3, NetWorkerAssumption
       DEF NetInv, NetTypeOK, CurFollowsPc, InversionOwed
  <2>6. NothingLost' /\ AllAccepted' /\ NothingDoubled'
    BY <2>1, <2>2, <2>3, <2>4, NetWorkerAssumption
       DEF NetInv, NetTypeOK, NothingLost, AllAccepted, NothingDoubled
  <2> QED BY <2>5, <2>6 DEF NetInv
<1>2. CASE pc' = "hi" /\ UNCHANGED <<loQ, cur, overtakes>>
  <2>1. UNCHANGED <<hiQ, resQ, out, gate, inFlight>> /\ pc = "lo"
    BY DEF PollLo
  <2>2. NetTypeOK' /\ CurFollowsPc' /\ InversionOwed'
    BY <1>2, <2>1 DEF NetInv, NetTypeOK, CurFollowsPc, InversionOwed
  <2> QED BY <1>2, <2>1, <2>2, SameJobs DEF NetInv
<1> QED BY <1>1, <1>2 DEF PollLo

LEMMA NetInvExecute == ASSUME NetInv, Execute PROVE NetInv'
<1>1. PICK o \in Outcomes : out' = [job |-> cur, outcome |-> o]
                            /\ gate' = GateAfter(Kind[cur], o)
  BY DEF Execute
<1>2. /\ UNCHANGED <<hiQ, loQ, resQ, cur, inFlight, overtakes>>
      /\ pc = "run" /\ pc' = "send" /\ cur \in Jobs
  BY DEF Execute, NetInv, CurFollowsPc
<1>3. out' \in Results /\ out'.job = cur
  BY <1>1, <1>2 DEF Results
<1>4. gate' \in BOOLEAN
  BY <1>1 DEF GateAfter, NetInv, NetTypeOK
<1>5. NetTypeOK' /\ CurFollowsPc' /\ InversionOwed'
  BY <1>2, <1>3, <1>4 DEF NetInv, NetTypeOK, CurFollowsPc, InversionOwed
<1>6. NothingLost' /\ AllAccepted' /\ NothingDoubled'
  BY <1>2, SameJobs
<1> QED BY <1>5, <1>6 DEF NetInv

LEMMA NetInvSendResult == ASSUME NetInv, SendResult PROVE NetInv'
<1>1. /\ resQ \in Seq(Results) /\ out \in Results /\ out.job = cur /\ cur \in Jobs
      /\ Len(resQ) < RESQ_DEPTH
      /\ resQ' = Append(resQ, out) /\ pc' = "hi" /\ cur' = NoJob /\ out' = NoResult
      /\ UNCHANGED <<hiQ, loQ, gate, inFlight, overtakes>>
  BY DEF NetInv, NetTypeOK, CurFollowsPc, SendResult
<1>2. /\ resQ' \in Seq(Results) /\ Len(resQ') = Len(resQ) + 1
      /\ JobsOf(resQ)' = JobsOf(resQ) \cup {cur}
      /\ InjectiveJobs(resQ) /\ cur \notin JobsOf(resQ) => InjectiveJobs(resQ)'
  BY <1>1, AppendElems, AppendJobsOf
<1>3. /\ Elems(hiQ)' = Elems(hiQ) /\ Elems(loQ)' = Elems(loQ)
      /\ Injective(hiQ)' = Injective(hiQ) /\ Injective(loQ)' = Injective(loQ)
  BY <1>1 DEF Elems, Injective
<1>4. NetTypeOK' /\ CurFollowsPc' /\ InversionOwed'
  BY <1>1, <1>2, NetWorkerAssumption DEF NetInv, NetTypeOK, CurFollowsPc, InversionOwed
<1>5. NothingLost' /\ AllAccepted' /\ NothingDoubled'
  <2>1. NoJob \notin Elems(hiQ) \cup Elems(loQ) \cup JobsOf(resQ) \cup {cur}
    BY <1>1, NetWorkerAssumption DEF NetInv, AllAccepted, NetTypeOK
  <2> QED BY <1>1, <1>2, <1>3, <2>1
       DEF NetInv, NothingLost, AllAccepted, NothingDoubled
<1> QED BY <1>4, <1>5 DEF NetInv

\* Whatever leaves the queues and the task's fields alone preserves it.
LEMMA NetInvOther ==
  ASSUME NetInv, gate' \in BOOLEAN,
         UNCHANGED <<hiQ, loQ, resQ, pc, cur, out, inFlight, overtakes>>
  PROVE  NetInv'
<1>1. NetTypeOK' /\ CurFollowsPc' /\ InversionOwed'
  BY DEF NetInv, NetTypeOK, CurFollowsPc, InversionOwed
<1> QED BY <1>1, SameJobs DEF NetInv

LEMMA NetInvNext == ASSUME NetInv, [Next]_netVars PROVE NetInv'
<1>1. CASE SubmitHi
  BY <1>1, NetInvEnqueueHi DEF SubmitHi
<1>2. CASE SubmitLo
  BY <1>2, NetInvEnqueueLo DEF SubmitLo
<1>3. CASE Poll
  BY <1>3, NetInvPoll
<1>4. CASE WorkerNext
  BY <1>4, NetInvPollHi, NetInvPollLo, NetInvExecute, NetInvSendResult DEF WorkerNext
<1>5. CASE GateExpires
  BY <1>5, NetInvOther DEF GateExpires
<1>6. CASE UNCHANGED netVars
  BY <1>6, NetInvOther DEF netVars, NetInv, NetTypeOK
<1> QED BY <1>1, <1>2, <1>3, <1>4, <1>5, <1>6 DEF Next

THEOREM NetInvariant == NetSpec => []NetInv
<1>1. NetInit => NetInv
  BY NetInvInit
<1>2. NetInv /\ [Next]_netVars => NetInv'
  BY NetInvNext
<1> QED BY <1>1, <1>2, PTL DEF NetSpec

-----------------------------------------------------------------------------
\* The queues never hold more than xQueueCreate gave them, and only jobs.
THEOREM NetTypes == NetSpec => []NetTypeOK
<1>1. NetInv => NetTypeOK
  BY DEF NetInv
<1> QED BY <1>1, NetInvariant, PTL

\* An accepted job is never lost, for every depth of the three queues.
THEOREM NoJobLost == NetSpec => []NothingLost
<1>1. NetInv => NothingLost
  BY DEF NetInv
<1> QED BY <1>1, NetInvariant, PTL

\* An accepted job is never in two places, so never executed or answered twice.
THEOREM NoJobDoubled == NetSpec => []NothingDoubled
<1>1. NetInv => NothingDoubled
  BY DEF NetInv
<1> QED BY <1>1, NetInvariant, PTL

\* Both together, for every set of jobs: the worker holds what it accepted
\* exactly once until it is polled.
THEOREM JobsHeldOnce == NetSpec => []EachJobOnce
<1>1. NothingLost /\ NothingDoubled => EachJobOnce
  BY DEF EachJobOnce
<1> QED BY <1>1, NoJobLost, NoJobDoubled, PTL

\* Whatever the queue depths, one lo job at most starts ahead of a waiting hi job.
THEOREM InversionBounded == NetSpec => []OvertakenOnce
<1>1. NetInv => OvertakenOnce
  BY DEF NetInv, InversionOwed, OvertakenOnce
<1> QED BY <1>1, NetInvariant, PTL

-----------------------------------------------------------------------------
(***************************************************************************)
(* Refinement.  Each step of the worker is one step of JobService, or none *)
(* (a poll of an empty queue, the sending of a result, the gate).          *)
(***************************************************************************)

\* The results in a queue and the jobs they answer.
LEMMA JobsOfElems ==
  ASSUME NEW q \in Seq(Results)
  PROVE  /\ \A r \in Elems(q) : r.job \in JobsOf(q)
         /\ InjectiveJobs(q) => Injective(q)
BY DEF Elems, JobsOf, Injective, InjectiveJobs

LEMMA ServiceInit == ASSUME NetInit PROVE Service!Init
<1>1. Elems(<<>>) = {}
  BY DEF Elems
<1> QED BY <1>1 DEF NetInit, Service!Init, PendingJobs, DoneResults

LEMMA ServiceAccepts ==
  ASSUME NetInv, NEW j \in Jobs, EnqueueHi(j) \/ EnqueueLo(j)
  PROVE  Service!Accept(j)
<1>1. hiQ \in Seq(Jobs) /\ loQ \in Seq(Jobs) /\ resQ \in Seq(Results)
  BY DEF NetInv, NetTypeOK
<1>2. Elems(hiQ)' \cup Elems(loQ)' = Elems(hiQ) \cup Elems(loQ) \cup {j}
  <2>1. CASE EnqueueHi(j)
    <3>1. Elems(hiQ)' = Elems(hiQ) \cup {j}
      BY <1>1, <2>1, AppendElems DEF EnqueueHi
    <3>2. Elems(loQ)' = Elems(loQ)
      BY <2>1 DEF EnqueueHi, Elems
    <3> QED BY <3>1, <3>2
  <2>2. CASE EnqueueLo(j)
    <3>1. Elems(loQ)' = Elems(loQ) \cup {j}
      BY <1>1, <2>2, AppendElems DEF EnqueueLo
    <3>2. Elems(hiQ)' = Elems(hiQ)
      BY <2>2 DEF EnqueueLo, Elems
    <3> QED BY <3>1, <3>2
  <2> QED BY <2>1, <2>2
<1>3. UNCHANGED <<resQ, pc, cur, out>> /\ j \notin inFlight
  BY DEF EnqueueHi, EnqueueLo
<1>4. PendingJobs' = PendingJobs \cup {j} /\ DoneResults' = DoneResults
  BY <1>2, <1>3 DEF PendingJobs, DoneResults, Elems
<1>5. j \notin PendingJobs
  BY <1>3, NetWorkerAssumption DEF NetInv, AllAccepted, CurFollowsPc, PendingJobs
<1>6. \A r \in DoneResults : r.job # j
  BY <1>1, <1>3, JobsOfElems, NetWorkerAssumption
     DEF NetInv, AllAccepted, CurFollowsPc, DoneResults
<1> QED BY <1>4, <1>5, <1>6 DEF Service!Accept

LEMMA ServiceDelivers ==
  ASSUME NetInv, Poll
  PROVE  \E r \in DoneResults : Service!Deliver(r)
<1> DEFINE r == Head(resQ)
<1>1. resQ \in Seq(Results) /\ resQ # <<>> /\ InjectiveJobs(resQ) /\ Injective(resQ)
  BY JobsOfElems DEF NetInv, NetTypeOK, NothingDoubled, Poll
<1>2. Elems(resQ)' = Elems(resQ) \ {r} /\ r \in Elems(resQ) /\ r.job \in JobsOf(resQ)
  BY <1>1, TailElems, TailJobsOf DEF Poll
<1>3. UNCHANGED <<hiQ, loQ, pc, cur, out>>
  BY DEF Poll
<1>4. pc = "send" => r # out
  BY <1>2 DEF NetInv, NothingDoubled, CurFollowsPc
<1>5. PendingJobs' = PendingJobs /\ DoneResults' = DoneResults \ {r}
  BY <1>2, <1>3, <1>4, SameQueues DEF PendingJobs, DoneResults
<1> QED BY <1>2, <1>5 DEF Service!Deliver, DoneResults

LEMMA ServiceFinishes ==
  ASSUME NetInv, Execute
  PROVE  \E o \in Outcomes : Service!Finish(cur, o)
<1>1. PICK o \in Outcomes : out' = [job |-> cur, outcome |-> o]
  BY DEF Execute
<1>2. UNCHANGED <<hiQ, loQ, resQ, cur>> /\ pc = "run" /\ pc' = "send"
  BY DEF Execute
<1>3. PendingJobs' = PendingJobs \ {cur} /\ cur \in PendingJobs
  BY <1>2, SameQueues DEF PendingJobs, NetInv, NothingDoubled
<1>4. Elems(resQ)' = Elems(resQ)
  BY <1>2 DEF Elems
<1>5. DoneResults' = DoneResults \cup {[job |-> cur, outcome |-> o]}
  BY <1>1, <1>2, <1>4 DEF DoneResults
<1> QED BY <1>1, <1>3, <1>5 DEF Service!Finish

\* Taking a job, sending a result and the gate are invisible to the clients.
LEMMA ServiceStutters ==
  ASSUME NetInv, PollHi \/ PollLo \/ SendResult \/ GateExpires \/ UNCHANGED netVars
  PROVE  UNCHANGED <<PendingJobs, DoneResults>>
<1>0. hiQ \in Seq(Jobs) /\ loQ \in Seq(Jobs) /\ resQ \in Seq(Results)
  BY DEF NetInv, NetTypeOK
<1>1. CASE PollHi
  <2>1. pc = "hi" /\ pc' \in {"run", "lo"} /\ UNCHANGED <<loQ, resQ, out>>
    BY <1>1 DEF PollHi
  <2>2. Elems(loQ)' = Elems(loQ) /\ Elems(resQ)' = Elems(resQ)
    BY <2>1 DEF Elems
  <2>3. CASE hiQ # <<>>
    <3>1. Elems(hiQ) = Elems(hiQ)' \cup {cur'} /\ pc' = "run"
      BY <1>0, <1>1, <2>3, TailElems DEF PollHi
    <3> QED BY <2>1, <2>2, <3>1 DEF PendingJobs, DoneResults
  <2>4. CASE hiQ = <<>>
    <3>1. UNCHANGED hiQ /\ pc' = "lo"
      BY <1>1, <2>4 DEF PollHi
    <3> QED BY <2>1, <2>2, <3>1 DEF PendingJobs, DoneResults, Elems
  <2> QED BY <2>3, <2>4
<1>2. CASE PollLo
  <2>1. pc = "lo" /\ pc' \in {"run", "hi"} /\ UNCHANGED <<hiQ, resQ, out>>
    BY <1>2 DEF PollLo
  <2>2. Elems(hiQ)' = Elems(hiQ) /\ Elems(resQ)' = Elems(resQ)
    BY <2>1 DEF Elems
  <2>3. CASE ~gate /\ loQ # <<>>
    <3>1. Elems(loQ) = Elems(loQ)' \cup {cur'} /\ pc' = "run"
      BY <1>0, <1>2, <2>3, TailElems DEF PollLo
    <3> QED BY <2>1, <2>2, <3>1 DEF PendingJobs, DoneResults
  <2>4. CASE gate \/ loQ = <<>>
    <3>1. UNCHANGED loQ /\ pc' = "hi"
      BY <1>2, <2>4 DEF PollLo
    <3> QED BY <2>1, <2>2, <3>1 DEF PendingJobs, DoneResults, Elems
  <2> QED BY <2>3, <2>4
<1>3. CASE SendResult
  <2>1. UNCHANGED <<hiQ, loQ>> /\ pc = "send" /\ pc' = "hi"
    BY <1>3 DEF SendResult
  <2>2. Elems(resQ)' = Elems(resQ) \cup {out}
    BY <1>0, <1>3, AppendElems DEF SendResult, NetInv, CurFollowsPc
  <2> QED BY <2>1, <2>2, SameQueues DEF PendingJobs, DoneResults
<1>4. CASE GateExpires \/ UNCHANGED netVars
  BY <1>4 DEF GateExpires, netVars, PendingJobs, DoneResults, Elems
<1> QED BY <1>1, <1>2, <1>3, <1>4

LEMMA ServiceNext ==
  ASSUME NetInv, [Next]_netVars
  PROVE  [Service!Next]_<<PendingJobs, DoneResults>>
<1>1. CASE SubmitHi \/ SubmitLo
  BY <1>1, ServiceAccepts DEF SubmitHi, SubmitLo, Service!Next
<1>2. CASE Poll
  BY <1>2, ServiceDelivers DEF Service!Next
<1>3. CASE Execute
  <2>1. cur \in Jobs
    BY <1>3 DEF Execute, NetInv, CurFollowsPc
  <2> QED BY <1>3, <2>1, ServiceFinishes DEF Service!Next
<1>4. CASE PollHi \/ PollLo \/ SendResult \/ GateExpires \/ UNCHANGED netVars
  BY <1>4, ServiceStutters
<1> QED BY <1>1, <1>2, <1>3, <1>4 DEF Next, WorkerNext

\* The worker implements JobService for every set of jobs and every depth.
THEOREM Refinement == NetSpec => ImplementsService
<1>1. NetInit => Service!Init
  BY ServiceInit
<1>2. NetInv /\ [Next]_netVars => [Service!Next]_Service!serviceVars
  BY ServiceNext DEF Service!serviceVars
<1> QED BY <1>1, <1>2, NetInvariant, PTL DEF NetSpec, ImplementsService, Service!Spec
-----------------------------------------------------------------------------
(***************************************************************************)
(* The worker as any client sees it.  A result being dispatched has left   *)
(* the worker.                                                             *)
(***************************************************************************)
ClientInv ==
    /\ NetInv
    /\ nr \in Results \cup {NoResult}
    /\ nr # NoResult => nr.job \notin inFlight


\* What a client waits for is in the worker or in the loop's hands, not both.
LEMMA PresentIs ==
  ASSUME ClientInv
  PROVE  /\ Present \subseteq Jobs /\ inFlight \subseteq Jobs
         /\ nr = NoResult => Present = inFlight
         /\ nr # NoResult => /\ Present = inFlight \cup {nr.job}
                             /\ nr.job \in Jobs /\ nr.job \notin inFlight
<1>1. inFlight \subseteq Jobs
  BY DEF ClientInv, NetInv, NetTypeOK
<1>2. CASE nr = NoResult
  BY <1>1, <1>2 DEF Present, NoResult
<1>3. CASE nr # NoResult
  <2>1. nr.job \in Jobs /\ nr.job # NoJob /\ nr.job \notin inFlight
    BY <1>3, NetWorkerAssumption DEF ClientInv, Results
  <2> QED BY <1>1, <1>3, <2>1 DEF Present
<1> QED BY <1>2, <1>3, <1>1

LEMMA ClientInvInit == ASSUME NetInit, ClientInit PROVE ClientInv /\ Present = {}
<1>1. ClientInv
  BY NetInvInit DEF ClientInit, ClientInv
<1> QED BY <1>1 DEF NetInit, ClientInit, Present, NoResult

\* The worker's task moves jobs about; the clients see nothing of it.
LEMMA WorkerUnseen ==
  ASSUME ClientInv, WorkerNext, UNCHANGED clientVars
  PROVE  ClientInv' /\ Present' = Present /\ nr' = nr /\ filling' = filling
<1>1. NetInv'
  BY NetInvPollHi, NetInvPollLo, NetInvExecute, NetInvSendResult DEF ClientInv, WorkerNext
<1>2. UNCHANGED <<inFlight, nr, filling>>
  BY DEF WorkerNext, PollHi, PollLo, Execute, SendResult, clientVars
<1> QED BY <1>1, <1>2 DEF ClientInv, Present

\* A client that does nothing with the worker leaves it.
LEMMA ClientIdle ==
  ASSUME ClientInv, UNCHANGED <<netVars, nr>>
  PROVE  ClientInv' /\ Present' = Present
<1>1. NetInv'
  BY NetInvOther DEF netVars, ClientInv, NetInv, NetTypeOK
<1> QED BY <1>1 DEF ClientInv, Present, netVars

\* Taking a result puts its job into the loop's hands.
LEMMA TakeKeepsPresent ==
  ASSUME ClientInv, Take
  PROVE  /\ ClientInv' /\ Present' = Present
         /\ LoopFree /\ nr' # NoResult /\ filling' = filling
<1>1. /\ Poll /\ LoopFree /\ nr = NoResult /\ nr' = Head(resQ) /\ filling' = filling
      /\ resQ \in Seq(Results) /\ resQ # <<>>
      /\ inFlight' = inFlight \ {nr'.job}
  BY DEF Take, Poll, LoopFree, ClientInv, NetInv, NetTypeOK
<1>2. NetInv'
  BY <1>1, NetInvPoll DEF ClientInv
<1>3. nr' \in Results /\ nr'.job \in inFlight /\ nr'.job \in Jobs
  <2>1. nr' \in Results
    BY <1>1, TailElems
  <2>2. nr'.job \in JobsOf(resQ)
    BY <1>1, TailJobsOf
  <2>3. nr'.job \in Jobs
    BY <2>1 DEF Results
  <2> QED BY <2>1, <2>2, <2>3 DEF ClientInv, NetInv, AllAccepted
<1>4. nr'.job # NoJob
  BY <1>3, NetWorkerAssumption
<1>5. nr' # NoResult
  BY <1>4 DEF NoResult
<1>6. ClientInv'
  BY <1>1, <1>2, <1>3 DEF ClientInv
<1>7. Present = inFlight /\ Present' = inFlight' \cup {nr'.job}
  BY <1>1, <1>4, PresentIs DEF Present
<1> QED BY <1>1, <1>3, <1>5, <1>6, <1>7

\* net_worker_enqueue takes a job that is not in the worker yet.
LEMMA SubmitNew ==
  ASSUME ClientInv, NEW hi \in BOOLEAN, NEW t \in Tags, Submit(hi, t)
  PROVE  /\ NetInv'
         /\ \E j \in Jobs : j.tag = t /\ j \notin Present /\ inFlight' = inFlight \cup {j}
<1> DEFINE taken == {j.n : j \in {k \in Present : k.tag = t}}
           job   == [tag |-> t, n |-> CHOOSE n \in Copies : n \notin taken]
<1>1. \E n \in Copies : n \notin taken
  BY DEF Submit
<1>2. job.n \in Copies /\ job.n \notin taken /\ job.tag = t
  <2> HIDE DEF taken
  <2> QED BY <1>1
<1>3. job \in Jobs /\ job \notin Present
  <2>1. job \in Jobs
    BY <1>2, NetClientAssumption
  <2> HIDE DEF job
  <2> QED BY <1>2, <2>1
<1>4. EnqueueHi(job) \/ EnqueueLo(job)
  BY DEF Submit
<1>5. NetInv'
  BY <1>3, <1>4, NetInvEnqueueHi, NetInvEnqueueLo DEF ClientInv
<1>6. inFlight' = inFlight \cup {job}
  BY <1>4 DEF EnqueueHi, EnqueueLo
<1> QED
  <2> HIDE DEF job
  <2> QED BY <1>2, <1>3, <1>5, <1>6

\* A step that leaves the worker alone or hands it a job, and may finish the
\* dispatch of a result.
LEMMA ClientStep ==
  ASSUME ClientInv, NetInv', NEW New, New \subseteq Jobs, New \cap Present = {},
         inFlight' = inFlight \cup New, nr' \in {nr, NoResult}
  PROVE  /\ ClientInv'
         /\ nr' = nr => Present' = Present \cup New
         /\ nr' = NoResult => Present' = (inFlight \cup New)
<1>1. ClientInv'
  BY PresentIs DEF ClientInv
<1>2. CASE nr' = NoResult
  <2>1. Present' = inFlight'
    BY <1>2 DEF Present, NoResult
  <2> QED BY <1>1, <1>2, <2>1, PresentIs
<1>3. CASE nr' = nr
  BY <1>1, <1>2, <1>3 DEF Present
<1> QED BY <1>2, <1>3

LEMMA JobAdded ==
  ASSUME ClientInv, NetInv', NEW j \in Jobs, j \notin Present,
         inFlight' = inFlight \cup {j}, nr' = nr
  PROVE  ClientInv' /\ Present' = Present \cup {j}
<1>1. {j} \subseteq Jobs /\ {j} \cap Present = {}
  OBVIOUS
<1> QED BY <1>1, ClientStep

LEMMA ResultDone ==
  ASSUME ClientInv, nr # NoResult, UNCHANGED netVars, nr' = NoResult
  PROVE  ClientInv' /\ Present' = Present \ {nr.job} /\ nr.job \in Present
<1>1. NetInv'
  BY NetInvOther DEF netVars, ClientInv, NetInv, NetTypeOK
<1>2. Present' = inFlight
  BY DEF Present, NoResult, netVars
<1>3. ClientInv'
  BY <1>1 DEF ClientInv
<1> QED BY <1>2, <1>3, PresentIs
=============================================================================
