---------------------------- MODULE TunnelProofs ----------------------------
(***************************************************************************)
(* Proofs about Tunnel for every set of tunnel ids and all queue depths:   *)
(* its types, that the memory of a session is freed only when no thread    *)
(* can touch it, that what passes through its queues stays in order, and   *)
(* which chunks outlive their session and under which tid they go out.     *)
(***************************************************************************)
EXTENDS Tunnel, FiniteSetTheorems, TLAPS

(***************************************************************************)
(* The inductive invariant.                                                *)
(***************************************************************************)

\* The loop has a chunk bound for the backend in its hands.
InHand == lp \in {"encode", "send"}

\* What the loop holds and the history, typed; the rest is in TunTypeOK.
HeldOK ==
    /\ lp = "data" => held[1] \in Tids
    /\ InHand => held[1] \in Chunks
    /\ readBy \in Seq(Tids) /\ Len(readBy) <= MaxReads
    /\ got \in Seq(Frames)

\* The task is missing before it is created and after it has said so; it says so
\* only in a teardown, which begins when the loop is outside of its own steps.
TaskLives ==
    /\ task = "none" <=> (~up \/ taskDead)
    /\ task # "ready" => state = "IDLE"
    /\ task = "connecting" => target \in Tids
    /\ taskDead => up /\ shutdownReq

ShutdownAsked ==
    /\ \A i \in 1 .. Len(cmdQ) : cmdQ[i].op = "SHUTDOWN" => shutdownReq
    /\ lp # "free" => up
    /\ lp \in {"states", "chunks", "encode", "send", "end"} => ~shutdownReq

\* Chunks are numbered as they are read; what was sent comes before what the
\* loop holds, and that before what is queued.
ReadBefore ==
    /\ \A i \in 1 .. Len(toBe) : toBe[i] <= Len(readBy)
    /\ InHand => held[1] <= Len(readBy)
    /\ \A i \in 1 .. Len(got) : got[i].n <= Len(readBy)

QueuedInOrder ==
    /\ \A i, k \in 1 .. Len(toBe) : i < k => toBe[i] < toBe[k]
    /\ InHand => \A k \in 1 .. Len(toBe) : held[1] < toBe[k]

SentBefore ==
    \A i \in 1 .. Len(got) :
        /\ \A k \in 1 .. Len(toBe) : got[i].n < toBe[k]
        /\ InHand => got[i].n < held[1]

\* A tid the backend has opened serves one session: as long as it waits in a
\* command or in connect(), no session has it or has had it.
Unused(t) == t \in opened /\ t # tid /\ \A m \in 1 .. Len(readBy) : readBy[m] # t

TidsOnce ==
    /\ \A i \in 1 .. Len(cmdQ) : cmdQ[i].op = "OPEN" => Unused(cmdQ[i].tid)
    /\ \A i, k \in 1 .. Len(cmdQ) :
          cmdQ[i].op = "OPEN" /\ cmdQ[k].op = "OPEN" /\ cmdQ[i].tid = cmdQ[k].tid => i = k
    /\ task = "connecting" =>
          /\ Unused(target)
          /\ \A i \in 1 .. Len(cmdQ) : cmdQ[i].op = "OPEN" => cmdQ[i].tid # target
    /\ tid \in opened \cup {0}
    /\ \A m \in 1 .. Len(readBy) : readBy[m] \in opened

\* Since the session that is open has begun to read nobody else has read.
ReadsTogether ==
    \A m, n \in 1 .. Len(readBy) : m < n /\ readBy[m] = tid => readBy[n] = tid

\* What TunLabelled says of a frame, and that it holds before it is sent.
Rightly(l, n) ==
    l # readBy[n] => readBy[n] # tid /\ \A m \in 1 .. n : readBy[m] # l

LabelOK == lp = "send" => Rightly(label, held[1])

\* A chunk of a session that is over was in the loop's hands when it closed.
OneStale ==
    /\ \A i, k \in 1 .. Len(toLan) : toLan[i] # tid /\ toLan[k] # tid => i = k
    /\ lp = "data" /\ held[1] # tid => \A i \in 1 .. Len(toLan) : toLan[i] = tid

TunInv ==
    /\ TunTypeOK /\ HeldOK
    /\ TaskLives /\ ShutdownAsked
    /\ ReadBefore /\ QueuedInOrder /\ SentBefore /\ TunInOrder
    /\ TidsOnce /\ ReadsTogether /\ LabelOK /\ TunLabelled
    /\ OneStale

-----------------------------------------------------------------------------
(* Queues.                                                                 *)

\* xQueueSend adds at the end or not at all.
LEMMA PutElems ==
  ASSUME NEW S, NEW q \in Seq(S), NEW x \in S, NEW d \in Nat, Len(q) <= d
  PROVE  /\ Put(q, x, d) \in Seq(S) /\ Len(Put(q, x, d)) <= d
         /\ Len(Put(q, x, d)) \in Len(q) .. Len(q) + 1
         /\ \A i \in 1 .. Len(q) : Put(q, x, d)[i] = q[i]
         /\ \A i \in 1 .. Len(Put(q, x, d)) : i > Len(q) => Put(q, x, d)[i] = x
BY DEF Put

\* xQueueReceive takes the first.
LEMMA TailElems ==
  ASSUME NEW S, NEW q \in Seq(S), q # <<>>
  PROVE  /\ Tail(q) \in Seq(S) /\ Len(Tail(q)) = Len(q) - 1
         /\ Head(q) = q[1] /\ q[1] \in S /\ 1 \in 1 .. Len(q)
         /\ \A i \in 1 .. Len(Tail(q)) : Tail(q)[i] = q[i + 1] /\ i + 1 \in 1 .. Len(q)
OBVIOUS

\* xQueueSendToFront adds at the front or not at all.
LEMMA PutBackElems ==
  ASSUME toBe \in Seq(Chunks), Len(toBe) <= TUN_QDEPTH, NEW c \in Chunks
  PROVE  /\ PutBack(c) \in Seq(Chunks) /\ Len(PutBack(c)) <= TUN_QDEPTH
         /\ \/ PutBack(c) = toBe
            \/ /\ Len(PutBack(c)) = Len(toBe) + 1
               /\ PutBack(c)[1] = c
               /\ \A i \in 2 .. Len(PutBack(c)) : PutBack(c)[i] = toBe[i - 1]
BY TunnelAssumption DEF PutBack

LEMMA FrameFields ==
  /\ \A f \in Frames : f.tid \in {0} \cup Tids /\ f.n \in Chunks
  /\ \A t \in {0} \cup Tids, n \in Chunks : [tid |-> t, n |-> n] \in Frames
  /\ \A n \in Chunks : n \in Nat \ {0}
BY TunnelAssumption DEF Frames, Chunks

LEMMA CmdFields ==
  /\ \A c \in Cmds : c.op = "OPEN" => c.tid \in Tids
  /\ \A t \in Tids : [op |-> "OPEN", tid |-> t] \in Cmds
  /\ [op |-> "CLOSE", tid |-> 0] \in Cmds /\ [op |-> "SHUTDOWN", tid |-> 0] \in Cmds
BY DEF Cmds

LEMMA Depths ==
  /\ CMDQ \in Nat /\ TUN_LAN_QDEPTH \in Nat /\ TUN_QDEPTH \in Nat /\ STQ \in Nat
  /\ MaxReads \in Nat
  /\ Tids \subseteq Nat /\ 0 \notin Tids
BY TunnelAssumption

\* A command is queued behind those that wait.
LEMMA CmdQueued ==
  ASSUME TunTypeOK, NEW c \in Cmds, cmdQ' = Put(cmdQ, c, CMDQ)
  PROVE  /\ cmdQ' \in Seq(Cmds) /\ Len(cmdQ') <= CMDQ
         /\ \A i \in 1 .. Len(cmdQ') : cmdQ'[i] = c \/ (i \in 1 .. Len(cmdQ) /\ cmdQ'[i] = cmdQ[i])
<1>1. cmdQ \in Seq(Cmds) /\ Len(cmdQ) <= CMDQ /\ CMDQ \in Nat
  BY Depths DEF TunTypeOK
<1> QED BY <1>1, PutElems

LEMMA PushTyped ==
  ASSUME TunTypeOK, NEW t \in Tids, NEW st \in {"open", "closed", "error"}, Push(t, st)
  PROVE  stQ' \in Seq(Reports) /\ Len(stQ') <= STQ
<1>1. [tid |-> t, st |-> st] \in Reports
  BY DEF Reports
<1> QED BY <1>1, PutElems, Depths DEF TunTypeOK, Push

\* do_close leaves no session, and of the bytes for the LAN only those of a
\* session that was over before.
LEMMA Closed ==
  ASSUME TunTypeOK, DoClose
  PROVE  /\ state' = "IDLE" /\ tid' = 0
         /\ toLan' = <<>> \/ (state = "IDLE" /\ toLan' = toLan /\ tid' = tid)
         /\ toLan' \in Seq(Tids) /\ Len(toLan') <= TUN_LAN_QDEPTH
         /\ stQ' \in Seq(Reports) /\ Len(stQ') <= STQ
<1>1. CASE state = "IDLE"
  BY <1>1 DEF DoClose, TunTypeOK
<1>2. CASE state # "IDLE"
  <2>1. tid \in Tids
    BY <1>2 DEF TunTypeOK
  <2>2. toLan' = <<>> /\ state' = "IDLE" /\ tid' = 0 /\ Push(tid, "closed")
    BY <1>2 DEF DoClose
  <2> QED BY <2>1, <2>2, PushTyped, Depths
<1> QED BY <1>1, <1>2

-----------------------------------------------------------------------------
(* Types, the task and the teardown.                                       *)

Control == TunTypeOK /\ HeldOK /\ TaskLives /\ ShutdownAsked

LEMMA ControlTask ==
  ASSUME Control, TaskCommand
  PROVE  Control'
<1> USE DEF Control
<1>1. /\ cmdQ \in Seq(Cmds) /\ cmdQ # <<>> /\ cmdQ' = Tail(cmdQ) /\ task = "ready"
      /\ UNCHANGED <<key, up, toBe, shutdownReq, linger, lp, held, label, opened, readBy, datas, got>>
  BY DEF TaskCommand, TunTypeOK
<1>2. /\ cmdQ' \in Seq(Cmds) /\ Len(cmdQ') <= CMDQ /\ Head(cmdQ) = cmdQ[1]
      /\ cmdQ[1] \in Cmds /\ 1 \in 1 .. Len(cmdQ)
      /\ \A i \in 1 .. Len(cmdQ') : cmdQ'[i] = cmdQ[i + 1] /\ i + 1 \in 1 .. Len(cmdQ)
  BY <1>1, TailElems, Depths DEF TunTypeOK
<1>3. HeldOK' /\ ShutdownAsked'
  BY <1>1, <1>2 DEF InHand, HeldOK, ShutdownAsked
<1>4. up /\ ~taskDead
  BY <1>1 DEF TaskLives
<1> DEFINE c == Head(cmdQ)
<1>5. CASE /\ c.op = "OPEN" /\ state = "IDLE"
           /\ \/ task' = "connecting" /\ target' = c.tid /\ UNCHANGED stQ
              \/ Push(c.tid, "error") /\ UNCHANGED <<task, target>>
           /\ UNCHANGED <<toLan, state, tid, taskDead>>
  <2>1. c.tid \in Tids
    BY <1>2, <1>5, CmdFields
  <2>2. stQ' \in Seq(Reports) /\ Len(stQ') <= STQ
    BY <1>5, <2>1, PushTyped DEF TunTypeOK
  <2> QED BY <1>1, <1>2, <1>3, <1>5, <2>1, <2>2 DEF TunTypeOK, TaskLives
<1>6. CASE /\ c.op = "OPEN" /\ Push(c.tid, "error")
           /\ UNCHANGED <<toLan, state, tid, task, target, taskDead>>
  <2>1. stQ' \in Seq(Reports) /\ Len(stQ') <= STQ
    BY <1>2, <1>6, CmdFields, PushTyped
  <2> QED BY <1>1, <1>2, <1>3, <1>6, <2>1 DEF TunTypeOK, TaskLives
<1>7. CASE DoClose /\ UNCHANGED <<task, target, taskDead>>
  BY <1>1, <1>2, <1>3, <1>7, Closed DEF TunTypeOK, TaskLives
<1>8. CASE /\ c.op = "SHUTDOWN" /\ DoClose
           /\ task' = "none" /\ taskDead' = TRUE /\ UNCHANGED target
  <2>1. shutdownReq
    BY <1>2, <1>8 DEF ShutdownAsked
  <2> QED BY <1>1, <1>2, <1>3, <1>4, <1>8, <2>1, Closed DEF TunTypeOK, TaskLives
<1> QED BY <1>5, <1>6, <1>7, <1>8 DEF TaskCommand

LEMMA ControlPump ==
  ASSUME Control, TaskConnected \/ PumpRead \/ PumpWrite \/ PumpClose
  PROVE  Control'
<1> USE DEF Control
<1>1. CASE TaskConnected
  <2>1. target \in Tids /\ state = "IDLE"
    BY <1>1 DEF TaskConnected, TaskLives
  <2>2. stQ' \in Seq(Reports) /\ Len(stQ') <= STQ
    BY <1>1, <2>1, PushTyped DEF TaskConnected
  <2>3. TunTypeOK'
    BY <1>1, <2>1, <2>2, Depths DEF TaskConnected, TunTypeOK
  <2> QED BY <1>1, <2>1, <2>3 DEF TaskConnected, InHand, HeldOK, TaskLives, ShutdownAsked
<1>2. CASE PumpRead
  <2>1. tid \in Tids /\ readBy \in Seq(Tids) /\ Len(readBy) < MaxReads
    BY <1>2 DEF PumpRead, TunTypeOK, HeldOK
  <2>2. Len(readBy) + 1 \in Chunks
    BY <2>1, Depths DEF Chunks
  <2>3. toBe' \in Seq(Chunks) /\ Len(toBe') <= TUN_QDEPTH
    BY <1>2, <2>2, PutElems, Depths DEF PumpRead, TunTypeOK
  <2>4. readBy' \in Seq(Tids) /\ Len(readBy') <= MaxReads
    BY <1>2, <2>1, Depths DEF PumpRead
  <2> QED BY <1>2, <2>3, <2>4 DEF PumpRead, TunTypeOK, InHand, HeldOK, TaskLives, ShutdownAsked
<1>3. CASE PumpWrite
  <2>1. toLan' \in Seq(Tids) /\ Len(toLan') <= TUN_LAN_QDEPTH
    BY <1>3, TailElems, Depths DEF PumpWrite, TunTypeOK
  <2> QED BY <1>3, <2>1 DEF PumpWrite, TunTypeOK, InHand, HeldOK, TaskLives, ShutdownAsked
<1>4. CASE PumpClose
  BY <1>4, Closed DEF PumpClose, TunTypeOK, InHand, HeldOK, TaskLives, ShutdownAsked
<1> QED BY <1>1, <1>2, <1>3, <1>4

LEMMA ControlMessages ==
  ASSUME Control, Messages \/ OnDataPut
  PROVE  Control'
<1> USE DEF Control
<1>1. CASE OnOpen
  <2>1. PICK t \in Tids \ opened :
             /\ IF up THEN UNCHANGED <<up, task, linger>>
                ELSE up' = TRUE /\ task' = "ready" /\ linger' = "none"
             /\ cmdQ' = Put(cmdQ, [op |-> "OPEN", tid |-> t], CMDQ)
    BY <1>1 DEF OnOpen
  <2>2. /\ lp = "free" /\ ~shutdownReq
        /\ UNCHANGED <<key, state, tid, toLan, toBe, stQ, shutdownReq, taskDead, lp,
                       held, label, target, readBy, datas, got>>
    BY <1>1 DEF OnOpen
  <2>3. /\ cmdQ' \in Seq(Cmds) /\ Len(cmdQ') <= CMDQ
        /\ \A i \in 1 .. Len(cmdQ') : cmdQ'[i].op = "SHUTDOWN" => shutdownReq
    BY <2>1, CmdFields, CmdQueued DEF ShutdownAsked
  <2>4. up' /\ ~taskDead /\ task' # "none" /\ task' \in {task, "ready"}
    BY <2>1, <2>2 DEF TaskLives, TunTypeOK
  <2>5. TunTypeOK'
    BY <2>1, <2>2, <2>3 DEF TunTypeOK
  <2> QED BY <2>1, <2>2, <2>3, <2>4, <2>5 DEF InHand, HeldOK, TaskLives, ShutdownAsked
<1>2. CASE OnClose
  <2>1. /\ cmdQ' \in Seq(Cmds) /\ Len(cmdQ') <= CMDQ
        /\ \A i \in 1 .. Len(cmdQ') : cmdQ'[i].op = "SHUTDOWN" => shutdownReq
    BY <1>2, CmdFields, CmdQueued DEF OnClose, ShutdownAsked
  <2> QED BY <1>2, <2>1 DEF OnClose, TunTypeOK, InHand, HeldOK, TaskLives, ShutdownAsked
<1>3. CASE OnData
  <2>1. lp' = "data" /\ held' = <<tid>> /\ tid \in Tids
    BY <1>3 DEF OnData, TunTypeOK
  <2> QED BY <1>3, <2>1 DEF OnData, TunTypeOK, InHand, HeldOK, TaskLives, ShutdownAsked
<1>4. CASE KeyChange
  BY <1>4 DEF KeyChange, TunTypeOK, InHand, HeldOK, TaskLives, ShutdownAsked
<1>5. CASE OnDataPut
  <2>1. held[1] \in Tids
    BY <1>5 DEF OnDataPut, HeldOK
  <2>2. toLan' \in Seq(Tids) /\ Len(toLan') <= TUN_LAN_QDEPTH
    BY <1>5, <2>1, PutElems, Depths DEF OnDataPut, TunTypeOK
  <2> QED BY <1>5, <2>2 DEF OnDataPut, TunTypeOK, InHand, HeldOK, TaskLives, ShutdownAsked
<1> QED BY <1>1, <1>2, <1>3, <1>4, <1>5 DEF Messages

LEMMA ControlTick ==
  ASSUME Control, TickNext \/ LingerOver
  PROVE  Control'
<1> USE DEF Control
<1>1. CASE TickShutdown
  <2>1. CASE /\ ~taskDead
             /\ cmdQ' = Put(cmdQ, [op |-> "SHUTDOWN", tid |-> 0], CMDQ)
             /\ UNCHANGED <<up, toLan, toBe, stQ, shutdownReq, taskDead, linger>>
    <3>1. cmdQ' \in Seq(Cmds) /\ Len(cmdQ') <= CMDQ
      BY <2>1, CmdFields, CmdQueued
    <3> QED BY <1>1, <2>1, <3>1 DEF TickShutdown, TunTypeOK, InHand, HeldOK, TaskLives, ShutdownAsked
  <2>2. CASE /\ taskDead
             /\ up' = FALSE /\ shutdownReq' = FALSE /\ taskDead' = FALSE /\ linger' = "none"
             /\ cmdQ' = <<>> /\ toLan' = <<>> /\ toBe' = <<>> /\ stQ' = <<>>
    <3>1. task = "none" /\ lp = "free" /\ UNCHANGED <<key, state, tid, task, target, lp, held, label, readBy, got>>
      BY <1>1, <2>2 DEF TickShutdown, TaskLives
    <3>2. cmdQ' \in Seq(Cmds) /\ toLan' \in Seq(Tids) /\ toBe' \in Seq(Chunks) /\ stQ' \in Seq(Reports)
      BY <2>2
    <3>3. Len(cmdQ') <= CMDQ /\ Len(toLan') <= TUN_LAN_QDEPTH /\ Len(toBe') <= TUN_QDEPTH /\ Len(stQ') <= STQ
      BY <2>2, Depths
    <3>4. TunTypeOK'
      BY <2>2, <3>1, <3>2, <3>3 DEF TunTypeOK
    <3> QED BY <2>2, <3>1, <3>4 DEF InHand, HeldOK, TaskLives, ShutdownAsked
  <2> QED BY <1>1, <2>1, <2>2 DEF TickShutdown
<1>2. CASE TickBegin
  BY <1>2 DEF TickBegin, TunTypeOK, InHand, HeldOK, TaskLives, ShutdownAsked
<1>3. CASE TickStates
  <2>1. stQ' \in Seq(Reports) /\ Len(stQ') <= STQ
    <3>1. stQ \in Seq(Reports) /\ Len(stQ) <= STQ /\ STQ \in Nat
      BY Depths DEF TunTypeOK
    <3>2. stQ' = stQ \/ (stQ # <<>> /\ stQ' = Tail(stQ))
      BY <1>3 DEF TickStates
    <3> QED BY <3>1, <3>2, TailElems
  <2> QED BY <1>3, <2>1 DEF TickStates, TunTypeOK, InHand, HeldOK, TaskLives, ShutdownAsked
<1>4. CASE TickTake
  <2>1. /\ toBe' \in Seq(Chunks) /\ Len(toBe') <= TUN_QDEPTH
        /\ held' = <<toBe[1]>> /\ toBe[1] \in Chunks
    BY <1>4, TailElems, Depths DEF TickTake, TunTypeOK
  <2> QED BY <1>4, <2>1 DEF TickTake, TunTypeOK, InHand, HeldOK, TaskLives, ShutdownAsked
<1>5. CASE TickSent
  <2>1. [tid |-> label, n |-> held[1]] \in Frames
    BY <1>5, FrameFields DEF TickSent, InHand, HeldOK, TunTypeOK
  <2>2. got' \in Seq(Frames)
    BY <1>5, <2>1 DEF TickSent, HeldOK
  <2>3. label' \in {0} \cup Tids
    BY <1>5 DEF TickSent
  <2> QED BY <1>5, <2>2, <2>3 DEF TickSent, TunTypeOK, InHand, HeldOK, TaskLives, ShutdownAsked
<1>6. CASE TickUnsent
  <2>1. toBe' \in Seq(Chunks) /\ Len(toBe') <= TUN_QDEPTH
    BY <1>6, PutBackElems DEF TickUnsent, TunTypeOK, InHand, HeldOK
  <2> QED BY <1>6, <2>1 DEF TickUnsent, TunTypeOK, InHand, HeldOK, TaskLives, ShutdownAsked
<1>7. CASE TickEnd
  <2>1. ~shutdownReq /\ up /\ ~taskDead
    BY <1>7 DEF TickEnd, TaskLives, ShutdownAsked
  <2>2. linger' \in {"none", "running", "over"} /\ shutdownReq' \in BOOLEAN
    BY <1>7 DEF TickEnd, TunTypeOK
  <2> QED BY <1>7, <2>1, <2>2 DEF TickEnd, TunTypeOK, InHand, HeldOK, TaskLives, ShutdownAsked
<1>8. CASE LingerOver
  BY <1>8 DEF LingerOver, TunTypeOK, InHand, HeldOK, TaskLives, ShutdownAsked
<1>9. CASE TickLabel
  BY <1>9 DEF TickLabel, TunTypeOK, InHand, HeldOK, TaskLives, ShutdownAsked
<1> QED BY <1>1, <1>2, <1>3, <1>4, <1>5, <1>6, <1>7, <1>8, <1>9 DEF TickNext

-----------------------------------------------------------------------------
(* The order of the chunks bound for the backend.                          *)

Order == ReadBefore /\ QueuedInOrder /\ SentBefore /\ TunInOrder

\* A step that neither reads, queues, takes nor sends a chunk.
LEMMA SameOrder ==
  ASSUME Order, UNCHANGED <<readBy, got, toBe>>, InHand' => InHand /\ held' = held
  PROVE  Order'
BY DEF Order, ReadBefore, QueuedInOrder, SentBefore, TunInOrder

LEMMA SentTyped ==
  ASSUME Control, NEW i \in 1 .. Len(got)
  PROVE  got[i] \in Frames /\ got[i].n \in Nat \ {0}
<1>1. got[i] \in Frames
  BY DEF Control, HeldOK
<1> QED BY <1>1, FrameFields

LEMMA OrderRead ==
  ASSUME Control, Order, PumpRead
  PROVE  Order'
<1> DEFINE c == Len(readBy) + 1
<1>1. /\ readBy \in Seq(Tids) /\ tid \in Tids /\ c \in Chunks
      /\ readBy' = Append(readBy, tid) /\ toBe' = Put(toBe, c, TUN_QDEPTH)
      /\ UNCHANGED <<lp, held, got>>
  BY Depths DEF PumpRead, Control, TunTypeOK, HeldOK, Chunks
<1>2. Len(readBy') = c /\ Len(readBy) \in Nat /\ c > Len(readBy)
  BY <1>1
<1> HIDE DEF c
<1>3. /\ toBe \in Seq(Chunks) /\ Len(toBe') \in Len(toBe) .. Len(toBe) + 1
      /\ \A i \in 1 .. Len(toBe) : toBe'[i] = toBe[i]
      /\ \A i \in 1 .. Len(toBe') : i > Len(toBe) => toBe'[i] = c
  <2>1. toBe \in Seq(Chunks) /\ Len(toBe) <= TUN_QDEPTH /\ TUN_QDEPTH \in Nat
    BY Depths DEF Control, TunTypeOK
  <2>2. c \in Chunks /\ toBe' = Put(toBe, c, TUN_QDEPTH)
    BY <1>1
  <2> QED BY ONLY <2>1, <2>2, PutElems
<1>4. ASSUME NEW i \in 1 .. Len(toBe')
      PROVE  \/ /\ i \in 1 .. Len(toBe) /\ toBe'[i] = toBe[i]
                /\ toBe[i] \in Nat /\ toBe[i] <= Len(readBy)
             \/ i = Len(toBe) + 1 /\ toBe'[i] = c
  <2>1. CASE i \in 1 .. Len(toBe)
    <3>1. toBe[i] \in Chunks /\ toBe[i] <= Len(readBy)
      BY <1>3, <2>1 DEF Order, ReadBefore
    <3> QED BY <1>3, <2>1, <3>1, FrameFields
  <2> QED BY <1>3, <2>1
<1>5. InHand => held[1] \in Nat /\ held[1] <= Len(readBy)
  BY FrameFields DEF Control, HeldOK, Order, ReadBefore
<1>6. \A i \in 1 .. Len(got) : got[i].n \in Nat /\ got[i].n <= Len(readBy)
  BY SentTyped DEF Order, ReadBefore
<1>7. InHand' <=> InHand
  BY <1>1 DEF InHand
<1>8. c \in Nat
  BY <1>2 DEF c
<1>9. ReadBefore'
  <2>1. \A i \in 1 .. Len(toBe') : toBe'[i] <= c
    BY <1>2, <1>4, <1>8
  <2>2. InHand => held[1] <= c
    BY <1>2, <1>5, <1>8
  <2>3. \A i \in 1 .. Len(got) : got[i].n <= c
    BY <1>2, <1>6, <1>8
  <2> QED BY <1>1, <1>2, <1>7, <2>1, <2>2, <2>3 DEF ReadBefore
<1>10. QueuedInOrder'
  <2>1. ASSUME NEW i \in 1 .. Len(toBe'), NEW k \in 1 .. Len(toBe'), i < k
        PROVE  toBe'[i] < toBe'[k]
    <3>1. i \in 1 .. Len(toBe)
      BY <1>3, <2>1
    <3>2. CASE k \in 1 .. Len(toBe)
      BY <1>3, <2>1, <3>1, <3>2 DEF Order, QueuedInOrder
    <3>3. CASE toBe'[k] = c
      BY <1>2, <1>3, <1>4, <1>8, <3>1, <3>3
    <3> QED BY <1>4, <3>2, <3>3
  <2>2. ASSUME InHand, NEW k \in 1 .. Len(toBe') PROVE held[1] < toBe'[k]
    <3>1. CASE k \in 1 .. Len(toBe)
      BY <1>3, <2>2, <3>1 DEF Order, QueuedInOrder
    <3>2. CASE toBe'[k] = c
      BY <1>2, <1>5, <1>8, <2>2, <3>2
    <3> QED BY <1>4, <3>1, <3>2
  <2> QED BY <1>1, <1>7, <2>1, <2>2 DEF QueuedInOrder
<1>11. SentBefore'
  <2>1. ASSUME NEW i \in 1 .. Len(got), NEW k \in 1 .. Len(toBe') PROVE got[i].n < toBe'[k]
    <3>1. CASE k \in 1 .. Len(toBe)
      BY <1>3, <3>1 DEF Order, SentBefore
    <3>2. CASE toBe'[k] = c
      BY <1>2, <1>6, <1>8, <3>2
    <3> QED BY <1>4, <3>1, <3>2
  <2> QED BY <1>1, <1>7, <2>1 DEF Order, SentBefore
<1> QED BY <1>1, <1>9, <1>10, <1>11 DEF Order, TunInOrder

\* The loop takes the first chunk, sends it, or puts it back where it was.
LEMMA OrderTaken ==
  ASSUME Control, Order, TickTake
  PROVE  Order'
<1>1. /\ toBe \in Seq(Chunks) /\ toBe # <<>> /\ toBe' = Tail(toBe) /\ held' = <<toBe[1]>>
      /\ InHand' /\ ~InHand /\ UNCHANGED <<readBy, got>>
  BY DEF TickTake, Control, TunTypeOK, InHand
<1>2. /\ 1 \in 1 .. Len(toBe)
      /\ \A i \in 1 .. Len(toBe') : toBe'[i] = toBe[i + 1] /\ i + 1 \in 1 .. Len(toBe)
      /\ held'[1] = toBe[1]
  BY <1>1, TailElems
<1>3. ReadBefore'
  BY <1>1, <1>2 DEF Order, ReadBefore
<1>4. QueuedInOrder'
  BY <1>1, <1>2 DEF Order, QueuedInOrder
<1>5. SentBefore'
  BY <1>1, <1>2 DEF Order, SentBefore
<1> QED BY <1>1, <1>3, <1>4, <1>5 DEF Order, TunInOrder

LEMMA OrderSent ==
  ASSUME Control, Order, TickSent
  PROVE  Order'
<1> DEFINE h == held[1]
           f == [tid |-> label, n |-> h]
<1>1. /\ h \in Chunks /\ f \in Frames /\ f.n = h
      /\ got \in Seq(Frames) /\ got' = Append(got, f)
      /\ InHand /\ ~InHand' /\ UNCHANGED <<readBy, toBe>>
  BY FrameFields DEF TickSent, Control, HeldOK, TunTypeOK, InHand
<1> HIDE DEF f
<1>2. /\ Len(got') = Len(got) + 1 /\ Len(got) \in Nat
      /\ \A i \in 1 .. Len(got) : got'[i] = got[i]
      /\ got'[Len(got) + 1] = f
  BY <1>1
<1>3. ASSUME NEW i \in 1 .. Len(got')
      PROVE  \/ i \in 1 .. Len(got) /\ got'[i] = got[i]
             \/ i = Len(got) + 1 /\ got'[i].n = h
  BY <1>1, <1>2
<1>4. ReadBefore'
  BY <1>1, <1>3 DEF Order, ReadBefore
<1>5. QueuedInOrder'
  BY <1>1 DEF Order, QueuedInOrder
<1>6. SentBefore'
  <2> SUFFICES ASSUME NEW i \in 1 .. Len(got'), NEW k \in 1 .. Len(toBe)
               PROVE  got'[i].n < toBe[k]
    BY <1>1 DEF SentBefore
  <2>1. CASE i \in 1 .. Len(got) /\ got'[i] = got[i]
    BY <2>1 DEF Order, SentBefore
  <2>2. CASE got'[i].n = h
    BY <1>1, <2>2 DEF Order, QueuedInOrder
  <2> QED BY <1>3, <2>1, <2>2
<1>7. TunInOrder'
  <2> SUFFICES ASSUME NEW i \in 1 .. Len(got'), NEW k \in 1 .. Len(got'), i < k
               PROVE  got'[i].n < got'[k].n
    <3>1. DOMAIN got' = 1 .. Len(got')
      BY <1>1
    <3> QED BY <3>1 DEF TunInOrder
  <2>1. i \in 1 .. Len(got) /\ got'[i] = got[i]
    BY <1>2
  <2>2. CASE k \in 1 .. Len(got) /\ got'[k] = got[k]
    <3>1. DOMAIN got = 1 .. Len(got)
      BY <1>1
    <3> QED BY <2>1, <2>2, <3>1 DEF Order, TunInOrder
  <2>3. CASE got'[k].n = h
    BY <1>1, <2>1, <2>3 DEF Order, SentBefore
  <2> QED BY <1>3, <2>2, <2>3
<1> QED BY <1>4, <1>5, <1>6, <1>7 DEF Order

LEMMA OrderUnsent ==
  ASSUME Control, Order, TickUnsent
  PROVE  Order'
<1> DEFINE h == held[1]
<1>1. /\ h \in Chunks /\ toBe \in Seq(Chunks) /\ Len(toBe) <= TUN_QDEPTH /\ toBe' = PutBack(h)
      /\ InHand /\ ~InHand' /\ UNCHANGED <<readBy, got>>
  BY DEF TickUnsent, Control, TunTypeOK, HeldOK, InHand
<1>2. CASE toBe' = toBe
  BY <1>1, <1>2, SameOrder
<1>3. CASE /\ Len(toBe') = Len(toBe) + 1 /\ toBe'[1] = h
           /\ \A i \in 2 .. Len(toBe') : toBe'[i] = toBe[i - 1]
  <2>1. \A i \in 1 .. Len(toBe') :
           \/ i = 1 /\ toBe'[i] = h
           \/ i - 1 \in 1 .. Len(toBe) /\ toBe'[i] = toBe[i - 1]
    BY <1>1, <1>3
  <2>2. ReadBefore'
    BY <1>1, <2>1 DEF Order, ReadBefore
  <2>3. QueuedInOrder'
    <3> SUFFICES ASSUME NEW i \in 1 .. Len(toBe'), NEW k \in 1 .. Len(toBe'), i < k
                 PROVE  toBe'[i] < toBe'[k]
      BY <1>1 DEF QueuedInOrder
    <3>1. k - 1 \in 1 .. Len(toBe) /\ toBe'[k] = toBe[k - 1]
      BY <2>1
    <3>2. CASE i = 1 /\ toBe'[i] = h
      BY <1>1, <3>1, <3>2 DEF Order, QueuedInOrder
    <3>3. CASE i - 1 \in 1 .. Len(toBe) /\ toBe'[i] = toBe[i - 1]
      BY <3>1, <3>3 DEF Order, QueuedInOrder
    <3> QED BY <2>1, <3>2, <3>3
  <2>4. SentBefore'
    <3> SUFFICES ASSUME NEW i \in 1 .. Len(got), NEW k \in 1 .. Len(toBe')
                 PROVE  got[i].n < toBe'[k]
      BY <1>1 DEF SentBefore
    <3>1. CASE k = 1 /\ toBe'[k] = h
      BY <1>1, <3>1 DEF Order, SentBefore
    <3>2. CASE k - 1 \in 1 .. Len(toBe) /\ toBe'[k] = toBe[k - 1]
      BY <3>2 DEF Order, SentBefore
    <3> QED BY <2>1, <3>1, <3>2
  <2> QED BY <1>1, <2>2, <2>3, <2>4 DEF Order, TunInOrder
<1> QED BY <1>1, <1>2, <1>3, PutBackElems

LEMMA OrderNext ==
  ASSUME Control, Order, TunNext
  PROVE  Order'
<1>1. CASE TaskCommand \/ TaskConnected \/ PumpWrite \/ PumpClose
  BY <1>1, SameOrder DEF TaskCommand, TaskConnected, PumpWrite, PumpClose, InHand
<1>2. CASE Messages \/ OnDataPut
  BY <1>2, SameOrder DEF Messages, OnOpen, OnClose, OnData, KeyChange, OnDataPut, InHand
<1>3. CASE TickShutdown
  <2>1. UNCHANGED <<readBy, got, lp, held>> /\ lp = "free" /\ (toBe' = toBe \/ toBe' = <<>>)
    BY <1>3 DEF TickShutdown
  <2>2. CASE toBe' = <<>>
    BY <2>1, <2>2 DEF Order, ReadBefore, QueuedInOrder, SentBefore, TunInOrder, InHand
  <2> QED BY <2>1, <2>2, SameOrder DEF InHand
<1>4. CASE TickBegin \/ TickStates \/ TickLabel \/ TickEnd \/ LingerOver
  BY <1>4, SameOrder DEF TickBegin, TickStates, TickLabel, TickEnd, LingerOver, InHand
<1> QED BY <1>1, <1>2, <1>3, <1>4, OrderRead, OrderTaken, OrderSent, OrderUnsent
       DEF TunNext, TaskNext, TickNext

-----------------------------------------------------------------------------
(* The sessions: one after the other, each with a tid of its own.          *)

Once == TidsOnce /\ ReadsTogether

\* A step that opens, closes, reads and commands nothing.
LEMMA SameOnce ==
  ASSUME Once, UNCHANGED <<cmdQ, opened, tid, readBy, task, target>>
  PROVE  Once'
BY DEF Once, TidsOnce, ReadsTogether, Unused

\* do_close: the tid that goes is not one that waits.
LEMMA OnceClosed ==
  ASSUME Control, Once, tid' = 0, UNCHANGED <<opened, readBy>>,
         cmdQ' = cmdQ \/ (cmdQ # <<>> /\ cmdQ' = Tail(cmdQ)),
         task' = "connecting" => task = "connecting" /\ target' = target
  PROVE  Once'
<1>1. /\ cmdQ \in Seq(Cmds) /\ target \in {0} \cup Tids /\ (task = "connecting" => target \in Tids)
      /\ readBy \in Seq(Tids)
  BY DEF Control, TunTypeOK, HeldOK, TaskLives
<1>2. /\ cmdQ' \in Seq(Cmds)
      /\ \/ \A i \in 1 .. Len(cmdQ') : cmdQ'[i] = cmdQ[i] /\ i \in 1 .. Len(cmdQ)
         \/ \A i \in 1 .. Len(cmdQ') : cmdQ'[i] = cmdQ[i + 1] /\ i + 1 \in 1 .. Len(cmdQ)
  BY <1>1, TailElems
<1>3. ASSUME NEW t \in Tids, Unused(t) PROVE Unused(t)'
  BY <1>3, Depths DEF Unused
<1>4. \A i \in 1 .. Len(cmdQ') : cmdQ'[i].op = "OPEN" => cmdQ'[i].tid \in Tids
  BY <1>2, CmdFields
<1>5. \A i \in 1 .. Len(cmdQ') : cmdQ'[i].op = "OPEN" => Unused(cmdQ'[i].tid)
  BY <1>2 DEF Once, TidsOnce
<1>6. \A i \in 1 .. Len(cmdQ') : cmdQ'[i].op = "OPEN" => Unused(cmdQ[i].tid)'
  BY <1>3, <1>4, <1>5 DEF Unused
<1>7. task' = "connecting" => Unused(target)'
  BY <1>1, <1>3 DEF Once, TidsOnce, Unused
<1>8. ReadsTogether'
  <2>1. \A m \in 1 .. Len(readBy) : readBy[m] # 0
    BY <1>1, Depths
  <2> QED BY <2>1 DEF ReadsTogether
<1>9. TidsOnce'
  <2>1. \A i, k \in 1 .. Len(cmdQ') :
           cmdQ'[i].op = "OPEN" /\ cmdQ'[k].op = "OPEN" /\ cmdQ'[i].tid = cmdQ'[k].tid => i = k
    <3>1. \A i, k \in 1 .. Len(cmdQ) :
             cmdQ[i].op = "OPEN" /\ cmdQ[k].op = "OPEN" /\ cmdQ[i].tid = cmdQ[k].tid => i = k
      BY DEF Once, TidsOnce
    <3>2. CASE \A i \in 1 .. Len(cmdQ') : cmdQ'[i] = cmdQ[i] /\ i \in 1 .. Len(cmdQ)
      BY <3>1, <3>2
    <3>3. CASE \A i \in 1 .. Len(cmdQ') : cmdQ'[i] = cmdQ[i + 1] /\ i + 1 \in 1 .. Len(cmdQ)
      <4> SUFFICES ASSUME NEW i \in 1 .. Len(cmdQ'), NEW k \in 1 .. Len(cmdQ'),
                          cmdQ'[i].op = "OPEN", cmdQ'[k].op = "OPEN", cmdQ'[i].tid = cmdQ'[k].tid
                   PROVE  i = k
        OBVIOUS
      <4>1. /\ cmdQ'[i] = cmdQ[i + 1] /\ i + 1 \in 1 .. Len(cmdQ)
            /\ cmdQ'[k] = cmdQ[k + 1] /\ k + 1 \in 1 .. Len(cmdQ)
        BY <3>3
      <4>2. i + 1 = k + 1
        BY <3>1, <4>1
      <4> QED BY <4>2
    <3> QED BY <1>2, <3>2, <3>3
  <2>2. task' = "connecting" =>
           \A i \in 1 .. Len(cmdQ') : cmdQ'[i].op = "OPEN" => cmdQ'[i].tid # target'
    BY <1>2 DEF Once, TidsOnce
  <2>3. \A m \in 1 .. Len(readBy') : readBy'[m] \in opened'
    BY DEF Once, TidsOnce
  <2> QED BY <1>6, <1>7, <2>1, <2>2, <2>3 DEF TidsOnce
<1> QED BY <1>8, <1>9 DEF Once

LEMMA OnceTask ==
  ASSUME Control, Once, TaskNext
  PROVE  Once'
<1>1. CASE TaskCommand
  <2>1. /\ cmdQ \in Seq(Cmds) /\ cmdQ # <<>> /\ cmdQ' = Tail(cmdQ) /\ task = "ready"
        /\ UNCHANGED <<opened, readBy>>
    BY <1>1 DEF TaskCommand, Control, TunTypeOK
  <2>2. /\ Head(cmdQ) = cmdQ[1] /\ 1 \in 1 .. Len(cmdQ)
        /\ \A i \in 1 .. Len(cmdQ') : cmdQ'[i] = cmdQ[i + 1] /\ i + 1 \in 1 .. Len(cmdQ)
    BY <2>1, TailElems
  <2>3. CASE DoClose /\ task' # "connecting"
    BY <2>1, <2>3, Closed, OnceClosed DEF Control
  <2>4. CASE task' = task /\ UNCHANGED tid
    BY <2>1, <2>2, <2>4 DEF Once, TidsOnce, ReadsTogether, Unused
  <2>5. CASE /\ Head(cmdQ).op = "OPEN" /\ task' = "connecting" /\ target' = Head(cmdQ).tid
             /\ UNCHANGED tid
    <3>1. Unused(target)' /\ \A i \in 1 .. Len(cmdQ') : cmdQ'[i].op = "OPEN" => cmdQ'[i].tid # target'
      <4>1. Unused(cmdQ[1].tid)
        BY <2>2, <2>5 DEF Once, TidsOnce
      <4>2. \A i \in 1 .. Len(cmdQ') : cmdQ'[i].op = "OPEN" => cmdQ'[i].tid # cmdQ[1].tid
        BY <2>2, <2>5 DEF Once, TidsOnce
      <4> QED BY <2>1, <2>2, <2>5, <4>1, <4>2 DEF Unused
    <3>2. \A i \in 1 .. Len(cmdQ') : cmdQ'[i].op = "OPEN" => Unused(cmdQ[i].tid)'
      BY <2>1, <2>2, <2>5 DEF Once, TidsOnce, Unused
    <3>3. \A i, k \in 1 .. Len(cmdQ') :
             cmdQ'[i].op = "OPEN" /\ cmdQ'[k].op = "OPEN" /\ cmdQ'[i].tid = cmdQ'[k].tid => i = k
      BY <2>1, <2>2 DEF Once, TidsOnce
    <3>4. TidsOnce'
      BY <2>1, <2>5, <3>1, <3>2, <3>3 DEF Once, TidsOnce, Unused
    <3> QED BY <2>1, <2>5, <3>4 DEF Once, ReadsTogether
  <2> QED BY <1>1, <2>1, <2>3, <2>4, <2>5 DEF TaskCommand
<1>2. CASE TaskConnected
  <2>1. /\ task = "connecting" /\ task' = "ready" /\ UNCHANGED <<cmdQ, opened, readBy>>
        /\ tid' = target \/ UNCHANGED tid
    BY <1>2 DEF TaskConnected
  <2>2. CASE UNCHANGED tid
    BY <2>1, <2>2 DEF Once, TidsOnce, ReadsTogether, Unused
  <2>3. CASE tid' = target
    <3>1. Unused(target) /\ \A i \in 1 .. Len(cmdQ) : cmdQ[i].op = "OPEN" => cmdQ[i].tid # target
      BY <2>1 DEF Once, TidsOnce
    <3>2. TidsOnce'
      BY <2>1, <2>3, <3>1 DEF Once, TidsOnce, Unused
    <3> QED BY <2>1, <2>3, <3>1, <3>2 DEF Once, ReadsTogether, Unused
  <2> QED BY <2>1, <2>2, <2>3
<1>3. CASE PumpRead
  <2>1. /\ readBy \in Seq(Tids) /\ tid \in Tids /\ readBy' = Append(readBy, tid)
        /\ UNCHANGED <<cmdQ, opened, tid, task, target>>
    BY <1>3 DEF PumpRead, Control, TunTypeOK, HeldOK
  <2>2. /\ Len(readBy') = Len(readBy) + 1 /\ Len(readBy) \in Nat
        /\ \A m \in 1 .. Len(readBy) : readBy'[m] = readBy[m]
        /\ readBy'[Len(readBy) + 1] = tid
    BY <2>1
  <2>3. \A m \in 1 .. Len(readBy') : \/ m \in 1 .. Len(readBy) /\ readBy'[m] = readBy[m]
                                     \/ m = Len(readBy) + 1 /\ readBy'[m] = tid
    BY <2>2
  <2>4. ASSUME NEW t, Unused(t) PROVE Unused(t)'
    BY <2>1, <2>3, <2>4 DEF Unused
  <2>5. tid \in opened
    BY <2>1, Depths DEF Once, TidsOnce
  <2>6. TidsOnce'
    BY <2>1, <2>3, <2>4, <2>5 DEF Once, TidsOnce
  <2>7. ReadsTogether'
    BY <2>1, <2>2, <2>3 DEF Once, ReadsTogether
  <2> QED BY <2>6, <2>7 DEF Once
<1>4. CASE PumpWrite
  BY <1>4, SameOnce DEF PumpWrite
<1>5. CASE PumpClose
  BY <1>5, Closed, OnceClosed DEF PumpClose, Control
<1> QED BY <1>1, <1>2, <1>3, <1>4, <1>5 DEF TaskNext

\* A command that opens nothing joins the queue.
LEMMA OnceCommand ==
  ASSUME Control, Once, NEW c \in Cmds, c.op # "OPEN", cmdQ' = Put(cmdQ, c, CMDQ),
         UNCHANGED <<opened, tid, readBy, task, target>>
  PROVE  Once'
<1>1. \A i \in 1 .. Len(cmdQ') : cmdQ'[i] = c \/ (i \in 1 .. Len(cmdQ) /\ cmdQ'[i] = cmdQ[i])
  BY CmdQueued DEF Control
<1> QED BY <1>1 DEF Once, TidsOnce, ReadsTogether, Unused

LEMMA OnceLoop ==
  ASSUME Control, Once, Messages \/ OnDataPut \/ TickNext \/ LingerOver
  PROVE  Once'
<1>1. CASE OnOpen
  <2>1. PICK t \in Tids \ opened :
             /\ opened' = opened \cup {t} /\ task' \in {task, "ready"}
             /\ cmdQ' = Put(cmdQ, [op |-> "OPEN", tid |-> t], CMDQ)
    BY <1>1 DEF OnOpen
  <2>2. UNCHANGED <<tid, readBy, target>>
    BY <1>1 DEF OnOpen
  <2> DEFINE c == [op |-> "OPEN", tid |-> t]
  <2>3. /\ cmdQ \in Seq(Cmds) /\ Len(cmdQ) <= CMDQ /\ CMDQ \in Nat /\ c \in Cmds
        /\ c.op = "OPEN" /\ c.tid = t
    BY CmdFields, Depths DEF Control, TunTypeOK
  <2>4. cmdQ' = Put(cmdQ, c, CMDQ)
    BY <2>1
  <2> HIDE DEF c
  <2>5. /\ Len(cmdQ') \in Len(cmdQ) .. Len(cmdQ) + 1
        /\ \A i \in 1 .. Len(cmdQ) : cmdQ'[i] = cmdQ[i]
        /\ \A i \in 1 .. Len(cmdQ') : i > Len(cmdQ) => cmdQ'[i] = c
    BY <2>3, <2>4, PutElems
  <2>6. \A i \in 1 .. Len(cmdQ') : \/ i \in 1 .. Len(cmdQ) /\ cmdQ'[i] = cmdQ[i]
                                   \/ i = Len(cmdQ) + 1 /\ cmdQ'[i] = c
    BY <2>3, <2>5
  <2>7. Unused(t)'
    BY <2>1, <2>2, Depths DEF Once, TidsOnce, Unused
  <2>8. ASSUME NEW x, Unused(x) PROVE Unused(x)' /\ x # t
    BY <2>1, <2>2, <2>8 DEF Unused
  <2>9. \A i \in 1 .. Len(cmdQ) : cmdQ[i].op = "OPEN" => Unused(cmdQ[i].tid)
    BY DEF Once, TidsOnce
  <2>10. \A i \in 1 .. Len(cmdQ') : cmdQ'[i].op = "OPEN" => Unused(cmdQ[i].tid)'
    <3> SUFFICES ASSUME NEW i \in 1 .. Len(cmdQ'), cmdQ'[i].op = "OPEN"
                 PROVE  Unused(cmdQ[i].tid)'
      OBVIOUS
    <3>1. CASE i \in 1 .. Len(cmdQ) /\ cmdQ'[i] = cmdQ[i]
      <4>1. Unused(cmdQ[i].tid)
        BY <2>9, <3>1
      <4> QED BY <2>8, <3>1, <4>1 DEF Unused
    <3>2. CASE cmdQ'[i] = c
      BY <2>3, <2>7, <3>2 DEF Unused
    <3> QED BY <2>6, <3>1, <3>2
  <2>11. \A i, k \in 1 .. Len(cmdQ') :
            cmdQ'[i].op = "OPEN" /\ cmdQ'[k].op = "OPEN" /\ cmdQ'[i].tid = cmdQ'[k].tid => i = k
    BY <2>3, <2>6, <2>8, <2>9 DEF Once, TidsOnce
  <2>12. task' = "connecting" => task = "connecting"
    BY <2>1
  <2>13. task' = "connecting" =>
            /\ Unused(target)'
            /\ \A i \in 1 .. Len(cmdQ') : cmdQ'[i].op = "OPEN" => cmdQ'[i].tid # target'
    BY <2>2, <2>3, <2>6, <2>8, <2>12 DEF Once, TidsOnce
  <2>14. TidsOnce'
    BY <2>1, <2>2, <2>10, <2>11, <2>13 DEF Once, TidsOnce
  <2> QED BY <2>2, <2>14 DEF Once, ReadsTogether
<1>2. CASE OnClose
  BY <1>2, CmdFields, OnceCommand DEF OnClose
<1>3. CASE OnData \/ KeyChange \/ OnDataPut \/ LingerOver
  BY <1>3, SameOnce DEF OnData, KeyChange, OnDataPut, LingerOver
<1>4. CASE TickShutdown
  <2>1. UNCHANGED <<opened, tid, readBy, task, target>>
    BY <1>4 DEF TickShutdown
  <2>2. cmdQ' = Put(cmdQ, [op |-> "SHUTDOWN", tid |-> 0], CMDQ) \/ cmdQ' = <<>>
    BY <1>4 DEF TickShutdown
  <2>3. CASE cmdQ' = <<>>
    BY <2>1, <2>3 DEF Once, TidsOnce, ReadsTogether, Unused
  <2> QED BY <2>1, <2>2, <2>3, CmdFields, OnceCommand
<1>5. CASE TickBegin \/ TickStates \/ TickTake \/ TickLabel \/ TickSent \/ TickUnsent \/ TickEnd
  BY <1>5, SameOnce DEF TickBegin, TickStates, TickTake, TickLabel, TickSent, TickUnsent, TickEnd
<1> QED BY <1>1, <1>2, <1>3, <1>4, <1>5 DEF Messages, TickNext

-----------------------------------------------------------------------------
(* The labels of what is sent to the backend.                              *)

Labels == LabelOK /\ TunLabelled

\* Where a chunk was read stays as it is, and a session that is over stays over.
LEMMA StaysRight ==
  ASSUME Control, Once, TunNext, NEW l, NEW n \in 1 .. Len(readBy), Rightly(l, n)
  PROVE  Rightly(l, n)'
<1>1. readBy \in Seq(Tids) /\ tid \in {0} \cup Tids
  BY DEF Control, HeldOK, TunTypeOK
<1>2. readBy' = readBy \/ readBy' = Append(readBy, tid)
  BY DEF TunNext, TaskNext, Messages, TickNext, TaskCommand, TaskConnected, PumpRead, PumpWrite,
         PumpClose, OnOpen, OnClose, OnData, KeyChange, OnDataPut, TickShutdown, TickBegin,
         TickStates, TickTake, TickLabel, TickSent, TickUnsent, TickEnd, LingerOver
<1>3. \A m \in 1 .. n : readBy'[m] = readBy[m] /\ m \in 1 .. Len(readBy)
  BY <1>1, <1>2
<1>4. readBy'[n] = readBy[n] /\ readBy[n] \in Tids
  BY <1>1, <1>3
<1>5. tid' = tid \/ tid' = 0 \/ (tid' = target /\ task = "connecting")
  <2>1. ASSUME DoClose PROVE tid' = 0
    BY <2>1, Closed DEF Control
  <2> QED BY <2>1 DEF TunNext, TaskNext, Messages, TickNext, TaskCommand, TaskConnected, PumpRead,
         PumpWrite, PumpClose, OnOpen, OnClose, OnData, KeyChange, OnDataPut, TickShutdown, TickBegin,
         TickStates, TickTake, TickLabel, TickSent, TickUnsent, TickEnd, LingerOver
<1>6. readBy[n] # tid => readBy[n] # tid'
  <2>1. task = "connecting" => readBy[n] # target
    BY DEF Once, TidsOnce, Unused
  <2> QED BY <1>4, <1>5, <2>1, Depths
<1> QED BY <1>3, <1>4, <1>6 DEF Rightly

\* A step that sends nothing.
LEMMA LabelsStay ==
  ASSUME Control, Order, Once, Labels, TunNext, UNCHANGED got,
         lp' = "send" => lp = "send" /\ UNCHANGED <<label, held>>
  PROVE  Labels'
<1>1. ASSUME lp' = "send" PROVE Rightly(label, held[1])'
  <2>1. held[1] \in Chunks /\ held[1] <= Len(readBy) /\ readBy \in Seq(Tids)
    BY <1>1 DEF Control, HeldOK, InHand, Order, ReadBefore
  <2>2. held[1] \in 1 .. Len(readBy)
    BY <2>1, FrameFields
  <2>3. Rightly(label, held[1]) /\ label' = label /\ held'[1] = held[1]
    BY <1>1 DEF Labels, LabelOK
  <2> QED BY <2>2, <2>3, StaysRight DEF Rightly
<1>2. ASSUME NEW i \in DOMAIN got PROVE Rightly(got[i].tid, got[i].n)'
  <2>1. got \in Seq(Frames) /\ readBy \in Seq(Tids) /\ i \in 1 .. Len(got)
    BY DEF Control, HeldOK
  <2>2. got[i].n \in 1 .. Len(readBy)
    BY <2>1, SentTyped DEF Order, ReadBefore
  <2>3. Rightly(got[i].tid, got[i].n)
    BY DEF Labels, TunLabelled, Rightly
  <2>4. ASSUME NEW l, NEW n \in 1 .. Len(readBy), Rightly(l, n) PROVE Rightly(l, n)'
    BY <2>4, StaysRight
  <2> QED BY <2>2, <2>3, <2>4 DEF Rightly
<1> QED BY <1>1, <1>2 DEF Labels, LabelOK, TunLabelled, Rightly

\* The label is the open session's tid: if the chunk is of another session, that
\* one is over, and the open one has read nothing before it.
LEMMA LabelTaken ==
  ASSUME Control, Order, Once, Labels, TickLabel
  PROVE  Labels'
<1> DEFINE h == held[1]
<1>1. /\ h \in Chunks /\ h <= Len(readBy) /\ readBy \in Seq(Tids)
      /\ label' = tid /\ UNCHANGED <<tid, held, readBy, got>>
  BY DEF TickLabel, Control, HeldOK, InHand, Order, ReadBefore
<1>2. h \in 1 .. Len(readBy) /\ 1 .. h \subseteq 1 .. Len(readBy)
  BY <1>1, FrameFields
<1>3. ASSUME tid # readBy[h], NEW m \in 1 .. h PROVE readBy[m] # tid
  <2>1. m \in 1 .. Len(readBy) /\ (m < h \/ m = h)
    BY <1>2
  <2> QED BY <1>2, <1>3, <2>1 DEF Once, ReadsTogether
<1>4. Rightly(tid, h)
  BY <1>3 DEF Rightly
<1> QED BY <1>1, <1>4 DEF Labels, LabelOK, TunLabelled, Rightly

LEMMA LabelSent ==
  ASSUME Control, Labels, TickSent
  PROVE  Labels'
<1> DEFINE f == [tid |-> label, n |-> held[1]]
<1>1. /\ got \in Seq(Frames) /\ f \in Frames /\ got' = Append(got, f)
      /\ f.tid = label /\ f.n = held[1] /\ lp = "send" /\ lp' = "chunks" /\ UNCHANGED <<tid, readBy>>
  BY FrameFields DEF TickSent, Control, HeldOK, TunTypeOK, InHand
<1> HIDE DEF f
<1>2. \A i \in DOMAIN got' : (i \in DOMAIN got /\ got'[i] = got[i]) \/ got'[i] = f
  BY <1>1
<1>3. Rightly(f.tid, f.n)
  BY <1>1 DEF Labels, LabelOK
<1>4. \A i \in DOMAIN got : Rightly(got[i].tid, got[i].n)
  BY DEF Labels, TunLabelled, Rightly
<1>5. \A i \in DOMAIN got' : Rightly(got'[i].tid, got'[i].n)
  BY <1>2, <1>3, <1>4
<1>6. TunLabelled'
  BY <1>1, <1>5 DEF TunLabelled, Rightly
<1> QED BY <1>1, <1>6 DEF Labels, LabelOK

LEMMA LabelsNext ==
  ASSUME Control, Order, Once, Labels, TunNext
  PROVE  Labels'
<1>1. CASE TaskNext \/ Messages \/ OnDataPut \/ LingerOver
  BY <1>1, LabelsStay DEF TaskNext, TaskCommand, TaskConnected, PumpRead, PumpWrite, PumpClose,
     Messages, OnOpen, OnClose, OnData, KeyChange, OnDataPut, LingerOver
<1>2. CASE TickShutdown \/ TickBegin \/ TickStates \/ TickTake \/ TickUnsent \/ TickEnd
  BY <1>2, LabelsStay DEF TickShutdown, TickBegin, TickStates, TickTake, TickUnsent, TickEnd
<1> QED BY <1>1, <1>2, LabelTaken, LabelSent DEF TunNext, TickNext

-----------------------------------------------------------------------------
(* The chunks bound for the LAN.                                           *)

\* A step that leaves the session as it is and queues nothing for the LAN.
LEMMA SameStale ==
  ASSUME OneStale, UNCHANGED <<toLan, tid>>, lp' = "data" => lp = "data" /\ held' = held
  PROVE  OneStale'
BY DEF OneStale

LEMMA EmptyStale ==
  ASSUME toLan' = <<>>
  PROVE  OneStale'
BY DEF OneStale

LEMMA StaleTask ==
  ASSUME Control, OneStale, TaskNext
  PROVE  OneStale'
<1>1. CASE TaskCommand \/ PumpClose
  <2>1. UNCHANGED <<lp, held>> /\ (DoClose \/ UNCHANGED <<toLan, tid>>)
    BY <1>1 DEF TaskCommand, PumpClose
  <2>2. toLan' = <<>> \/ UNCHANGED <<toLan, tid>>
    BY <2>1, Closed DEF Control
  <2> QED BY <2>1, <2>2, SameStale, EmptyStale
\* No session was open, so whatever is queued was stale already.
<1>2. CASE TaskConnected
  <2>1. UNCHANGED <<lp, held, toLan>> /\ tid = 0 /\ toLan \in Seq(Tids) /\ 0 \notin Tids
    BY <1>2, Depths DEF TaskConnected, Control, TaskLives, TunTypeOK
  <2>2. \A i \in 1 .. Len(toLan) : toLan[i] \in Tids /\ toLan[i] # tid
    BY <2>1
  <2>3. lp = "data" => held[1] # tid
    BY <2>1 DEF Control, HeldOK
  <2> QED BY <2>1, <2>2, <2>3 DEF OneStale
<1>3. CASE PumpRead
  BY <1>3, SameStale DEF PumpRead
<1>4. CASE PumpWrite
  <2>1. /\ toLan \in Seq(Tids) /\ toLan # <<>> /\ toLan' = Tail(toLan)
        /\ UNCHANGED <<lp, held, tid>>
    BY <1>4 DEF PumpWrite, Control, TunTypeOK
  <2>2. \A i \in 1 .. Len(toLan') : toLan'[i] = toLan[i + 1] /\ i + 1 \in 1 .. Len(toLan)
    BY <2>1, TailElems
  <2> QED BY <2>1, <2>2 DEF OneStale
<1> QED BY <1>1, <1>2, <1>3, <1>4 DEF TaskNext

LEMMA StaleLoop ==
  ASSUME Control, OneStale, Messages \/ OnDataPut \/ TickNext \/ LingerOver
  PROVE  OneStale'
<1>1. CASE OnOpen \/ OnClose \/ KeyChange \/ LingerOver
  BY <1>1, SameStale DEF OnOpen, OnClose, KeyChange, LingerOver
<1>2. CASE OnData
  <2>1. held'[1] = tid /\ UNCHANGED <<toLan, tid>>
    BY <1>2 DEF OnData
  <2> QED BY <2>1 DEF OneStale
<1>3. CASE OnDataPut
  <2>1. /\ lp = "data" /\ lp' = "free" /\ held[1] \in Tids /\ UNCHANGED tid
        /\ toLan' = Put(toLan, held[1], TUN_LAN_QDEPTH)
    BY <1>3 DEF OnDataPut, Control, HeldOK
  <2>2. /\ toLan \in Seq(Tids) /\ Len(toLan') \in Len(toLan) .. Len(toLan) + 1
        /\ \A i \in 1 .. Len(toLan) : toLan'[i] = toLan[i]
        /\ \A i \in 1 .. Len(toLan') : i > Len(toLan) => toLan'[i] = held[1]
    BY <2>1, PutElems, Depths DEF Control, TunTypeOK
  <2>3. CASE held[1] = tid
    <3> SUFFICES ASSUME NEW i \in 1 .. Len(toLan'), NEW k \in 1 .. Len(toLan'),
                        toLan'[i] # tid, toLan'[k] # tid
                 PROVE  i = k
      BY <2>1 DEF OneStale
    <3>1. i \in 1 .. Len(toLan) /\ k \in 1 .. Len(toLan)
      BY <2>2, <2>3
    <3> QED BY <2>2, <3>1 DEF OneStale
  <2>4. CASE held[1] # tid
    <3>1. \A i \in 1 .. Len(toLan) : toLan[i] = tid
      BY <2>1, <2>4 DEF OneStale
    <3> QED BY <2>1, <2>2, <3>1 DEF OneStale
  <2> QED BY <2>3, <2>4
<1>4. CASE TickShutdown
  <2>1. toLan' = <<>> \/ UNCHANGED <<toLan, tid, lp, held>>
    BY <1>4 DEF TickShutdown
  <2> QED BY <2>1, SameStale, EmptyStale
<1>5. CASE TickBegin \/ TickStates \/ TickTake \/ TickLabel \/ TickSent \/ TickUnsent \/ TickEnd
  BY <1>5, SameStale DEF TickBegin, TickStates, TickTake, TickLabel, TickSent, TickUnsent, TickEnd
<1> QED BY <1>1, <1>2, <1>3, <1>4, <1>5 DEF Messages, TickNext

\* A set in which any two elements are equal has one element at most.
LEMMA AtMostOne ==
  ASSUME NEW S, \A x, y \in S : x = y
  PROVE  Cardinality(S) <= 1
<1>1. CASE S = {}
  BY <1>1, FS_EmptySet
<1>2. CASE S # {}
  <2>1. PICK x \in S : TRUE
    BY <1>2
  <2>2. S = {x}
    BY <2>1
  <2> QED BY <2>2, FS_Singleton
<1> QED BY <1>1, <1>2

-----------------------------------------------------------------------------
LEMMA TunInvInit == ASSUME TunInit PROVE TunInv
<1>1. TunTypeOK
  <2>1. cmdQ \in Seq(Cmds) /\ toLan \in Seq(Tids) /\ toBe \in Seq(Chunks) /\ stQ \in Seq(Reports)
    BY DEF TunInit
  <2>2. Len(cmdQ) <= CMDQ /\ Len(toLan) <= TUN_LAN_QDEPTH /\ Len(toBe) <= TUN_QDEPTH /\ Len(stQ) <= STQ
    BY Depths DEF TunInit
  <2> QED BY <2>1, <2>2 DEF TunInit, TunTypeOK
<1>2. HeldOK /\ TaskLives /\ ShutdownAsked
  BY Depths DEF TunInit, InHand, HeldOK, TaskLives, ShutdownAsked
<1>3. ReadBefore /\ QueuedInOrder /\ SentBefore /\ TunInOrder /\ OneStale
  BY DEF TunInit, ReadBefore, QueuedInOrder, SentBefore, TunInOrder, OneStale, InHand
<1>4. TidsOnce /\ ReadsTogether /\ LabelOK /\ TunLabelled
  BY DEF TunInit, TidsOnce, ReadsTogether, LabelOK, TunLabelled
<1> QED BY <1>1, <1>2, <1>3, <1>4 DEF TunInv

LEMMA TunInvNext == ASSUME TunInv, [TunNext]_tunVars PROVE TunInv'
<1>1. Control /\ Order /\ Once /\ Labels /\ OneStale
  BY DEF TunInv, Control, Order, Once, Labels
<1>2. CASE TunNext
  <2>1. Control'
    BY <1>1, <1>2, ControlTask, ControlPump, ControlMessages, ControlTick DEF TunNext, TaskNext
  <2>2. OneStale'
    BY <1>1, <1>2, StaleTask, StaleLoop DEF TunNext
  <2>3. Once'
    BY <1>1, <1>2, OnceTask, OnceLoop DEF TunNext
  <2>4. Order' /\ Labels'
    BY <1>1, <1>2, OrderNext, LabelsNext
  <2> QED BY <2>1, <2>2, <2>3, <2>4 DEF TunInv, Control, Order, Once, Labels
<1>3. CASE UNCHANGED tunVars
  BY <1>3 DEF tunVars, TunInv, TunTypeOK, InHand, HeldOK, TaskLives, ShutdownAsked, ReadBefore,
              QueuedInOrder, SentBefore, TunInOrder, TidsOnce, Unused, ReadsTogether, LabelOK,
              Rightly, TunLabelled, OneStale
<1> QED BY <1>2, <1>3

\* Every reachable state of the tunnel satisfies the inductive invariant: the
\* teardown's flags, the order of the chunks from the socket to the backend, and
\* that every tid serves one session, which decides what a label can be.
THEOREM TunInvariant == TunSpec => []TunInv
<1>1. TunInit => TunInv
  BY TunInvInit
<1>2. TunInv /\ [TunNext]_tunVars => TunInv'
  BY TunInvNext
<1> QED BY <1>1, <1>2, PTL DEF TunSpec

\* Queues and buffers are freed only when the task is gone and no session is
\* open, whatever was queued when the teardown began (tunnel.cpp, tun_free_all).
THEOREM TunSafelyFreed == TunSpec => []TunFreedSafely
<1>1. TunInv => TunFreedSafely
  BY DEF TunInv, TunTypeOK, TaskLives, ShutdownAsked, TunFreedSafely
<1> QED BY <1>1, TunInvariant, PTL

\* For all queue depths and any number of sessions: the types, chunks that never
\* change places, frames that carry another tid than their chunk's session only
\* when that is over, and at most one chunk for the LAN that outlives its session
\* (tunnel.cpp, pump_io, tunnel_tick, tunnel_on_data).
THEOREM TunAlwaysConsistent == TunSpec => []TunConsistent
<1>1. TunInv => TunConsistent
  <2> SUFFICES ASSUME TunInv PROVE TunStaleBounded
    BY DEF TunInv, TunConsistent
  <2>1. \A i, k \in {j \in 1 .. Len(toLan) : toLan[j] # tid} : i = k
    BY DEF TunInv, OneStale
  <2> QED BY <2>1, AtMostOne DEF TunStaleBounded
<1> QED BY <1>1, TunInvariant, PTL
=============================================================================
