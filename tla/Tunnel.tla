------------------------------- MODULE Tunnel -------------------------------
(***************************************************************************)
(* src/src/tunnel.cpp: the remote terminal, a pipe between one LAN socket  *)
(* and the backend.                                                        *)
(*                                                                         *)
(* Two threads.  tun_task owns the socket; the loop owns the WebSocket and *)
(* creates and frees the subsystem.  They meet in four queues and in the   *)
(* unlocked variables s_state, s_tid and s_task_dead.  The task has the    *)
(* higher priority, so the loop never runs in the middle of one of its     *)
(* steps except while connect() blocks; the task can run between any two   *)
(* steps of the loop.                                                      *)
(*                                                                         *)
(* A chunk is plain bytes and knows no session.  One bound for the backend *)
(* stands here for its number in the order of reading, one bound for the   *)
(* LAN for the session it was accepted in; no step looks at either.        *)
(***************************************************************************)
EXTENDS Naturals, Sequences, FiniteSets

CONSTANTS Tids,                       \* tunnel ids of the backend, positive
          CMDQ, TUN_LAN_QDEPTH, TUN_QDEPTH, STQ,    \* queue depths
          MaxReads,                   \* bound: chunks read from the LAN
          MaxData                     \* bound: chunks the backend sends

ASSUME TunnelAssumption ==
    /\ Tids \subseteq Nat \ {0}
    /\ {CMDQ, TUN_LAN_QDEPTH, TUN_QDEPTH, STQ} \subseteq Nat \ {0}
    /\ MaxReads \in Nat /\ MaxData \in Nat

VARIABLES
    key,                        \* pairing_has_key()
    up,                         \* s_up: queues and task exist
    state, tid,                 \* s_state, s_tid
    cmdQ, toLan, toBe, stQ,     \* the queues
    shutdownReq, taskDead,      \* s_shutdown_req, s_task_dead
    linger,                     \* s_idle_since: "none", "running", "over"
    task, target,               \* what the task does, the tid it is connecting for
    lp, held,                   \* where the loop is in this module, what it holds
    label,                      \* the tid in the frame the loop has built
    opened,                     \* history: tids the backend has opened
    readBy, datas,              \* history: the session of each chunk read; chunks from the backend
    got                         \* history: the frames the backend got

tunVars == <<key, up, state, tid, cmdQ, toLan, toBe, stQ, shutdownReq, taskDead,
             linger, task, target, lp, held, label, opened, readBy, datas, got>>

Chunks == 1 .. MaxReads
Frames == [tid : {0} \cup Tids, n : Chunks]
Cmds   == [op : {"OPEN"}, tid : Tids] \cup [op : {"CLOSE", "SHUTDOWN"}, tid : {0}]
Reports == [tid : Tids, st : {"open", "closed", "error"}]

TunInit ==
    /\ key \in BOOLEAN
    /\ up = FALSE /\ state = "IDLE" /\ tid = 0
    /\ cmdQ = <<>> /\ toLan = <<>> /\ toBe = <<>> /\ stQ = <<>>
    /\ shutdownReq = FALSE /\ taskDead = FALSE /\ linger = "none"
    /\ task = "none" /\ target = 0 /\ lp = "free" /\ held = <<>> /\ label = 0
    /\ opened = {} /\ datas = 0 /\ readBy = <<>> /\ got = <<>>

\* xQueueSend without waiting.
Put(q, x, depth) == IF Len(q) < depth THEN Append(q, x) ELSE q

\* push_state: a report that finds the queue full is dropped.
Push(t, st) == stQ' = Put(stQ, [tid |-> t, st |-> st], STQ)

-----------------------------------------------------------------------------
(* The task. *)

\* do_close: nothing if idle, else the bytes still bound for the LAN are dropped.
DoClose ==
    IF state = "IDLE" THEN UNCHANGED <<toLan, state, tid, stQ>>
    ELSE /\ toLan' = <<>>
         /\ state' = "IDLE" /\ tid' = 0
         /\ Push(tid, "closed")

\* The task takes a command: do_open up to connect(), do_close, or its end.  A
\* close is obeyed whatever tid it came for.
TaskCommand ==
    /\ task = "ready" /\ cmdQ # <<>>
    /\ cmdQ' = Tail(cmdQ)
    /\ LET c == Head(cmdQ)
       IN  \/ /\ c.op = "OPEN" /\ key /\ state = "IDLE"
              /\ \/ task' = "connecting" /\ target' = c.tid /\ UNCHANGED stQ
                 \/ Push(c.tid, "error") /\ UNCHANGED <<task, target>>   \* address refused
              /\ UNCHANGED <<toLan, state, tid, taskDead>>
           \/ /\ c.op = "OPEN" /\ (~key \/ state = "OPEN")
              /\ Push(c.tid, "error")
              /\ UNCHANGED <<toLan, state, tid, task, target, taskDead>>
           \/ /\ c.op = "CLOSE"
              /\ DoClose
              /\ UNCHANGED <<task, target, taskDead>>
           \/ /\ c.op = "SHUTDOWN"
              /\ DoClose
              /\ task' = "none" /\ taskDead' = TRUE
              /\ UNCHANGED target
    /\ UNCHANGED <<key, up, toBe, shutdownReq, linger, lp, held, label, opened, readBy, datas, got>>

\* connect() returns, up to TUN_CONNECT_MS later.
TaskConnected ==
    /\ task = "connecting"
    /\ task' = "ready" /\ target' = 0
    /\ \/ state' = "OPEN" /\ tid' = target /\ Push(target, "open")
       \/ Push(target, "error") /\ UNCHANGED <<state, tid>>
    /\ UNCHANGED <<key, up, cmdQ, toLan, toBe, shutdownReq, taskDead, linger, lp,
                   held, label, opened, readBy, datas, got>>

\* pump_io, LAN to backend: the chunk is out of the socket before it is known
\* whether the queue takes it.
PumpRead ==
    /\ task = "ready" /\ state = "OPEN"
    /\ Len(readBy) < MaxReads
    /\ readBy' = Append(readBy, tid)
    /\ toBe' = Put(toBe, Len(readBy) + 1, TUN_QDEPTH)
    /\ UNCHANGED <<key, up, state, tid, cmdQ, toLan, stQ, shutdownReq, taskDead,
                   linger, task, target, lp, held, label, opened, datas, got>>

\* pump_io, backend to LAN.
PumpWrite ==
    /\ task = "ready" /\ state = "OPEN"
    /\ toLan # <<>>
    /\ toLan' = Tail(toLan)
    /\ UNCHANGED <<key, up, state, tid, cmdQ, toBe, stQ, shutdownReq, taskDead,
                   linger, task, target, lp, held, label, opened, readBy, datas, got>>

\* pump_io: the peer has closed, TUN_IDLE_MS or TUN_SESSION_MS is over.
PumpClose ==
    /\ task = "ready" /\ state = "OPEN"
    /\ DoClose
    /\ UNCHANGED <<key, up, cmdQ, toBe, shutdownReq, taskDead, linger, task, target, lp,
                   held, label, opened, readBy, datas, got>>

TaskNext == TaskCommand \/ TaskConnected \/ PumpRead \/ PumpWrite \/ PumpClose

-----------------------------------------------------------------------------
(* The loop: messages of the backend. *)

\* tunnel_on_open.  Without a key, during a teardown or without memory the
\* backend is told at once; a full command queue is not noticed.
OnOpen ==
    /\ lp = "free"
    /\ key /\ ~shutdownReq
    /\ \E t \in Tids \ opened :
         /\ opened' = opened \cup {t}
         /\ IF up THEN UNCHANGED <<up, task, linger>>
            ELSE up' = TRUE /\ task' = "ready" /\ linger' = "none"
         /\ cmdQ' = Put(cmdQ, [op |-> "OPEN", tid |-> t], CMDQ)
    /\ UNCHANGED <<key, state, tid, toLan, toBe, stQ, shutdownReq, taskDead, lp,
                   held, label, target, readBy, datas, got>>

\* tunnel_on_close.
OnClose ==
    /\ lp = "free" /\ up
    /\ cmdQ' = Put(cmdQ, [op |-> "CLOSE", tid |-> 0], CMDQ)
    /\ UNCHANGED <<key, up, state, tid, toLan, toBe, stQ, shutdownReq, taskDead,
                   linger, task, target, lp, held, label, opened, readBy, datas, got>>

\* tunnel_on_data up to the decoded chunk: the session is checked here ...
OnData ==
    /\ lp = "free" /\ up
    /\ state = "OPEN"
    /\ datas < MaxData
    /\ datas' = datas + 1
    /\ lp' = "data" /\ held' = <<tid>>
    /\ UNCHANGED <<key, up, state, tid, cmdQ, toLan, toBe, stQ, shutdownReq,
                   taskDead, linger, task, target, label, opened, readBy, got>>

\* ... and the chunk queued here, up to 50 ms later; it is dropped if the queue
\* stays full.
OnDataPut ==
    /\ lp = "data"
    /\ toLan' = Put(toLan, held[1], TUN_LAN_QDEPTH)
    /\ lp' = "free" /\ held' = <<>>
    /\ UNCHANGED <<key, up, state, tid, cmdQ, toBe, stQ, shutdownReq, taskDead,
                   linger, task, target, label, opened, readBy, datas, got>>

\* pairing_add and pairing_clear, from the node's web page.
KeyChange ==
    /\ lp = "free"
    /\ key' = ~key
    /\ UNCHANGED <<up, state, tid, cmdQ, toLan, toBe, stQ, shutdownReq, taskDead,
                   linger, task, target, lp, held, label, opened, readBy, datas, got>>

-----------------------------------------------------------------------------
(* The loop: tunnel_tick. *)

\* Faulty variant of TickShutdown: the queues are freed once the task has been
\* told, without waiting for s_task_dead.
TickShutdownNoWait ==
    /\ lp = "free" /\ up /\ shutdownReq
    /\ \/ /\ Len(cmdQ) < CMDQ /\ ~taskDead
          /\ cmdQ' = Append(cmdQ, [op |-> "SHUTDOWN", tid |-> 0])
          /\ UNCHANGED <<up, toLan, toBe, stQ, shutdownReq, taskDead, linger>>
       \/ /\ \E i \in 1 .. Len(cmdQ) : cmdQ[i].op = "SHUTDOWN"
          /\ up' = FALSE /\ shutdownReq' = FALSE /\ taskDead' = FALSE /\ linger' = "none"
          /\ cmdQ' = <<>> /\ toLan' = <<>> /\ toBe' = <<>> /\ stQ' = <<>>
    /\ UNCHANGED <<key, state, tid, task, target, lp, held, label, opened, readBy, datas, got>>

\* A teardown in progress: repeat the command until the task has died, then
\* tun_free_all.
TickShutdown ==
    /\ lp = "free" /\ up /\ shutdownReq
    /\ \/ /\ ~taskDead
          /\ cmdQ' = Put(cmdQ, [op |-> "SHUTDOWN", tid |-> 0], CMDQ)
          /\ UNCHANGED <<up, toLan, toBe, stQ, shutdownReq, taskDead, linger>>
       \/ /\ taskDead
          /\ up' = FALSE /\ shutdownReq' = FALSE /\ taskDead' = FALSE /\ linger' = "none"
          /\ cmdQ' = <<>> /\ toLan' = <<>> /\ toBe' = <<>> /\ stQ' = <<>>
    /\ UNCHANGED <<key, state, tid, task, target, lp, held, label, opened, readBy, datas, got>>

TickBegin ==
    /\ lp = "free" /\ up /\ ~shutdownReq
    /\ lp' = "states"
    /\ UNCHANGED <<key, up, state, tid, cmdQ, toLan, toBe, stQ, shutdownReq,
                   taskDead, linger, task, target, held, label, opened, readBy, datas, got>>

\* All reports first.
TickStates ==
    /\ lp = "states"
    /\ IF stQ # <<>> THEN stQ' = Tail(stQ) /\ UNCHANGED lp
       ELSE lp' = "chunks" /\ UNCHANGED stQ
    /\ UNCHANGED <<key, up, state, tid, cmdQ, toLan, toBe, shutdownReq, taskDead,
                   linger, task, held, label, opened, readBy, datas, got, target>>

\* Then up to TUN_TICK_MAX chunks, each encoded and sent.
TickTake ==
    /\ lp = "chunks"
    /\ toBe # <<>>
    /\ held' = <<Head(toBe)>> /\ toBe' = Tail(toBe)
    /\ lp' = "encode"
    /\ UNCHANGED <<key, up, state, tid, cmdQ, toLan, stQ, shutdownReq, taskDead,
                   linger, task, target, label, opened, readBy, datas, got>>

\* The frame is built: it carries the tid of the session that is on now, none
\* (0) or another one than that of the chunk if this has closed.
TickLabel ==
    /\ lp = "encode"
    /\ label' = tid
    /\ lp' = "send"
    /\ UNCHANGED <<key, up, state, tid, cmdQ, toLan, toBe, stQ, shutdownReq, taskDead,
                   linger, task, target, held, opened, readBy, datas, got>>

TickSent ==
    /\ lp = "send"
    /\ got' = Append(got, [tid |-> label, n |-> held[1]])
    /\ lp' = "chunks" /\ held' = <<>> /\ label' = 0
    /\ UNCHANGED <<key, up, state, tid, cmdQ, toLan, toBe, stQ, shutdownReq,
                   taskDead, linger, task, target, opened, readBy, datas>>

\* Faulty variant of PutBack: the chunk rejoins the queue at its end.
PutBackLast(c) == Put(toBe, c, TUN_QDEPTH)

\* xQueueSendToFront, which fails if the task has filled the place meanwhile.
PutBack(c) == IF Len(toBe) < TUN_QDEPTH THEN <<c>> \o toBe ELSE toBe

\* ws_client_send_raw fails: put the chunk back without its label, end this
\* tick's sending.
TickUnsent ==
    /\ lp = "send"
    /\ toBe' = PutBack(held[1])
    /\ lp' = "end" /\ held' = <<>> /\ label' = 0
    /\ UNCHANGED <<key, up, state, tid, cmdQ, toLan, stQ, shutdownReq, taskDead,
                   linger, task, target, opened, readBy, datas, got>>

\* Faulty variant of TickEnd: the linger timer is not started.
TickEndNoLinger ==
    /\ lp \in {"chunks", "end"}
    /\ lp' = "free"
    /\ shutdownReq' = (state = "IDLE" /\ (~key \/ linger = "over"))
    /\ UNCHANGED <<key, up, state, tid, cmdQ, toLan, toBe, stQ, taskDead, linger, task, target,
                   held, label, opened, readBy, datas, got>>

\* The tick ends by deciding about the teardown.
TickEnd ==
    /\ lp \in {"chunks", "end"}
    /\ lp' = "free"
    /\ shutdownReq' = (state = "IDLE" /\ (~key \/ linger = "over"))
    /\ linger' = CASE state = "OPEN" -> "none"
                   [] state = "IDLE" /\ key /\ linger = "none" -> "running"
                   [] OTHER -> linger
    /\ UNCHANGED <<key, up, state, tid, cmdQ, toLan, toBe, stQ, taskDead, task, target,
                   held, label, opened, readBy, datas, got>>

\* TUN_TEARDOWN_MS have passed.
LingerOver ==
    /\ linger = "running"
    /\ linger' = "over"
    /\ UNCHANGED <<key, up, state, tid, cmdQ, toLan, toBe, stQ, shutdownReq,
                   taskDead, task, target, lp, held, label, opened, readBy, datas, got>>

TickNext == TickShutdown \/ TickBegin \/ TickStates \/ TickTake \/ TickLabel
            \/ TickSent \/ TickUnsent \/ TickEnd

Messages == OnOpen \/ OnClose \/ OnData \/ KeyChange

TunNext == TaskNext \/ Messages \/ OnDataPut \/ TickNext \/ LingerOver

TunSpec == TunInit /\ [][TunNext]_tunVars

\* The task is scheduled whenever it has something to do; a session ends at the
\* latest with TUN_SESSION_MS, the linger time with TUN_TEARDOWN_MS; the loop
\* finishes what it began and ticks on every pass.
FairTunSpec ==
    /\ TunSpec
    /\ WF_tunVars(TaskCommand) /\ WF_tunVars(TaskConnected) /\ WF_tunVars(PumpClose)
    /\ WF_tunVars(OnDataPut) /\ WF_tunVars(TickNext) /\ WF_tunVars(LingerOver)

-----------------------------------------------------------------------------
TunTypeOK ==
    /\ {key, up, shutdownReq, taskDead} \subseteq BOOLEAN
    /\ state \in {"IDLE", "OPEN"} /\ tid \in {0} \cup Tids
    /\ state = "OPEN" <=> tid # 0
    /\ cmdQ \in Seq(Cmds) /\ Len(cmdQ) <= CMDQ
    /\ toLan \in Seq(Tids) /\ Len(toLan) <= TUN_LAN_QDEPTH
    /\ toBe \in Seq(Chunks) /\ Len(toBe) <= TUN_QDEPTH
    /\ stQ \in Seq(Reports) /\ Len(stQ) <= STQ
    /\ linger \in {"none", "running", "over"}
    /\ task \in {"none", "ready", "connecting"} /\ target \in {0} \cup Tids
    /\ lp \in {"free", "data", "states", "chunks", "encode", "send", "end"}
    /\ label \in {0} \cup Tids

\* The queues and buffers are freed only when nobody can touch them again: the
\* task is gone for good and no session is open.  And a task that is asked to
\* end is never left behind with the subsystem marked as absent.
TunFreedSafely == ~up => task = "none" /\ state = "IDLE" /\ lp = "free" /\ ~taskDead

\* A chunk that failed to send and one read meanwhile never change places, and
\* none is sent twice, whatever the task does during the send.
TunInOrder == \A i, k \in DOMAIN got : i < k => got[i].n < got[k].n

\* tunnel.cpp:279: a frame carries the tid of its chunk's session, unless that
\* session is over; what was left of it goes out under no tid or a later one.
TunLabelled ==
    \A i \in DOMAIN got :
        LET own == readBy[got[i].n]
        IN  got[i].tid # own =>
                own # tid /\ \A m \in 1 .. got[i].n : readBy[m] # got[i].tid

\* tunnel.cpp:281 "do not lose a byte of SSH": between two chunks of a session
\* that reached the backend none is missing.
TunNoByteLost ==
    \A i \in DOMAIN got : \A k \in DOMAIN got :
        readBy[got[i].n] = readBy[got[k].n] =>
            \A n \in got[i].n .. got[k].n : \E j \in DOMAIN got : got[j].n = n

\* Of the chunks bound for the LAN at most one belongs to a session that is over:
\* the one the loop was queueing while the session closed.  All others leave
\* with their session.
TunStaleBounded == Cardinality({i \in 1 .. Len(toLan) : toLan[i] # tid}) <= 1

\* tunnel.h "zero footprint": once no more messages come, the subsystem gives its
\* memory back, whatever was queued or half done when they stopped.
TunRamReturned == <>[][~Messages]_tunVars => []<>~up

\* What moves through the four queues stays in order.  To the LAN at most one
\* chunk outlives its session; to the backend all that are queued do, but none
\* goes out under another tid as long as its own session is open.
TunConsistent == TunTypeOK /\ TunInOrder /\ TunLabelled /\ TunStaleBounded
=============================================================================
