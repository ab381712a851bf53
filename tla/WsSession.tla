----------------------------- MODULE WsSession -----------------------------
(***************************************************************************)
(* ws_client.cpp: the session of the firmware.  A connection is opened,    *)
(* the node says who it is and offers its half of a key, the backend       *)
(* answers with the other half, and from then on every frame is sealed.    *)
(* All of it runs in loop(): one event at a time, and a handler's sends    *)
(* are done before the next event.                                         *)
(*                                                                         *)
(* The backend and the network are external.  A connection keeps the order *)
(* of its frames; a frame may be delivered twice (the plain-text port has  *)
(* a proxy in between), and either end may be gone without the other's     *)
(* knowledge.  Message contents are left to the modules they are for.      *)
(***************************************************************************)
EXTENDS WsEnc

CONSTANT MaxQueue       \* frames under way in one direction
ASSUME QueueAssumption == MaxQueue \in Nat \ {0}

VARIABLES
    sock,               \* the node's end of the connection: "off", "closed", "open"
    s_fw_nonce,         \* number of the last offer, 0 before the first
    enc,                \* ws_enc.cpp
    g_ws_connected,
    toBe, toNode,       \* frames under way
    be,                 \* the backend's end: ws_enc state and the offer it got
    issued,             \* commands the backend sent so far
    handled             \* the last command the node dispatched

wsVars == <<sock, s_fw_nonce, enc, g_ws_connected, toBe, toNode, be, issued, handled>>

Plain(type, nonce) == [plain |-> TRUE, type |-> type, nonce |-> nonce]
Bin(e, m) == [plain |-> FALSE, key |-> e.key, seq |-> e.s_seq_tx, msg |-> m]
Msg(kind, n) == [kind |-> kind, n |-> n]
NoPeer == [offer |-> 0, enc |-> ws_enc_reset]

WsInit ==
    /\ sock = "off" /\ s_fw_nonce = 0 /\ enc = ws_enc_reset
    /\ g_ws_connected = FALSE
    /\ toBe = << >> /\ toNode = << >> /\ be = NoPeer
    /\ issued = 0 /\ handled = 0

\* ws_client_init, which without WiFi does nothing.
ws_client_init ==
    /\ sock = "off" /\ sock' = "closed"
    /\ UNCHANGED <<s_fw_nonce, enc, g_ws_connected, toBe, toNode, be, issued, handled>>

\* WStype_DISCONNECTED, and ws.disconnect, which raises it.
Gone ==
    /\ sock' = "closed" /\ g_ws_connected' = FALSE /\ enc' = ws_enc_reset
    /\ toBe' = << >> /\ toNode' = << >> /\ be' = NoPeer
    /\ UNCHANGED <<s_fw_nonce, issued, handled>>

\* Faulty variant of send_identify: the offer of the last connection again.
send_identifyAgain ==
    /\ s_fw_nonce' = (IF s_fw_nonce = 0 THEN 1 ELSE s_fw_nonce)
    /\ toBe' = <<Plain("identify", s_fw_nonce')>>

\* send_identify: a fresh half of the key with every connection.
send_identify ==
    /\ s_fw_nonce' = s_fw_nonce + 1
    /\ toBe' = <<Plain("identify", s_fw_nonce')>>

\* WStype_CONNECTED.
Connected ==
    /\ sock = "closed"
    /\ sock' = "open" /\ send_identify
    /\ be' = NoPeer /\ toNode' = << >>
    /\ UNCHANGED <<enc, g_ws_connected, issued, handled>>

ConnectionLost == sock = "open" /\ Gone

(***************************************************************************)
(* Sending.                                                                *)
(***************************************************************************)
\* ws_client_send_raw with a session: sealed, numbered and handed to the
\* socket, which may fail to take it.
Send(m) ==
    /\ g_ws_connected /\ enc.s_ready
    /\ enc' = ws_enc_seal(enc)
    /\ toBe' \in {toBe} \cup (IF Len(toBe) < MaxQueue THEN {Append(toBe, Bin(enc, m))} ELSE {})
    /\ UNCHANGED <<sock, s_fw_nonce, g_ws_connected, toNode, be, issued, handled>>

(***************************************************************************)
(* Receiving.                                                              *)
(***************************************************************************)
TextHead == sock = "open" /\ toNode # << >> /\ Head(toNode).plain
BinHead == sock = "open" /\ toNode # << >> /\ ~Head(toNode).plain
Consumed == toNode' = Tail(toNode)
Answer == TextHead /\ ~enc.s_ready /\ Head(toNode).type = "identified"

\* on_identified: the session is up, and an outage of a minute or more is
\* reported in its first frame.
on_identified ==
    /\ Answer /\ Head(toNode).nonce # 0
    /\ g_ws_connected' = TRUE /\ Consumed
    /\ \E outage \in BOOLEAN :
          LET e == ws_enc_derive(s_fw_nonce)
          IN  IF outage
              THEN enc' = ws_enc_seal(e) /\ toBe' = Append(toBe, Bin(e, Msg("outage", 0)))
              ELSE enc' = e /\ UNCHANGED toBe
    /\ UNCHANGED <<sock, s_fw_nonce, be, issued, handled>>

\* on_identified without the backend's half; with it, but no key comes of it.
IdentifiedInVain == Answer /\ Head(toNode).nonce = 0 /\ Gone
DeriveFails == Answer /\ Head(toNode).nonce # 0 /\ Gone

Ignored ==
    /\ Consumed
    /\ UNCHANGED <<sock, s_fw_nonce, enc, g_ws_connected, toBe, be, issued, handled>>

\* WStype_TEXT: plain text but the answer has no effect, before the key or after.
TextIgnored == TextHead /\ ~Answer /\ Ignored

\* WStype_BIN without a key.
BinDropped == BinHead /\ ~enc.s_ready /\ Ignored

\* WStype_BIN that does not open.
BinRefused == BinHead /\ enc.s_ready /\ ~Opens(enc, Head(toNode)) /\ Gone

\* WStype_BIN: opened and dispatched by its type.
handle_message(m) ==
    /\ BinHead /\ Opens(enc, Head(toNode)) /\ m = Head(toNode).msg
    /\ enc' = ws_enc_open(enc, Head(toNode))
    /\ handled' = (IF m.kind = "cmd" THEN m.n ELSE handled)
    /\ Consumed
    /\ UNCHANGED <<sock, s_fw_nonce, g_ws_connected, toBe, be, issued>>

(***************************************************************************)
(* The backend and the network.                                            *)
(***************************************************************************)
\* The answer to an offer, as it should be or (nonce 0) without its half.
BeIdentifies(nonce) ==
    /\ toBe # << >> /\ Head(toBe).plain /\ Len(toNode) < MaxQueue
    /\ toBe' = Tail(toBe)
    /\ be' = [offer |-> Head(toBe).nonce, enc |-> ws_enc_derive(Head(toBe).nonce)]
    /\ toNode' = Append(toNode, Plain("identified", nonce))
    /\ UNCHANGED <<sock, s_fw_nonce, enc, g_ws_connected, issued, handled>>

\* An offer that is never answered.
BeSilent ==
    /\ toBe # << >> /\ Head(toBe).plain
    /\ toBe' = Tail(toBe)
    /\ UNCHANGED <<sock, s_fw_nonce, enc, g_ws_connected, toNode, be, issued, handled>>

BeReceives(m) ==
    /\ toBe # << >> /\ ~Head(toBe).plain
    /\ Opens(be.enc, Head(toBe)) /\ m = Head(toBe).msg
    /\ toBe' = Tail(toBe) /\ be' = [be EXCEPT !.enc = ws_enc_open(@, Head(toBe))]
    /\ UNCHANGED <<sock, s_fw_nonce, enc, g_ws_connected, toNode, issued, handled>>

\* A message of the backend: the commands are numbered over all sessions.
BeSends(m) ==
    /\ be.enc.s_ready /\ Len(toNode) < MaxQueue
    /\ toNode' = Append(toNode, Bin(be.enc, m))
    /\ be' = [be EXCEPT !.enc = ws_enc_seal(@)]
    /\ issued' = (IF m.kind = "cmd" THEN m.n ELSE issued)
    /\ UNCHANGED <<sock, s_fw_nonce, enc, g_ws_connected, toBe, handled>>

\* An error in plain text, at any time.
BeComplains ==
    /\ be.enc.s_ready /\ Len(toNode) < MaxQueue
    /\ toNode' = Append(toNode, Plain("error", 0))
    /\ UNCHANGED <<sock, s_fw_nonce, enc, g_ws_connected, toBe, be, issued, handled>>

\* A frame delivered again, some frames later.
FrameRepeated ==
    /\ toNode # << >> /\ Len(toNode) < MaxQueue
    /\ toNode' = Append(toNode, Head(toNode))
    /\ UNCHANGED <<sock, s_fw_nonce, enc, g_ws_connected, toBe, be, issued, handled>>

\* ws_wd_restart, five minutes after an offer that nobody answered (WsWatchdog
\* has the probes it waits for): the connection goes with the RAM.
WatchdogRestarts ==
    /\ sock = "open" /\ ~g_ws_connected /\ toBe = << >> /\ toNode = << >>
    /\ Gone

(***************************************************************************)
(* Properties.                                                             *)
(***************************************************************************)
\* The session's parts agree: who is connected has a key, made of the offer of
\* this connection, and the backend's end never counted further than the node's.
WsConsistent ==
    /\ g_ws_connected <=> enc.s_ready
    /\ enc.s_ready => sock = "open" /\ enc.key = s_fw_nonce
    /\ be.offer \in {0, s_fw_nonce}
    /\ be.enc.s_rx_init => be.enc.s_seq_rx < enc.s_seq_tx
    /\ enc.s_rx_init => enc.s_seq_rx < be.enc.s_seq_tx
    /\ handled <= issued

\* Commands take effect in the order of their sending and none twice, whatever
\* the connections do in between (ws_enc_open's sequence check, the reset on
\* WStype_DISCONNECTED).
CommandsInOrder == [][handled' # handled => handled' > handled]_wsVars
=============================================================================
