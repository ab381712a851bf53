--------------------------- MODULE SessionProofs ---------------------------
(***************************************************************************)
(* Proofs about the two sessions with the backend, for any number of       *)
(* connections, frames, commands and requests: the firmware's and the      *)
(* container's each implement Session, commands take effect in order, and  *)
(* an add-on gets the token of its own request.                            *)
(***************************************************************************)
EXTENDS Sessions, FiniteSetTheorems, SequenceTheorems, TLAPS

Encs == [s_ready : BOOLEAN, key : Nat, s_seq_tx : Nat, s_seq_rx : Nat, s_rx_init : BOOLEAN]
Msgs == [kind : {"cmd", "grant", "deny", "outage", "data", "ask"}, n : Nat]
Texts == [plain : {TRUE}, type : {"identify", "identified", "error"}, nonce : Nat]
Sealed == [plain : {FALSE}, key : Nat, seq : Nat, msg : Msgs]
Frames == Texts \cup Sealed

(***************************************************************************)
(* The firmware's inductive invariant.                                     *)
(***************************************************************************)
WsTypeOK ==
    /\ sock \in {"off", "closed", "open"}
    /\ s_fw_nonce \in Nat /\ issued \in Nat /\ handled \in Nat
    /\ enc \in Encs /\ be \in [offer : Nat, enc : Encs]
    /\ g_ws_connected \in BOOLEAN
    /\ toBe \in Seq(Frames) /\ toNode \in Seq(Frames)

\* Nothing is under way, and no key is known, outside of a connection and before
\* its handshake.
NoConnection ==
    /\ sock # "open" => toBe = <<>> /\ toNode = <<>> /\ be = NoPeer /\ ~enc.s_ready
    /\ ~enc.s_ready => enc = ws_enc_reset

\* An offer is the first frame to the backend, which knows of none before it.
OfferFirst ==
    \A i \in 1 .. Len(toBe) :
        toBe[i].plain => i = 1 /\ toBe[i].nonce = s_fw_nonce /\ be = NoPeer

\* Sealed frames carry the numbers their end has given already.
Numbered ==
    /\ \A i \in 1 .. Len(toBe) : ~toBe[i].plain => toBe[i].seq < enc.s_seq_tx
    /\ \A i \in 1 .. Len(toNode) : ~toNode[i].plain => toNode[i].seq < be.enc.s_seq_tx

\* A command under way is newer than those before it, and if it can still be
\* opened, newer than the last one handled.
IsCmd(f) == ~f.plain /\ f.msg.kind = "cmd"
CommandsRise ==
    /\ \A i \in 1 .. Len(toNode) : IsCmd(toNode[i]) => toNode[i].msg.n <= issued
    /\ \A i, k \in 1 .. Len(toNode) :
          IsCmd(toNode[i]) /\ IsCmd(toNode[k]) /\ toNode[i].seq < toNode[k].seq
             => toNode[i].msg.n < toNode[k].msg.n
    /\ \A i \in 1 .. Len(toNode) :
          IsCmd(toNode[i]) /\ (enc.s_rx_init => toNode[i].seq > enc.s_seq_rx)
             => toNode[i].msg.n > handled

WsInv ==
    /\ WsTypeOK /\ NoConnection /\ OfferFirst /\ Numbered /\ CommandsRise /\ WsConsistent

\* The add-on's side.
ExtInv ==
    /\ s_req \in Nat /\ s_token \in Nat
    /\ s_token # 0 => s_state = "GRANTED"
    /\ s_state = "GRANTED" => s_token = s_req
    /\ asked \subseteq Nat

(***************************************************************************)
(* The container's.                                                        *)
(***************************************************************************)
DkSealed == [plain : {FALSE}, key : Nat, seq : Nat]
DkTexts == [plain : {TRUE}, nonce : Nat]

SockStates == {"connecting", "open", "closing", "closed"}

DkTypeOK ==
    /\ dkMode \in {"firmware", "ingest"}
    /\ stage \in {"register", "run", "stopping", "exited"}
    /\ socks \in Seq(SockStates)
    /\ hs \in SUBSET (1 .. Len(socks)) /\ reconnects \in {0, 1}
    /\ dkEnc \in Encs /\ peer \in Encs /\ fwNonce \in Nat
    /\ intervals \in {0, 1}
    /\ frames \in Seq(DkTexts \cup DkSealed)

\* Only the last socket may still speak, and a timer runs exactly when it does not.
OnlyLast(q) == \A s \in 1 .. Len(q) : q[s] # "closed" => s = Len(q)
Speaks(q) == q # <<>> /\ q[Len(q)] # "closed"
Opened(q) == q # <<>> /\ q[Len(q)] \in {"open", "closing"}

LastSocketOnly ==
    /\ OnlyLast(socks)
    /\ Speaks(socks) => reconnects = 0
    /\ dkMode = "firmware" /\ stage = "run" => Speaks(socks) \/ reconnects = 1
    /\ stage # "run" => reconnects = 0
    /\ dkMode = "ingest" \/ stage = "register" => socks = <<>> /\ reconnects = 0

\* A key belongs to a socket that was open; the flags say what the client knows.
KeyOfSocket ==
    /\ dkEnc.s_ready => Opened(socks)
    /\ ~dkEnc.s_ready => dkEnc = ws_enc_reset
    /\ connected = dkEnc.s_ready
    /\ nodeState = [wsConnected |-> connected, encrypted |-> connected]

DkInv == DkTypeOK /\ LastSocketOnly /\ KeyOfSocket

-----------------------------------------------------------------------------
(* What ws_enc.cpp and wsenc.js do to their state.                         *)

LEMMA EncReset ==
  /\ ws_enc_reset \in Encs /\ ~ws_enc_reset.s_ready /\ ~ws_enc_reset.s_rx_init
  /\ ws_enc_reset.s_seq_tx = 0 /\ LastOpened(ws_enc_reset) = -1
BY DEF Encs, ws_enc_reset, NoKey, LastOpened

LEMMA EncDerived ==
  ASSUME NEW n \in Nat, NEW e, e = ws_enc_derive(n)
  PROVE  /\ e \in Encs /\ e.s_ready /\ e.key = n /\ ~e.s_rx_init
         /\ e.s_seq_tx = 0 /\ LastOpened(e) = -1
BY DEF Encs, ws_enc_derive, ws_enc_reset, NoKey, LastOpened

LEMMA EncSealed ==
  ASSUME NEW d \in Encs, NEW e, e = ws_enc_seal(d)
  PROVE  /\ e \in Encs /\ e.s_ready = d.s_ready /\ e.key = d.key
         /\ e.s_rx_init = d.s_rx_init /\ e.s_seq_rx = d.s_seq_rx
         /\ e.s_seq_tx = d.s_seq_tx + 1 /\ LastOpened(e) = LastOpened(d)
BY DEF Encs, ws_enc_seal, LastOpened

LEMMA EncOpened ==
  ASSUME NEW d \in Encs, NEW f, f.seq \in Nat, NEW e, e = ws_enc_open(d, f)
  PROVE  /\ e \in Encs /\ e.s_ready = d.s_ready /\ e.key = d.key
         /\ e.s_rx_init /\ e.s_seq_rx = f.seq /\ e.s_seq_tx = d.s_seq_tx
         /\ Opens(d, f) => LastOpened(e) > LastOpened(d)
<1>1. e = [s_ready |-> d.s_ready, key |-> d.key, s_seq_tx |-> d.s_seq_tx, s_seq_rx |-> f.seq,
           s_rx_init |-> TRUE]
  BY DEF Encs, ws_enc_open
<1>2. LastOpened(e) = f.seq
  BY <1>1 DEF LastOpened
<1>3. Opens(d, f) => LastOpened(d) < f.seq
  BY DEF Encs, LastOpened, Opens
<1> QED BY <1>1, <1>2, <1>3 DEF Encs

\* Queues of frames.
LEMMA QueueTail ==
  ASSUME NEW S, NEW q \in Seq(S), q # <<>>
  PROVE  /\ Tail(q) \in Seq(S) /\ Len(Tail(q)) = Len(q) - 1
         /\ Head(q) = q[1] /\ q[1] \in S /\ 1 \in 1 .. Len(q)
         /\ \A i \in 1 .. Len(Tail(q)) : Tail(q)[i] = q[i + 1] /\ i + 1 \in 2 .. Len(q)
OBVIOUS

LEMMA QueueAppend ==
  ASSUME NEW S, NEW q \in Seq(S), NEW x \in S
  PROVE  /\ Append(q, x) \in Seq(S) /\ Len(Append(q, x)) = Len(q) + 1 /\ Len(q) \in Nat
         /\ Append(q, x)[Len(q) + 1] = x
         /\ \A i \in 1 .. Len(Append(q, x)) :
               \/ i \in 1 .. Len(q) /\ Append(q, x)[i] = q[i]
               \/ i = Len(q) + 1 /\ Append(q, x)[i] = x
OBVIOUS

-----------------------------------------------------------------------------
(* The container: what its callbacks do to the sockets.                    *)

LEMMA SocketMade ==
  ASSUME NEW q \in Seq(SockStates), OnlyLast(q), ~Speaks(q),
         NEW r, r = Append(q, "connecting")
  PROVE  /\ r \in Seq(SockStates) /\ Len(r) = Len(q) + 1 /\ r # <<>>
         /\ OnlyLast(r) /\ Speaks(r) /\ ~Opened(r)
<1>1. /\ r \in Seq(SockStates) /\ Len(r) = Len(q) + 1 /\ Len(q) \in Nat /\ r[Len(r)] = "connecting"
      /\ \A i \in 1 .. Len(r) : i # Len(r) => i \in 1 .. Len(q) /\ r[i] = q[i]
  BY QueueAppend DEF SockStates
<1>2. \A i \in 1 .. Len(q) : q[i] = "closed"
  BY DEF OnlyLast, Speaks
<1> QED BY <1>1, <1>2 DEF OnlyLast, Speaks, Opened

LEMMA SocketChanged ==
  ASSUME NEW q \in Seq(SockStates), OnlyLast(q), NEW s \in 1 .. Len(q), q[s] # "closed",
         NEW x \in SockStates, NEW r, r = [q EXCEPT ![s] = x]
  PROVE  /\ r \in Seq(SockStates) /\ Len(r) = Len(q) /\ r # <<>>
         /\ OnlyLast(r) /\ (Speaks(r) <=> x # "closed") /\ (Opened(r) <=> x \in {"open", "closing"})
<1>1. /\ r \in Seq(SockStates) /\ Len(r) = Len(q) /\ r[s] = x
      /\ \A i \in 1 .. Len(q) : i # s => r[i] = q[i]
  BY ExceptSeq
<1>2. s = Len(q) /\ Len(q) >= 1
  BY DEF OnlyLast
<1>3. r # <<>> /\ r[Len(r)] = x
  BY <1>1, <1>2
<1>4. OnlyLast(r)
  BY <1>1, <1>2 DEF OnlyLast
<1> QED BY <1>1, <1>3, <1>4 DEF Speaks, Opened

\* close() of a socket, open or not.
LEMMA SocketClosing ==
  ASSUME NEW q \in Seq(SockStates), OnlyLast(q), NEW s \in 1 .. Len(q),
         NEW r, r = [q EXCEPT ![s] = IF @ = "open" THEN "closing" ELSE @]
  PROVE  /\ r \in Seq(SockStates) /\ Len(r) = Len(q) /\ r # <<>>
         /\ OnlyLast(r) /\ (Speaks(r) <=> Speaks(q)) /\ (Opened(r) <=> Opened(q))
<1>0. q[s] \in SockStates
  OBVIOUS
<1>1. CASE q[s] = "open"
  <2>1. r = [q EXCEPT ![s] = "closing"] /\ "closing" \in SockStates
    BY <1>1 DEF SockStates
  <2>2. s = Len(q) /\ q # <<>>
    BY <1>1 DEF OnlyLast
  <2>3. /\ r \in Seq(SockStates) /\ Len(r) = Len(q) /\ r # <<>> /\ OnlyLast(r)
        /\ Speaks(r) /\ Opened(r)
    BY <1>1, <2>1, SocketChanged
  <2> QED BY <1>1, <2>2, <2>3 DEF Speaks, Opened
<1>2. CASE q[s] # "open"
  <2>1. r = q /\ q # <<>>
    BY <1>2
  <2> QED BY <2>1
<1> QED BY <1>1, <1>2

\* The model's Alive and phase in these terms.
LEMMA AliveIs ==
  ASSUME DkTypeOK
  PROVE  /\ \A s \in Alive : s \in 1 .. Len(socks) /\ socks[s] # "closed"
         /\ cur \in Alive <=> Speaks(socks)
         /\ Alive # {} /\ socks[cur] \in {"open", "closing"} <=> Opened(socks)
         /\ IsOpen(cur) => Opened(socks)
BY DEF DkTypeOK, SockStates, Alive, cur, Speaks, Opened, IsOpen

LEMMA PhaseIs ==
  ASSUME DkTypeOK
  PROVE  dkPhase = IF dkEnc.s_ready THEN "live" ELSE IF Opened(socks) THEN "offered" ELSE "down"
BY AliveIs DEF dkPhase

LEMMA PhaseNextIs ==
  ASSUME DkTypeOK'
  PROVE  dkPhase' = IF dkEnc'.s_ready THEN "live" ELSE IF Opened(socks') THEN "offered" ELSE "down"
<1>1. Alive' # {} /\ socks'[cur'] \in {"open", "closing"} <=> Opened(socks')
  BY DEF DkTypeOK, SockStates, Alive, cur, Opened
<1> QED BY <1>1 DEF dkPhase

\* A callback that leaves the sockets and the client's flags alone: it may seal
\* or open a frame of the session there is.
LEMMA DkKeeps ==
  ASSUME DkInv,
         UNCHANGED <<dkMode, stage, socks, hs, reconnects, fwNonce, connected, nodeState>>,
         intervals' \in {0, 1}, peer' \in Encs, frames' \in Seq(DkTexts \cup DkSealed),
         \/ dkEnc' = dkEnc
         \/ /\ dkEnc.s_ready
            /\ \/ dkEnc' = ws_enc_seal(dkEnc)
               \/ \E f \in DkSealed : Opens(dkEnc, f) /\ dkEnc' = ws_enc_open(dkEnc, f)
  PROVE  DkInv' /\ [AbstractDocker!Next]_(AbstractDocker!sessionVars)
<1>1. dkEnc \in Encs /\ DkTypeOK
  BY DEF DkInv, DkTypeOK
<1>2. CASE dkEnc' = dkEnc
  <2>1. DkInv'
    BY <1>2 DEF DkInv, DkTypeOK, LastSocketOnly, KeyOfSocket, cur
  <2>2. dkPhase' = dkPhase
    BY <1>1, <1>2, <2>1, PhaseIs, PhaseNextIs DEF DkInv
  <2> QED BY <1>2, <2>1, <2>2 DEF AbstractDocker!sessionVars, LastOpened
<1>3. CASE dkEnc.s_ready /\ dkEnc' = ws_enc_seal(dkEnc)
  <2>1. dkEnc' \in Encs /\ dkEnc'.s_ready
    BY <1>1, <1>3, EncSealed
  <2>2. DkInv'
    BY <1>3, <2>1 DEF DkInv, DkTypeOK, LastSocketOnly, KeyOfSocket, cur
  <2>3. dkPhase = "live" /\ dkPhase' = "live"
    BY <1>1, <1>3, <2>1, <2>2, PhaseIs, PhaseNextIs DEF DkInv
  <2>4. dkEnc'.s_seq_tx = dkEnc.s_seq_tx + 1 /\ LastOpened(dkEnc)' = LastOpened(dkEnc)
    BY <1>1, <1>3, EncSealed DEF LastOpened
  <2> QED BY <2>2, <2>3, <2>4 DEF AbstractDocker!Next, AbstractDocker!Seal
<1>4. ASSUME dkEnc.s_ready, NEW f \in DkSealed, Opens(dkEnc, f), dkEnc' = ws_enc_open(dkEnc, f)
      PROVE  DkInv' /\ [AbstractDocker!Next]_(AbstractDocker!sessionVars)
  <2>0. f.seq \in Nat
    BY DEF DkSealed
  <2>1. dkEnc' \in Encs /\ dkEnc'.s_ready
    BY <1>1, <1>4, <2>0, EncOpened
  <2>2. DkInv'
    BY <1>4, <2>1 DEF DkInv, DkTypeOK, LastSocketOnly, KeyOfSocket, cur
  <2>3. dkPhase = "live" /\ dkPhase' = "live"
    BY <1>1, <1>4, <2>1, <2>2, PhaseIs, PhaseNextIs DEF DkInv
  <2>4. dkEnc'.s_seq_tx = dkEnc.s_seq_tx /\ LastOpened(dkEnc)' > LastOpened(dkEnc)
    BY <1>1, <1>4, <2>0, EncOpened DEF LastOpened
  <2> QED BY <2>2, <2>3, <2>4 DEF AbstractDocker!Next, AbstractDocker!Open
<1> QED BY <1>2, <1>3, <1>4

\* A callback that closes a socket that is open, if any.
LEMMA DkCloses ==
  ASSUME DkInv, NEW s \in 1 .. Len(socks), socks' \in {socks, Closing(s)}, hs' \subseteq hs,
         UNCHANGED <<dkMode, stage, reconnects, dkEnc, fwNonce, connected, nodeState>>,
         intervals' \in {0, 1}, peer' \in Encs, frames' \in Seq(DkTexts \cup DkSealed)
  PROVE  DkInv' /\ [AbstractDocker!Next]_(AbstractDocker!sessionVars)
<1>1. /\ socks' \in Seq(SockStates) /\ Len(socks') = Len(socks) /\ OnlyLast(socks') /\ socks' # <<>>
      /\ (Speaks(socks') <=> Speaks(socks)) /\ (Opened(socks') <=> Opened(socks)) /\ socks # <<>>
  BY SocketClosing DEF DkInv, DkTypeOK, LastSocketOnly, Closing
<1>2. DkInv'
  BY <1>1 DEF DkInv, DkTypeOK, LastSocketOnly, KeyOfSocket
<1>3. dkPhase' = dkPhase
  BY <1>1, <1>2, PhaseIs, PhaseNextIs DEF DkInv
<1> QED BY <1>2, <1>3 DEF AbstractDocker!sessionVars, LastOpened

LEMMA DkOpens ==
  ASSUME DkInv, NEW s \in Alive, SocketOpens(s)
  PROVE  DkInv' /\ AbstractDocker!Offer
<1>0. /\ DkTypeOK /\ OnlyLast(socks) /\ socks \in Seq(SockStates) /\ hs \subseteq 1 .. Len(socks)
      /\ dkEnc \in Encs /\ fwNonce \in Nat
  BY DEF DkInv, DkTypeOK, LastSocketOnly
<1>1. s \in 1 .. Len(socks) /\ socks[s] = "connecting" /\ s = Len(socks)
  BY <1>0, AliveIs DEF OnlyLast, SocketOpens
<1>2. Speaks(socks) /\ ~Opened(socks) /\ socks # <<>>
  BY <1>1 DEF Speaks, Opened
<1>3. /\ socks' \in Seq(SockStates) /\ Len(socks') = Len(socks) /\ OnlyLast(socks') /\ socks' # <<>>
      /\ Speaks(socks') /\ Opened(socks')
  <2>1. PICK x \in SockStates : x = "open"
    BY DEF SockStates
  <2>2. /\ socks \in Seq(SockStates) /\ OnlyLast(socks) /\ s \in 1 .. Len(socks)
        /\ socks' = [socks EXCEPT ![s] = x] /\ socks[s] # "closed"
    BY <1>0, <1>1, <2>1 DEF SocketOpens
  <2>3. /\ socks' \in Seq(SockStates) /\ Len(socks') = Len(socks) /\ OnlyLast(socks') /\ socks' # <<>>
        /\ (Speaks(socks') <=> x # "closed") /\ (Opened(socks') <=> x \in {"open", "closing"})
    BY <2>2, SocketChanged
  <2> QED BY <2>1, <2>3
<1>4. ~dkEnc.s_ready
  BY <1>2 DEF DkInv, KeyOfSocket
<1>5. /\ fwNonce' = fwNonce + 1 /\ hs' = hs \cup {s} /\ frames' = <<>> /\ peer' = ws_enc_reset
      /\ UNCHANGED <<dkMode, stage, reconnects, dkEnc, connected, nodeState, intervals>>
  BY DEF SocketOpens, runVars
<1>6. DkTypeOK'
  <2>1. hs' \in SUBSET (1 .. Len(socks'))
    BY <1>0, <1>1, <1>3, <1>5
  <2>2. frames' \in Seq(DkTexts \cup DkSealed)
    BY <1>5
  <2>3. peer' \in Encs
    BY <1>5, EncReset
  <2> QED BY <1>0, <1>3, <1>5, <2>1, <2>2, <2>3 DEF DkTypeOK
<1>7. DkInv'
  <2>1. LastSocketOnly'
    BY <1>2, <1>3, <1>5 DEF DkInv, LastSocketOnly
  <2>2. KeyOfSocket'
    BY <1>3, <1>5 DEF DkInv, KeyOfSocket
  <2> QED BY <1>6, <2>1, <2>2 DEF DkInv
<1>8. dkPhase = "down" /\ dkPhase' = "offered"
  BY <1>0, <1>2, <1>3, <1>4, <1>5, <1>6, PhaseIs, PhaseNextIs
<1> QED BY <1>5, <1>7, <1>8 DEF AbstractDocker!Offer, LastOpened

LEMMA DkClosed ==
  ASSUME DkInv, NEW s \in Alive, SocketCloses(s), stage # "exited"
  PROVE  DkInv' /\ [AbstractDocker!Next]_(AbstractDocker!sessionVars)
<1>0. /\ DkTypeOK /\ OnlyLast(socks) /\ socks \in Seq(SockStates) /\ hs \subseteq 1 .. Len(socks)
      /\ stage \in {"register", "run", "stopping", "exited"} /\ dkMode \in {"firmware", "ingest"}
  BY DEF DkInv, DkTypeOK, LastSocketOnly
<1>1. s \in 1 .. Len(socks) /\ socks[s] # "closed" /\ s = Len(socks)
  BY <1>0, AliveIs DEF OnlyLast
<1>2. Speaks(socks) /\ socks # <<>>
  BY <1>1 DEF Speaks
<1>3. /\ socks' \in Seq(SockStates) /\ Len(socks') = Len(socks) /\ OnlyLast(socks')
      /\ ~Speaks(socks') /\ ~Opened(socks')
  <2>1. PICK x \in SockStates : x = "closed"
    BY DEF SockStates
  <2>2. /\ socks \in Seq(SockStates) /\ OnlyLast(socks) /\ s \in 1 .. Len(socks)
        /\ socks' = [socks EXCEPT ![s] = x] /\ socks[s] # "closed"
    BY <1>0, <1>1, <2>1 DEF SocketCloses
  <2>3. /\ socks' \in Seq(SockStates) /\ Len(socks') = Len(socks) /\ OnlyLast(socks')
        /\ (Speaks(socks') <=> x # "closed") /\ (Opened(socks') <=> x \in {"open", "closing"})
    BY <2>2, SocketChanged
  <2> QED BY <2>1, <2>3
<1>4. dkMode = "firmware" /\ stage \in {"run", "stopping"} /\ reconnects = 0
  BY <1>0, <1>2 DEF DkInv, LastSocketOnly
<1>5. /\ reconnects' = (IF stage = "run" THEN 1 ELSE 0)
      /\ hs' \subseteq hs /\ frames' = <<>> /\ connected' = FALSE /\ dkEnc' = ws_enc_reset
      /\ nodeState' = [wsConnected |-> FALSE, encrypted |-> FALSE]
      /\ UNCHANGED <<dkMode, stage, fwNonce, intervals, peer>>
  BY <1>4 DEF SocketCloses, scheduleReconnect
<1>6. DkTypeOK'
  <2>1. hs' \in SUBSET (1 .. Len(socks')) /\ dkEnc' \in Encs /\ frames' \in Seq(DkTexts \cup DkSealed)
    BY <1>0, <1>3, <1>5, EncReset
  <2> QED BY <1>3, <1>4, <1>5, <2>1 DEF DkInv, DkTypeOK
<1>7. DkInv'
  <2>1. LastSocketOnly'
    BY <1>3, <1>4, <1>5 DEF LastSocketOnly
  <2>2. KeyOfSocket'
    BY <1>5 DEF KeyOfSocket, ws_enc_reset
  <2> QED BY <1>6, <2>1, <2>2 DEF DkInv
<1>8. dkPhase' = "down"
  BY <1>3, <1>5, <1>6, PhaseNextIs, EncReset
<1>9. dkEnc'.s_seq_tx = 0 /\ LastOpened(dkEnc)' = -1
  BY <1>5, EncReset DEF LastOpened
<1>10. CASE dkPhase = "down"
  <2>1. dkEnc = ws_enc_reset
    BY <1>0, <1>10, PhaseIs DEF DkInv, KeyOfSocket
  <2> QED BY <1>5, <1>7, <1>8, <1>10, <2>1 DEF AbstractDocker!sessionVars, LastOpened
<1>11. CASE dkPhase # "down"
  BY <1>5, <1>7, <1>8, <1>9, <1>11 DEF AbstractDocker!Next, AbstractDocker!End
<1> QED BY <1>10, <1>11

\* connect(), when no socket speaks any more.
LEMMA DkConnects ==
  ASSUME DkInv, ~Speaks(socks), socks' = Append(socks, "connecting"),
         dkMode = "firmware", stage' = "run", reconnects' = 0,
         UNCHANGED <<dkMode, hs, dkEnc, fwNonce, connected, nodeState, intervals, peer, frames>>
  PROVE  DkInv' /\ [AbstractDocker!Next]_(AbstractDocker!sessionVars)
<1>0. /\ DkTypeOK /\ OnlyLast(socks) /\ socks \in Seq(SockStates) /\ hs \subseteq 1 .. Len(socks)
      /\ Len(socks) \in Nat
  BY DEF DkInv, DkTypeOK, LastSocketOnly
<1>1. /\ socks' \in Seq(SockStates) /\ Len(socks') = Len(socks) + 1 /\ OnlyLast(socks')
      /\ Speaks(socks') /\ ~Opened(socks')
  BY <1>0, SocketMade
<1>2. ~Opened(socks) /\ ~dkEnc.s_ready
  <2>1. ~Opened(socks)
    BY DEF Speaks, Opened
  <2> QED BY <2>1 DEF DkInv, KeyOfSocket
<1>3. hs' \in SUBSET (1 .. Len(socks'))
  BY <1>0, <1>1
<1>4. DkTypeOK'
  BY <1>0, <1>1, <1>3 DEF DkTypeOK
<1>5. DkInv'
  <2>1. LastSocketOnly'
    BY <1>1 DEF LastSocketOnly
  <2>2. KeyOfSocket'
    BY <1>2 DEF DkInv, KeyOfSocket
  <2> QED BY <1>4, <2>1, <2>2 DEF DkInv
<1>6. dkPhase' = dkPhase
  BY <1>0, <1>1, <1>2, <1>4, PhaseIs, PhaseNextIs
<1> QED BY <1>5, <1>6 DEF AbstractDocker!sessionVars, LastOpened

\* The key, and with it perhaps the first frame.
LEMMA DkAgrees ==
  ASSUME DkInv, Identified
  PROVE  DkInv' /\ AbstractDocker!Agree
<1>0. /\ DkTypeOK /\ hs \subseteq 1 .. Len(socks) /\ frames \in Seq(DkTexts \cup DkSealed)
      /\ fwNonce \in Nat
  BY DEF DkInv, DkTypeOK
<1>1. /\ Alive # {} /\ socks[cur] \in {"open", "closing"} /\ frames # <<>> /\ frames' = Tail(frames)
      /\ ~dkEnc.s_ready
      /\ UNCHANGED <<dkMode, stage, socks, reconnects, fwNonce, peer>>
  BY DEF Identified, AnswerCame, Message
<1>2. /\ hs' \subseteq hs /\ dkEnc' = Sent(ws_enc_derive(fwNonce), IsOpen(cur)) /\ connected' = TRUE
      /\ nodeState' = [wsConnected |-> TRUE, encrypted |-> TRUE] /\ intervals' = 1
  BY DEF Identified
<1>3. Opened(socks)
  BY <1>0, <1>1, AliveIs
<1>4. PICK d : d = ws_enc_derive(fwNonce)
  OBVIOUS
<1>5. d \in Encs /\ d.s_ready /\ d.s_seq_tx = 0 /\ LastOpened(d) = -1
  BY <1>0, <1>4, EncDerived
<1>6. dkEnc' \in Encs /\ dkEnc'.s_ready /\ dkEnc'.s_seq_tx \in {0, 1} /\ LastOpened(dkEnc') = -1
  <2>1. dkEnc' \in {d, ws_enc_seal(d)}
    BY <1>2, <1>4 DEF Sent
  <2>2. CASE dkEnc' = d
    BY <1>5, <2>2
  <2>3. CASE dkEnc' = ws_enc_seal(d)
    <3>1. /\ dkEnc' \in Encs /\ dkEnc'.s_ready = d.s_ready /\ dkEnc'.s_seq_tx = d.s_seq_tx + 1
          /\ LastOpened(dkEnc') = LastOpened(d)
      BY <1>5, <2>3, EncSealed
    <3> QED BY <1>5, <3>1
  <2> QED BY <2>1, <2>2, <2>3
<1>7. DkTypeOK'
  <2>1. frames' \in Seq(DkTexts \cup DkSealed)
    BY <1>0, <1>1, QueueTail
  <2>2. hs' \in SUBSET (1 .. Len(socks'))
    BY <1>0, <1>1, <1>2
  <2> QED BY <1>0, <1>1, <1>2, <1>6, <2>1, <2>2 DEF DkTypeOK
<1>8. DkInv'
  <2>1. LastSocketOnly'
    BY <1>1 DEF DkInv, LastSocketOnly
  <2>2. dkEnc'.s_ready = TRUE
    BY <1>6 DEF Encs
  <2>3. KeyOfSocket'
    BY <1>1, <1>2, <1>3, <2>2 DEF KeyOfSocket
  <2> QED BY <1>7, <2>1, <2>3 DEF DkInv
<1>9. dkPhase = "offered" /\ dkPhase' = "live"
  BY <1>0, <1>1, <1>3, <1>6, <1>7, PhaseIs, PhaseNextIs
<1> QED BY <1>1, <1>6, <1>8, <1>9 DEF AbstractDocker!Agree, LastOpened

\* Answers in vain and frames that do not open close the socket, and so does a
\* handshake that takes too long.
LEMMA DkGivesUp ==
  ASSUME DkInv, AnswerInVain \/ FrameRefused \/ \E s \in hs : HandshakeTimesOut(s)
  PROVE  DkInv' /\ [AbstractDocker!Next]_(AbstractDocker!sessionVars)
<1>0. /\ DkTypeOK /\ hs \subseteq 1 .. Len(socks) /\ frames \in Seq(DkTexts \cup DkSealed)
      /\ peer \in Encs /\ intervals \in {0, 1}
  BY DEF DkInv, DkTypeOK
<1>1. CASE AnswerInVain \/ FrameRefused
  <2>1. /\ cur \in Alive /\ frames # <<>> /\ frames' = Tail(frames) /\ socks' = Closing(cur)
        /\ hs' \subseteq hs
        /\ UNCHANGED <<dkMode, stage, reconnects, dkEnc, fwNonce, connected, nodeState, intervals, peer>>
    BY <1>1 DEF AnswerInVain, FrameRefused, AnswerCame, Message, runVars
  <2>2. cur \in 1 .. Len(socks) /\ frames' \in Seq(DkTexts \cup DkSealed)
    BY <1>0, <2>1, AliveIs, QueueTail
  <2> QED BY <1>0, <2>1, <2>2, DkCloses
<1>2. ASSUME NEW s \in hs, HandshakeTimesOut(s)
      PROVE  DkInv' /\ [AbstractDocker!Next]_(AbstractDocker!sessionVars)
  <2>1. /\ s \in 1 .. Len(socks) /\ socks' \in {socks, Closing(s)} /\ hs' \subseteq hs
        /\ UNCHANGED <<dkMode, stage, reconnects, dkEnc, fwNonce, connected, nodeState, intervals,
                       peer, frames>>
    BY <1>0, <1>2 DEF HandshakeTimesOut, runVars, linkVars
  <2> QED BY <1>0, <2>1, DkCloses
<1> QED BY <1>1, <1>2

\* Frames of the session, and what the backend and the link do.
LEMMA DkFrames ==
  ASSUME DkInv,
         \/ FrameDropped \/ FrameOpened \/ pushLocationWs \/ Minute
         \/ \E ok \in BOOLEAN : LocationFound(ok)
         \/ \E n \in {0, 1} : BackendAnswers(n)
         \/ BackendSends \/ FrameAgain \/ BackendSilent \/ LinkDies
  PROVE  DkInv' /\ [AbstractDocker!Next]_(AbstractDocker!sessionVars)
<1> DEFINE Same == UNCHANGED <<dkMode, stage, socks, hs, reconnects, fwNonce, connected, nodeState,
                               intervals>>
           F == DkTexts \cup DkSealed
<1>0. /\ DkTypeOK /\ frames \in Seq(F) /\ peer \in Encs /\ dkEnc \in Encs /\ intervals \in {0, 1}
      /\ fwNonce \in Nat /\ connected = dkEnc.s_ready
  BY DEF DkInv, DkTypeOK, KeyOfSocket
<1>1. CASE FrameDropped
  <2>1. frames # <<>> /\ frames' = Tail(frames) /\ Same /\ UNCHANGED <<dkEnc, peer>>
    BY <1>1 DEF FrameDropped, Message, clientVars, runVars
  <2>2. frames' \in Seq(F)
    BY <1>0, <2>1, QueueTail
  <2> QED BY <1>0, <2>1, <2>2, DkKeeps
<1>2. CASE FrameOpened
  <2>1. /\ frames # <<>> /\ frames' = Tail(frames) /\ Same /\ UNCHANGED peer
        /\ Opens(dkEnc, Head(frames)) /\ dkEnc' = ws_enc_open(dkEnc, Head(frames))
        /\ ~Head(frames).plain
    BY <1>2 DEF FrameOpened, Message, runVars
  <2>2. frames' \in Seq(F) /\ Head(frames) \in F
    BY <1>0, <2>1, QueueTail
  <2>3. Head(frames) \in DkSealed
    BY <2>1, <2>2 DEF DkTexts
  <2>4. dkEnc.s_ready
    BY <2>1 DEF Opens
  <2> QED BY <1>0, <2>1, <2>2, <2>3, <2>4, DkKeeps
<1>3. CASE pushLocationWs \/ Minute \/ \E ok \in BOOLEAN : LocationFound(ok)
  <2>1. \E ok \in BOOLEAN : (ok => CanSend) /\ dkEnc' = Sent(dkEnc, ok)
    <3>1. CASE pushLocationWs
      BY <3>1 DEF pushLocationWs, Pushed, CanSend
    <3>2. CASE Minute
      BY <3>2 DEF Minute, CanSend
    <3>3. CASE \E ok \in BOOLEAN : LocationFound(ok)
      BY <3>3 DEF LocationFound, Pushed, CanSend
    <3> QED BY <1>3, <3>1, <3>2, <3>3
  <2>2. dkEnc' = dkEnc \/ (dkEnc.s_ready /\ dkEnc' = ws_enc_seal(dkEnc))
    <3>1. connected => dkEnc.s_ready
      BY <1>0
    <3>2. PICK ok \in BOOLEAN : (ok => connected) /\ dkEnc' = Sent(dkEnc, ok)
      BY <2>1 DEF CanSend
    <3>3. dkEnc' = dkEnc \/ (ok /\ dkEnc' = ws_enc_seal(dkEnc))
      BY <3>2 DEF Sent
    <3> QED BY <3>1, <3>2, <3>3
  <2>3. Same /\ UNCHANGED <<peer, frames>>
    BY <1>3 DEF pushLocationWs, LocationFound, Minute, Pushed, linkVars, runVars
  <2> QED BY <1>0, <2>2, <2>3, DkKeeps
<1>4. ASSUME NEW n \in {0, 1}, BackendAnswers(n)
      PROVE  DkInv' /\ [AbstractDocker!Next]_(AbstractDocker!sessionVars)
  <2>1. /\ frames' = Append(frames, [plain |-> TRUE, nonce |-> n])
        /\ peer' = ws_enc_derive(fwNonce) /\ Same /\ UNCHANGED dkEnc
    BY <1>4 DEF BackendAnswers, Unchanged, clientVars, runVars
  <2>2. [plain |-> TRUE, nonce |-> n] \in F
    BY DEF DkTexts
  <2>3. frames' \in Seq(F) /\ peer' \in Encs
    BY <1>0, <2>1, <2>2, QueueAppend, EncDerived
  <2> QED BY <1>0, <2>1, <2>3, DkKeeps
<1>5. CASE BackendSends
  <2>1. /\ frames' = Append(frames, [plain |-> FALSE, key |-> peer.key, seq |-> peer.s_seq_tx])
        /\ peer' = ws_enc_seal(peer) /\ Same /\ UNCHANGED dkEnc
    BY <1>5 DEF BackendSends, Unchanged, clientVars, runVars
  <2>2. [plain |-> FALSE, key |-> peer.key, seq |-> peer.s_seq_tx] \in F
    BY <1>0 DEF DkSealed, Encs
  <2>3. frames' \in Seq(F)
    BY <1>0, <2>1, <2>2, QueueAppend
  <2>4. peer' \in Encs
    BY <1>0, <2>1, EncSealed
  <2> QED BY <1>0, <2>1, <2>3, <2>4, DkKeeps
<1>6. CASE FrameAgain
  <2>1. frames # <<>> /\ frames' = Append(frames, Head(frames)) /\ Same /\ UNCHANGED <<dkEnc, peer>>
    BY <1>6 DEF FrameAgain, Unchanged, clientVars, runVars
  <2>2. Head(frames) \in F
    BY <1>0, <2>1, QueueTail
  <2>3. frames' \in Seq(F)
    BY <1>0, <2>1, <2>2, QueueAppend
  <2> QED BY <1>0, <2>1, <2>3, DkKeeps
<1>7. CASE BackendSilent \/ LinkDies
  <2>1. frames' \in {frames, <<>>} /\ Same /\ UNCHANGED <<dkEnc, peer>>
    BY <1>7 DEF BackendSilent, LinkDies, Unchanged, clientVars, runVars
  <2>2. <<>> \in Seq(F)
    OBVIOUS
  <2>3. frames' \in Seq(F)
    BY <1>0, <2>1, <2>2
  <2> QED BY <1>0, <2>1, <2>3, DkKeeps
<1> QED BY <1>1, <1>2, <1>3, <1>4, <1>5, <1>6, <1>7

\* The timers that connect, and the beginning of it.
LEMMA DkReconnects ==
  ASSUME DkInv, ReconnectFires \/ \E ok \in BOOLEAN : RegisterAttempt(ok)
  PROVE  DkInv' /\ [AbstractDocker!Next]_(AbstractDocker!sessionVars)
<1>0. /\ DkTypeOK /\ reconnects \in {0, 1} /\ dkMode \in {"firmware", "ingest"}
      /\ frames \in Seq(DkTexts \cup DkSealed) /\ peer \in Encs /\ intervals \in {0, 1}
  BY DEF DkInv, DkTypeOK
<1>1. CASE ReconnectFires
  <2>1. /\ reconnects = 1 /\ reconnects' = 0
        /\ UNCHANGED <<dkMode, stage, hs, dkEnc, fwNonce, connected, nodeState, intervals, peer, frames>>
    BY <1>0, <1>1 DEF ReconnectFires, runVars, linkVars
  <2>2. stage = "run" /\ dkMode = "firmware" /\ ~Speaks(socks)
    BY <1>0, <2>1 DEF DkInv, LastSocketOnly
  <2>3. socks' = Append(socks, "connecting")
    BY <1>1, <2>2 DEF ReconnectFires, connect
  <2> QED BY <2>1, <2>2, <2>3, DkConnects
<1>2. ASSUME NEW ok \in BOOLEAN, RegisterAttempt(ok)
      PROVE  DkInv' /\ [AbstractDocker!Next]_(AbstractDocker!sessionVars)
  <2>1. /\ dkMode = "firmware" /\ stage = "register"
        /\ UNCHANGED <<dkMode, hs, reconnects, dkEnc, fwNonce, connected, nodeState, intervals, peer,
                       frames>>
        /\ \/ stage' = "run" /\ socks' = Append(socks, "connecting")
           \/ UNCHANGED <<stage, socks>>
    BY <1>2 DEF RegisterAttempt, connect, runVars, linkVars
  <2>2. ~Speaks(socks) /\ reconnects = 0
    BY <2>1 DEF DkInv, LastSocketOnly, Speaks
  <2>3. CASE stage' = "run" /\ socks' = Append(socks, "connecting")
    BY <2>1, <2>2, <2>3, DkConnects
  <2>4. CASE UNCHANGED <<stage, socks>>
    BY <1>0, <2>1, <2>4, DkKeeps
  <2> QED BY <2>1, <2>3, <2>4
<1> QED BY <1>1, <1>2

\* The other mode of the program, and its end.
LEMMA DkOther ==
  ASSUME DkInv, Shutdown \/ (Exit \/ \E ok \in BOOLEAN : IngestPush(ok))
  PROVE  DkInv' /\ [AbstractDocker!Next]_(AbstractDocker!sessionVars)
<1>0. /\ DkTypeOK /\ reconnects \in {0, 1} /\ dkMode \in {"firmware", "ingest"}
      /\ stage \in {"register", "run", "stopping", "exited"} /\ hs \subseteq 1 .. Len(socks)
      /\ OnlyLast(socks) /\ socks \in Seq(SockStates)
  BY DEF DkInv, DkTypeOK, LastSocketOnly
<1>1. /\ UNCHANGED <<dkMode, dkEnc, fwNonce, connected, nodeState, peer, frames>>
      /\ intervals' \in {0, 1} /\ reconnects' \in {0, reconnects} /\ hs' \subseteq hs
      /\ socks' \in {socks, Closing(cur)} /\ (socks' # socks => cur \in 1 .. Len(socks))
      /\ \/ stage' \in {"stopping", "exited"} /\ stage # "register" /\ (stage = "run" => reconnects' = 0)
         \/ dkMode = "ingest" /\ stage' = "run" /\ reconnects' = reconnects
  <2>1. CASE Shutdown
    BY <2>1 DEF Shutdown, linkVars, IsOpen
  <2>2. CASE Exit
    BY <2>2 DEF Exit, clientVars, runVars, linkVars, DkInv, DkTypeOK
  <2>3. CASE \E ok \in BOOLEAN : IngestPush(ok)
    BY <2>3 DEF IngestPush, clientVars, linkVars
  <2> QED BY <2>1, <2>2, <2>3
<1>2. /\ socks' \in Seq(SockStates) /\ Len(socks') = Len(socks) /\ OnlyLast(socks')
      /\ (Speaks(socks') <=> Speaks(socks)) /\ (Opened(socks') <=> Opened(socks))
      /\ (socks = <<>> => socks' = <<>>)
  <2>1. CASE socks' = socks
    BY <1>0, <2>1
  <2>2. CASE socks' # socks
    <3>1. cur \in 1 .. Len(socks) /\ socks # <<>>
          /\ socks' = [socks EXCEPT ![cur] = IF @ = "open" THEN "closing" ELSE @]
      BY <1>1, <2>2 DEF Closing
    <3> QED BY <1>0, <3>1, SocketClosing
  <2> QED BY <2>1, <2>2
<1>3. DkTypeOK'
  <2>1. hs' \in SUBSET (1 .. Len(socks'))
    BY <1>0, <1>1, <1>2
  <2> QED BY <1>0, <1>1, <1>2, <2>1 DEF DkTypeOK
<1>4. LastSocketOnly'
  BY <1>0, <1>1, <1>2 DEF DkInv, LastSocketOnly
<1>5. KeyOfSocket'
  BY <1>1, <1>2 DEF DkInv, KeyOfSocket
<1>6. dkPhase' = dkPhase
  BY <1>0, <1>1, <1>2, <1>3, PhaseIs, PhaseNextIs
<1> QED BY <1>1, <1>3, <1>4, <1>5, <1>6 DEF DkInv, AbstractDocker!sessionVars, LastOpened

LEMMA DkInitially ==
  ASSUME \E at \in {"register", "exited"} : DkStart(at)
  PROVE  DkInv /\ AbstractDocker!Init
<1>1. /\ dkMode \in {"firmware", "ingest"} /\ stage \in {"register", "exited"} /\ socks = <<>>
      /\ hs = {} /\ reconnects = 0 /\ dkEnc = ws_enc_reset /\ peer = ws_enc_reset /\ fwNonce = 0
      /\ connected = FALSE /\ nodeState = [wsConnected |-> FALSE, encrypted |-> FALSE]
      /\ intervals = 0 /\ frames = <<>>
  BY DEF DkStart, DkInit
<1>2. socks \in Seq(SockStates) /\ frames \in Seq(DkTexts \cup DkSealed)
  BY <1>1
<1>3. DkTypeOK
  BY <1>1, <1>2, EncReset DEF DkTypeOK
<1>4. LastSocketOnly
  BY <1>1 DEF LastSocketOnly, OnlyLast, Speaks
<1>5. KeyOfSocket
  BY <1>1 DEF KeyOfSocket, ws_enc_reset
<1>6. dkPhase = "down"
  BY <1>1, <1>3, EncReset, PhaseIs DEF Opened
<1> QED BY <1>1, <1>3, <1>4, <1>5, <1>6, EncReset DEF DkInv, AbstractDocker!Init

LEMMA DkStep ==
  ASSUME DkInv, [DkNext]_dkAll
  PROVE  DkInv' /\ [AbstractDocker!Next]_(AbstractDocker!sessionVars)
<1> DEFINE Goal == DkInv' /\ [AbstractDocker!Next]_(AbstractDocker!sessionVars)
<1> SUFFICES Goal
  OBVIOUS
<1>1. CASE Callback
  <2>1. ASSUME NEW s \in Alive, SocketOpens(s) PROVE Goal
    BY <2>1, DkOpens DEF AbstractDocker!Next
  <2>2. ASSUME NEW s \in Alive, SocketCloses(s), stage # "exited" PROVE Goal
    BY <2>2, DkClosed
  <2>3. ASSUME Identified PROVE Goal
    BY <2>3, DkAgrees DEF AbstractDocker!Next
  <2>4. ASSUME AnswerInVain \/ FrameRefused \/ \E s \in hs : HandshakeTimesOut(s) PROVE Goal
    BY <2>4, DkGivesUp
  <2>5. ASSUME ReconnectFires PROVE Goal
    BY <2>5, DkReconnects
  <2>6. ASSUME FrameDropped \/ FrameOpened \/ pushLocationWs PROVE Goal
    BY <2>6, DkFrames
  <2> HIDE DEF Goal
  <2> QED BY <1>1, <2>1, <2>2, <2>3, <2>4, <2>5, <2>6 DEF Callback, Fine, Running
<1>2. CASE Lookup \/ Startup \/ IngestTick \/ Clock \/ Backend \/ Ending
  <2>1. ASSUME NEW ok \in BOOLEAN, LocationFound(ok) PROVE Goal
    BY <2>1, DkFrames
  <2>2. ASSUME NEW ok \in BOOLEAN, RegisterAttempt(ok) PROVE Goal
    BY <2>2, DkReconnects
  <2>3. ASSUME Minute \/ BackendAnswers(1) PROVE Goal
    BY <2>3, DkFrames
  <2>4. ASSUME Shutdown \/ (Exit \/ \E ok \in BOOLEAN : IngestPush(ok)) PROVE Goal
    BY <2>4, DkOther
  <2> HIDE DEF Goal
  <2> QED BY <1>2, <2>1, <2>2, <2>3, <2>4
          DEF Lookup, Startup, IngestTick, Clock, Backend, Ending, Fine
<1>3. ASSUME NEW most \in Nat, MoreFrames(most) \/ Troubles(most) PROVE Goal
  <2>1. ASSUME NEW s \in Alive, SocketCloses(s), stage # "exited" PROVE Goal
    BY <2>1, DkClosed
  <2>2. ASSUME NEW s \in hs, HandshakeTimesOut(s) PROVE Goal
    BY <2>2, DkGivesUp
  <2>3. ASSUME BackendSends \/ BackendAnswers(0) \/ BackendSilent \/ FrameAgain \/ LinkDies PROVE Goal
    BY <2>3, DkFrames
  <2> HIDE DEF Goal
  <2> QED BY <1>3, <2>1, <2>2, <2>3 DEF MoreFrames, Troubles, Trouble, Fine, Running
<1>4. CASE UNCHANGED dkAll
  <2>1. /\ UNCHANGED <<dkMode, stage, socks, hs, reconnects, fwNonce, connected, nodeState>>
        /\ UNCHANGED <<intervals, peer, frames, dkEnc>>
    BY <1>4 DEF dkAll, dkVars, clientVars, runVars, linkVars
  <2>2. intervals' \in {0, 1} /\ peer' \in Encs /\ frames' \in Seq(DkTexts \cup DkSealed)
    BY <2>1 DEF DkInv, DkTypeOK
  <2> QED BY <2>1, <2>2, DkKeeps
<1> HIDE DEF Goal
<1> QED BY <1>1, <1>2, <1>3, <1>4 DEF DkNext

\* One socket speaks at most, so the client has one of a socket and a timer.
LEMMA DkInvOneSocket ==
  ASSUME DkInv
  PROVE  OneSocket
<1>0. DkTypeOK /\ OnlyLast(socks) /\ Len(socks) \in Nat
  BY DEF DkInv, DkTypeOK, LastSocketOnly
<1>1. Alive = IF Speaks(socks) THEN {cur} ELSE {}
  BY <1>0, AliveIs DEF OnlyLast, cur
<1>2. Cardinality(Alive) = IF Speaks(socks) THEN 1 ELSE 0
  BY <1>1, FS_EmptySet, FS_Singleton
<1>3. Cardinality(Alive) <= 1 /\ intervals <= 1
  BY <1>0, <1>2 DEF DkTypeOK
<1>4. dkMode = "firmware" /\ stage = "run" => Cardinality(Alive) + reconnects = 1
  BY <1>0, <1>2 DEF DkInv, DkTypeOK, LastSocketOnly
<1>5. nodeState.wsConnected = connected /\ nodeState.encrypted = dkEnc.s_ready /\ connected = dkEnc.s_ready
  <2>1. nodeState = [wsConnected |-> connected, encrypted |-> connected] /\ connected = dkEnc.s_ready
    BY DEF DkInv, KeyOfSocket
  <2>2. nodeState.wsConnected = connected /\ nodeState.encrypted = connected
    BY <2>1
  <2> QED BY <2>1, <2>2
<1> QED BY <1>3, <1>4, <1>5 DEF OneSocket

\* The container's inductive invariant holds, from any start of the program:
\* wsclient.js and index.js leave no socket that speaks but the last, no timer
\* beside it, and no key without a socket that was open.
THEOREM DockerInvariant == DkSpec => []DkInv
<1>1. DkInv /\ [DkNext]_dkAll => DkInv'
  BY DkStep
<1> QED BY DkInitially, <1>1, PTL DEF DkSpec

\* wsclient.js never has two sockets that speak, nor a socket and a timer that
\* will make another, nor neither while it runs; the health document's flags
\* are the client's own.
THEOREM DockerOneSocket == DkSpec => []OneSocket
<1>1. DkInv => OneSocket
  BY DkInvOneSocket
<1> QED BY DockerInvariant, <1>1, PTL

\* The container implements Session: no two sessions share an offer, and under
\* one key the numbers of frames sealed and opened only grow.
THEOREM DockerImplementsSession == DkSpec => DockerKeepsSession
<1>1. DkInv /\ [DkNext]_dkAll => [AbstractDocker!Next]_(AbstractDocker!sessionVars)
  BY DkStep
<1>2. (\E at \in {"register", "exited"} : DkStart(at)) => AbstractDocker!Init
  BY DkInitially
<1> QED BY DockerInvariant, <1>1, <1>2, PTL DEF DkSpec, DockerKeepsSession, AbstractDocker!Spec

-----------------------------------------------------------------------------
(* The firmware: what its events do to the connection.                     *)

LEMMA FrameIs ==
  ASSUME NEW f \in Frames
  PROVE  /\ f.plain => f.nonce \in Nat
         /\ ~f.plain => f.seq \in Nat /\ f.msg \in Msgs /\ f.msg.n \in Nat
BY DEF Frames, Texts, Sealed, Msgs

LEMMA PeerIs ==
  ASSUME WsTypeOK
  PROVE  /\ be.enc \in Encs /\ be.offer \in Nat /\ be.enc.s_seq_tx \in Nat /\ be.enc.s_seq_rx \in Nat
         /\ enc.s_seq_tx \in Nat /\ enc.s_seq_rx \in Nat /\ enc.key \in Nat
         /\ be = NoPeer => ~be.enc.s_ready /\ be.enc.s_seq_tx = 0 /\ ~be.enc.s_rx_init
BY DEF WsTypeOK, Encs, NoPeer, ws_enc_reset

LEMMA NoPeerIs ==
  NoPeer \in [offer : Nat, enc : Encs] /\ NoPeer.offer = 0 /\ ~NoPeer.enc.s_rx_init
BY EncReset DEF NoPeer

\* The connection ends, from whichever side.
LEMMA WsGone ==
  ASSUME WsInv, sock = "open", Gone
  PROVE  WsInv' /\ Abstract!End
<1>1. WsTypeOK'
  <2>1. <<>> \in Seq(Frames)
    OBVIOUS
  <2> QED BY <2>1, EncReset, NoPeerIs DEF Gone, WsInv, WsTypeOK
<1>2. NoConnection' /\ OfferFirst' /\ Numbered' /\ CommandsRise'
  <2>1. Len(toBe') = 0 /\ Len(toNode') = 0
    BY DEF Gone
  <2>2. NoConnection'
    BY EncReset DEF Gone, NoConnection
  <2> QED BY <2>1, <2>2 DEF OfferFirst, Numbered, CommandsRise
<1>3. WsConsistent'
  BY EncReset, NoPeerIs DEF Gone, WsInv, WsConsistent
<1>4. wsPhase # "down" /\ wsPhase' = "down"
  BY EncReset DEF Gone, wsPhase
<1>5. enc'.s_seq_tx = 0 /\ LastOpened(enc)' = -1 /\ s_fw_nonce' = s_fw_nonce
  BY EncReset DEF Gone, LastOpened
<1> QED BY <1>1, <1>2, <1>3, <1>4, <1>5 DEF WsInv, Abstract!End

LEMMA WsConnected ==
  ASSUME WsInv, Connected
  PROVE  WsInv' /\ Abstract!Offer
<1>0. WsTypeOK /\ s_fw_nonce \in Nat /\ ~enc.s_ready /\ enc = ws_enc_reset
  BY DEF WsInv, WsTypeOK, NoConnection, Connected
<1>1. /\ sock' = "open" /\ s_fw_nonce' = s_fw_nonce + 1 /\ toBe' = <<Plain("identify", s_fw_nonce')>>
      /\ be' = NoPeer /\ toNode' = <<>> /\ UNCHANGED <<enc, g_ws_connected, issued, handled>>
  BY DEF Connected, send_identify
<1>2. WsTypeOK'
  <2>1. Plain("identify", s_fw_nonce') \in Frames
    BY <1>0, <1>1 DEF Plain, Frames, Texts
  <2>2. toBe' \in Seq(Frames) /\ toNode' \in Seq(Frames)
    BY <1>1, <2>1
  <2> QED BY <1>0, <1>1, <2>2, NoPeerIs DEF WsTypeOK
<1>3. NoConnection' /\ Numbered' /\ CommandsRise'
  <2>1. \A i \in 1 .. Len(toBe') : toBe'[i].plain
    BY <1>1 DEF Plain
  <2> QED BY <1>0, <1>1, <2>1 DEF NoConnection, Numbered, CommandsRise
<1>4. OfferFirst'
  BY <1>1 DEF OfferFirst, Plain
<1>5. WsConsistent'
  BY <1>0, <1>1, NoPeerIs, EncReset DEF WsInv, WsConsistent
<1>6. wsPhase = "down" /\ wsPhase' = "offered"
  BY <1>0, <1>1 DEF wsPhase, Connected
<1> QED BY <1>1, <1>2, <1>3, <1>4, <1>5, <1>6 DEF WsInv, Abstract!Offer, LastOpened

\* What changes the frames to the node without a new sealed one among them.
From(new, old) == \A i \in 1 .. Len(new) : new[i].plain \/ \E k \in 1 .. Len(old) : new[i] = old[k]

LEMMA WsToNode ==
  ASSUME WsInv, toNode' \in Seq(Frames), From(toNode', toNode), toNode' # toNode => sock = "open",
         UNCHANGED <<sock, s_fw_nonce, enc, g_ws_connected, toBe, be, issued, handled>>
  PROVE  WsInv' /\ UNCHANGED Abstract!sessionVars
<1>1. WsTypeOK' /\ NoConnection' /\ OfferFirst' /\ WsConsistent'
  BY DEF WsInv, WsTypeOK, NoConnection, OfferFirst, WsConsistent
<1>2. Numbered'
  BY DEF WsInv, Numbered, From
<1>3. CommandsRise'
  BY DEF WsInv, CommandsRise, IsCmd, From
<1> QED BY <1>1, <1>2, <1>3 DEF WsInv, Abstract!sessionVars, wsPhase, LastOpened

\* on_identified: the numbers of the session before are gone with its frames.
LEMMA WsIdentified ==
  ASSUME WsInv, on_identified
  PROVE  WsInv' /\ Abstract!Agree
<1>0. /\ WsTypeOK /\ s_fw_nonce \in Nat /\ sock = "open" /\ toNode # <<>> /\ toNode \in Seq(Frames)
      /\ toBe \in Seq(Frames) /\ ~enc.s_ready /\ enc = ws_enc_reset /\ toNode' = Tail(toNode)
      /\ g_ws_connected' = TRUE /\ UNCHANGED <<sock, s_fw_nonce, be, issued, handled>>
  BY DEF WsInv, WsTypeOK, NoConnection, on_identified, Answer, TextHead, Consumed
<1>1. PICK e : e = ws_enc_derive(s_fw_nonce)
  OBVIOUS
<1>2. /\ e \in Encs /\ e.s_ready /\ e.key = s_fw_nonce /\ ~e.s_rx_init /\ e.s_seq_tx = 0
      /\ LastOpened(e) = -1
  BY <1>0, <1>1, EncDerived
<1>3. \/ enc' = e /\ toBe' = toBe
      \/ enc' = ws_enc_seal(e) /\ toBe' = Append(toBe, Bin(e, Msg("outage", 0)))
  BY <1>1 DEF on_identified
<1>4. \A i \in 1 .. Len(toBe) : toBe[i].plain
  <2>1. enc.s_seq_tx = 0
    BY <1>0, EncReset
  <2>2. ASSUME NEW i \in 1 .. Len(toBe), ~toBe[i].plain PROVE FALSE
    BY <1>0, <2>1, <2>2, FrameIs DEF WsInv, Numbered
  <2> QED BY <2>2
<1>5. ~be.enc.s_rx_init
  BY <1>0, PeerIs, EncReset DEF WsInv, WsConsistent
<1>6. /\ enc' \in Encs /\ enc'.s_ready /\ enc'.key = s_fw_nonce /\ ~enc'.s_rx_init
      /\ enc'.s_seq_tx \in {0, 1} /\ LastOpened(enc') = -1
  <2>1. CASE enc' = e
    BY <1>2, <2>1
  <2>2. CASE enc' = ws_enc_seal(e)
    <3>1. /\ enc' \in Encs /\ enc'.s_ready = e.s_ready /\ enc'.key = e.key
          /\ enc'.s_rx_init = e.s_rx_init /\ enc'.s_seq_tx = e.s_seq_tx + 1
          /\ LastOpened(enc') = LastOpened(e)
      BY <1>2, <2>2, EncSealed
    <3> QED BY <1>2, <3>1
  <2> QED BY <1>3, <2>1, <2>2
<1>7. /\ toBe' \in Seq(Frames)
      /\ \A i \in 1 .. Len(toBe') : \/ i \in 1 .. Len(toBe) /\ toBe'[i] = toBe[i]
                                    \/ ~toBe'[i].plain /\ toBe'[i].seq < enc'.s_seq_tx
  <2>1. CASE toBe' = toBe
    BY <1>0, <2>1, Zenon
  <2>2. CASE enc' = ws_enc_seal(e) /\ toBe' = Append(toBe, Bin(e, Msg("outage", 0)))
    <3>1. PICK b : b = Bin(e, Msg("outage", 0))
      OBVIOUS
    <3>2. b \in Frames /\ ~b.plain /\ b.seq = 0
      BY <1>2, <3>1 DEF Bin, Msg, Msgs, Frames, Sealed, Encs
    <3>3. enc'.s_seq_tx = 1
      BY <1>2, <2>2, EncSealed
    <3>4. toBe' = Append(toBe, b)
      BY <2>2, <3>1
    <3>5. /\ toBe' \in Seq(Frames)
          /\ \A i \in 1 .. Len(toBe') : \/ i \in 1 .. Len(toBe) /\ toBe'[i] = toBe[i]
                                        \/ i = Len(toBe) + 1 /\ toBe'[i] = b
      BY <1>0, <3>2, <3>4, QueueAppend
    <3>6. 0 < enc'.s_seq_tx
      BY <3>3
    <3> QED BY <3>2, <3>5, <3>6, Zenon
  <2> QED BY <1>3, <2>1, <2>2
<1>8. toNode' \in Seq(Frames) /\ From(toNode', toNode)
  BY <1>0, QueueTail DEF From
<1>9. WsTypeOK'
  BY <1>0, <1>6, <1>7, <1>8 DEF WsTypeOK
<1>10. NoConnection' /\ OfferFirst'
  BY <1>0, <1>4, <1>6, <1>7 DEF WsInv, NoConnection, OfferFirst
<1>11. Numbered' /\ CommandsRise'
  <2>1. Numbered'
    BY <1>0, <1>4, <1>7, <1>8 DEF WsInv, Numbered, From
  <2>2. ~enc.s_rx_init
    BY <1>0, EncReset
  <2>3. CommandsRise'
    BY <1>0, <1>6, <1>8, <2>2 DEF WsInv, CommandsRise, IsCmd, From
  <2> QED BY <2>1, <2>3
<1>12. WsConsistent'
  BY <1>0, <1>5, <1>6 DEF WsInv, WsConsistent
<1>13. wsPhase = "offered" /\ wsPhase' = "live"
  BY <1>0, <1>6 DEF wsPhase
<1> QED BY <1>0, <1>6, <1>9, <1>10, <1>11, <1>12, <1>13 DEF WsInv, Abstract!Agree, LastOpened

\* A frame of the node, which the socket may fail to take.
LEMMA WsSends ==
  ASSUME WsInv, NEW m \in Msgs, Send(m)
  PROVE  WsInv' /\ Abstract!Seal
<1>0. /\ WsTypeOK /\ enc \in Encs /\ enc.s_ready /\ g_ws_connected /\ toBe \in Seq(Frames)
      /\ sock = "open" /\ enc' = ws_enc_seal(enc)
      /\ UNCHANGED <<sock, s_fw_nonce, g_ws_connected, toNode, be, issued, handled>>
  BY DEF WsInv, WsTypeOK, WsConsistent, Send
<1>1. /\ enc' \in Encs /\ enc'.s_ready = enc.s_ready /\ enc'.key = enc.key
      /\ enc'.s_rx_init = enc.s_rx_init /\ enc'.s_seq_rx = enc.s_seq_rx
      /\ enc'.s_seq_tx = enc.s_seq_tx + 1 /\ LastOpened(enc') = LastOpened(enc)
  BY <1>0, EncSealed
<1>2. PICK b : b = Bin(enc, m)
  OBVIOUS
<1>3. b \in Frames /\ ~b.plain /\ b.seq = enc.s_seq_tx
  BY <1>0, <1>2 DEF Bin, Frames, Sealed, Encs
<1>4. toBe' = toBe \/ toBe' = Append(toBe, b)
  BY <1>2 DEF Send
<1>5. /\ toBe' \in Seq(Frames)
      /\ \A i \in 1 .. Len(toBe') :
            \/ i \in 1 .. Len(toBe) /\ toBe'[i] = toBe[i]
            \/ ~toBe'[i].plain /\ toBe'[i].seq = enc.s_seq_tx
  <2>1. CASE toBe' = toBe
    BY <1>0, <2>1, Zenon
  <2>2. CASE toBe' = Append(toBe, b)
    BY <1>0, <1>3, <2>2, QueueAppend
  <2> QED BY <1>4, <2>1, <2>2
<1>6. WsTypeOK'
  BY <1>0, <1>1, <1>5 DEF WsTypeOK
<1>7. NoConnection' /\ OfferFirst'
  BY <1>0, <1>1, <1>5 DEF WsInv, NoConnection, OfferFirst
<1>8. Numbered'
  <2>1. enc.s_seq_tx \in Nat /\ enc'.s_seq_tx = enc.s_seq_tx + 1
    BY <1>0, <1>1, PeerIs
  <2>2. ASSUME NEW i \in 1 .. Len(toBe'), ~toBe'[i].plain PROVE toBe'[i].seq < enc'.s_seq_tx
    <3>1. CASE i \in 1 .. Len(toBe) /\ toBe'[i] = toBe[i]
      <4>1. toBe[i].seq \in Nat /\ toBe[i].seq < enc.s_seq_tx
        BY <1>0, <2>2, <3>1, FrameIs DEF WsInv, Numbered
      <4> QED BY <2>1, <3>1, <4>1
    <3>2. CASE ~toBe'[i].plain /\ toBe'[i].seq = enc.s_seq_tx
      BY <2>1, <3>2
    <3> QED BY <1>5, <3>1, <3>2
  <2> QED BY <1>0, <2>2 DEF WsInv, Numbered
<1>9. CommandsRise'
  BY <1>0, <1>1 DEF WsInv, CommandsRise, IsCmd
<1>10. WsConsistent'
  BY <1>0, <1>1, PeerIs DEF WsInv, WsConsistent
<1>11. wsPhase = "live" /\ wsPhase' = "live"
  BY <1>0, <1>1 DEF wsPhase
<1> QED BY <1>0, <1>1, <1>6, <1>7, <1>8, <1>9, <1>10, <1>11 DEF WsInv, Abstract!Seal, LastOpened

\* ws_enc_open and the dispatch: a command that opens is newer than the last one.
LEMMA WsHandles ==
  ASSUME WsInv, NEW m, handle_message(m)
  PROVE  WsInv' /\ Abstract!Open /\ (handled' # handled => handled' > handled)
<1> DEFINE f == Head(toNode)
<1>0. /\ WsTypeOK /\ enc \in Encs /\ sock = "open" /\ toNode # <<>> /\ toNode \in Seq(Frames)
      /\ ~f.plain /\ Opens(enc, f) /\ m = f.msg /\ enc' = ws_enc_open(enc, f)
      /\ handled' = (IF m.kind = "cmd" THEN m.n ELSE handled) /\ toNode' = Tail(toNode)
      /\ UNCHANGED <<sock, s_fw_nonce, g_ws_connected, toBe, be, issued>>
  BY DEF WsInv, WsTypeOK, handle_message, BinHead, Consumed
<1>1. /\ toNode' \in Seq(Frames) /\ f = toNode[1] /\ 1 \in 1 .. Len(toNode) /\ f \in Frames
      /\ \A i \in 1 .. Len(toNode') : i + 1 \in 1 .. Len(toNode) /\ toNode'[i] = toNode[i + 1]
  BY <1>0, QueueTail
<1> HIDE DEF f
<1>2. f.seq \in Nat /\ f.msg.n \in Nat /\ enc.s_ready /\ (enc.s_rx_init => f.seq > enc.s_seq_rx)
  BY <1>0, <1>1, FrameIs DEF Opens
<1>3. /\ enc' \in Encs /\ enc'.s_ready = enc.s_ready /\ enc'.key = enc.key
      /\ enc'.s_rx_init /\ enc'.s_seq_rx = f.seq /\ enc'.s_seq_tx = enc.s_seq_tx
      /\ LastOpened(enc') > LastOpened(enc)
  BY <1>0, <1>2, EncOpened
<1>4. From(toNode', toNode)
  BY <1>1 DEF From
<1>5. IsCmd(f) => f.msg.n > handled /\ f.msg.n <= issued
  BY <1>1, <1>2 DEF WsInv, CommandsRise
<1>6. handled' = (IF IsCmd(f) THEN f.msg.n ELSE handled) /\ handled' \in Nat
  BY <1>0, <1>2 DEF IsCmd, WsTypeOK
<1>7. WsTypeOK'
  BY <1>0, <1>1, <1>3, <1>6 DEF WsTypeOK
<1>8. NoConnection' /\ OfferFirst'
  BY <1>0, <1>2, <1>3 DEF WsInv, NoConnection, OfferFirst
<1>9. Numbered'
  BY <1>0, <1>3, <1>4 DEF WsInv, Numbered, From
<1>10. CommandsRise'
  <2>1. ASSUME NEW i \in 1 .. Len(toNode'), IsCmd(toNode'[i]), toNode'[i].seq > f.seq
        PROVE  toNode'[i].msg.n > handled'
    <3>1. PICK k \in 1 .. Len(toNode) : toNode'[i] = toNode[k]
      BY <1>1
    <3>2. toNode[k].seq \in Nat /\ toNode[k].msg.n \in Nat /\ IsCmd(toNode[k]) /\ toNode[k].seq > f.seq
      BY <1>0, <2>1, <3>1, FrameIs DEF IsCmd
    <3>3. CASE IsCmd(f)
      <4>1. f.seq < toNode[k].seq
        BY <1>2, <3>2
      <4>2. f.msg.n < toNode[k].msg.n
        BY <1>1, <3>2, <3>3, <4>1 DEF WsInv, CommandsRise
      <4> QED BY <1>2, <1>6, <3>1, <3>2, <3>3, <4>2
    <3>4. CASE ~IsCmd(f)
      <4>1. enc.s_rx_init => toNode[k].seq > enc.s_seq_rx
        BY <1>0, <1>2, <3>2, PeerIs
      <4>2. toNode[k].msg.n > handled
        BY <3>2, <4>1 DEF WsInv, CommandsRise
      <4> QED BY <1>6, <3>1, <3>4, <4>2
    <3> QED BY <3>3, <3>4
  <2>2. \A i \in 1 .. Len(toNode') : IsCmd(toNode'[i]) => toNode'[i].msg.n <= issued'
    BY <1>0, <1>1 DEF WsInv, CommandsRise
  <2>3. \A i, k \in 1 .. Len(toNode') :
          IsCmd(toNode'[i]) /\ IsCmd(toNode'[k]) /\ toNode'[i].seq < toNode'[k].seq
             => toNode'[i].msg.n < toNode'[k].msg.n
    BY <1>1 DEF WsInv, CommandsRise
  <2> QED BY <1>3, <2>1, <2>2, <2>3 DEF CommandsRise, IsCmd
<1>11. WsConsistent'
  <2>1. f.seq < be.enc.s_seq_tx
    BY <1>0, <1>1 DEF WsInv, Numbered
  <2>2. handled' <= issued'
    BY <1>0, <1>5, <1>6 DEF WsInv, WsConsistent
  <2> QED BY <1>0, <1>3, <2>1, <2>2 DEF WsInv, WsConsistent
<1>12. wsPhase = "live" /\ wsPhase' = "live"
  BY <1>0, <1>2, <1>3 DEF wsPhase
<1>13. handled' # handled => handled' > handled
  BY <1>5, <1>6
<1> QED BY <1>0, <1>3, <1>7, <1>8, <1>9, <1>10, <1>11, <1>12, <1>13 DEF WsInv, Abstract!Open, LastOpened

\* The backend takes the offer, or a frame that opens.
LEMMA WsToBe ==
  ASSUME WsInv, \/ \E n \in {0, 1} : BeIdentifies(n)
                \/ BeSilent
                \/ \E m \in Msgs : BeReceives(m)
  PROVE  WsInv' /\ UNCHANGED Abstract!sessionVars
<1> DEFINE f == Head(toBe)
<1>0. /\ WsTypeOK /\ toBe # <<>> /\ toBe \in Seq(Frames) /\ toBe' = Tail(toBe) /\ sock = "open"
      /\ enc \in Encs /\ toNode \in Seq(Frames) /\ be.enc \in Encs /\ be.offer \in Nat
      /\ s_fw_nonce \in Nat
      /\ UNCHANGED <<sock, s_fw_nonce, enc, g_ws_connected, issued, handled>>
  BY PeerIs DEF WsInv, WsTypeOK, NoConnection, BeIdentifies, BeSilent, BeReceives
<1>1. /\ toBe' \in Seq(Frames) /\ f = toBe[1] /\ 1 \in 1 .. Len(toBe) /\ f \in Frames
      /\ \A i \in 1 .. Len(toBe') : i + 1 \in 2 .. Len(toBe) /\ toBe'[i] = toBe[i + 1]
  BY <1>0, QueueTail
<1> HIDE DEF f
<1>2. \A i \in 1 .. Len(toBe') : ~toBe'[i].plain /\ toBe'[i].seq < enc.s_seq_tx
  <2>1. ASSUME NEW i \in 1 .. Len(toBe') PROVE ~toBe'[i].plain /\ toBe'[i].seq < enc.s_seq_tx
    <3>1. PICK k \in 2 .. Len(toBe) : toBe'[i] = toBe[k]
      BY <1>1
    <3>2. k \in 1 .. Len(toBe) /\ k # 1
      BY <1>0, <3>1
    <3> QED BY <3>1, <3>2 DEF WsInv, OfferFirst, Numbered
  <2> QED BY <2>1
<1>3. /\ be' \in [offer : Nat, enc : Encs] /\ be'.offer \in {0, s_fw_nonce}
      /\ toNode' \in Seq(Frames) /\ From(toNode', toNode)
      /\ \/ be'.enc.s_seq_tx = be.enc.s_seq_tx
         \/ ~enc.s_rx_init /\ \A i \in 1 .. Len(toNode) : toNode[i].plain
      /\ be'.enc.s_rx_init => be'.enc.s_seq_rx < enc.s_seq_tx
  <2>1. CASE \E n \in {0, 1} : BeIdentifies(n)
    <3>1. PICK n \in {0, 1} : BeIdentifies(n)
      BY <2>1
    <3>2. f.plain /\ f.nonce = s_fw_nonce /\ be = NoPeer
      BY <1>1, <3>1 DEF f, BeIdentifies, WsInv, OfferFirst
    <3>3. be' = [offer |-> s_fw_nonce, enc |-> ws_enc_derive(s_fw_nonce)]
      BY <3>1, <3>2 DEF f, BeIdentifies
    <3>4. PICK e : e = ws_enc_derive(s_fw_nonce)
      OBVIOUS
    <3>5. e \in Encs /\ ~e.s_rx_init
      BY <1>0, <3>4, EncDerived
    <3>6. be' \in [offer : Nat, enc : Encs] /\ be'.offer = s_fw_nonce /\ ~be'.enc.s_rx_init
      BY <1>0, <3>3, <3>4, <3>5
    <3>7. be.enc.s_seq_tx = 0 /\ enc.s_seq_rx \in Nat
      BY <1>0, <3>2, PeerIs
    <3>8. ~enc.s_rx_init
      BY <3>7 DEF WsInv, WsConsistent
    <3>9. ASSUME NEW i \in 1 .. Len(toNode), ~toNode[i].plain PROVE FALSE
      BY <1>0, <3>7, <3>9, FrameIs DEF WsInv, Numbered
    <3>10. PICK p : p = Plain("identified", n)
      OBVIOUS
    <3>11. p \in Frames /\ p.plain /\ toNode' = Append(toNode, p)
      BY <3>1, <3>10 DEF BeIdentifies, Plain, Frames, Texts
    <3>12. toNode' \in Seq(Frames) /\ From(toNode', toNode)
      BY <1>0, <3>11, QueueAppend DEF From
    <3> QED BY <3>6, <3>8, <3>9, <3>12
  <2>2. CASE BeSilent
    <3>1. UNCHANGED <<be, toNode>>
      BY <2>2 DEF BeSilent
    <3> QED BY <1>0, <3>1 DEF WsInv, WsTypeOK, WsConsistent, From
  <2>3. CASE \E m \in Msgs : BeReceives(m)
    <3>1. /\ ~f.plain /\ UNCHANGED toNode /\ be' = [be EXCEPT !.enc = ws_enc_open(@, f)]
      BY <2>3 DEF f, BeReceives
    <3>2. f.seq \in Nat /\ f.seq < enc.s_seq_tx
      BY <1>1, <3>1, FrameIs DEF WsInv, Numbered
    <3>3. PICK e : e = ws_enc_open(be.enc, f)
      OBVIOUS
    <3>4. e \in Encs /\ e.s_seq_rx = f.seq /\ e.s_seq_tx = be.enc.s_seq_tx
      BY <1>0, <3>2, <3>3, EncOpened
    <3>5. be' = [offer |-> be.offer, enc |-> e]
      BY <1>0, <3>1, <3>3 DEF WsTypeOK
    <3>6. /\ be' \in [offer : Nat, enc : Encs] /\ be'.offer = be.offer
          /\ be'.enc.s_seq_tx = be.enc.s_seq_tx /\ be'.enc.s_seq_rx < enc.s_seq_tx
      BY <1>0, <3>2, <3>4, <3>5
    <3>7. From(toNode', toNode) /\ toNode' \in Seq(Frames)
      BY <1>0, <3>1 DEF From
    <3>8. be.offer \in {0, s_fw_nonce}
      BY DEF WsInv, WsConsistent
    <3> QED BY <3>6, <3>7, <3>8
  <2> QED BY <2>1, <2>2, <2>3
<1>4. WsTypeOK' /\ NoConnection' /\ OfferFirst'
  BY <1>0, <1>1, <1>2, <1>3 DEF WsInv, WsTypeOK, NoConnection, OfferFirst
<1>5. Numbered'
  BY <1>0, <1>2, <1>3 DEF WsInv, Numbered, From
<1>6. CommandsRise'
  BY <1>0, <1>3 DEF WsInv, CommandsRise, IsCmd, From
<1>7. WsConsistent'
  BY <1>0, <1>3 DEF WsInv, WsConsistent
<1> QED BY <1>0, <1>4, <1>5, <1>6, <1>7 DEF WsInv, Abstract!sessionVars, wsPhase, LastOpened

\* A frame of the backend: a command is newer than every command before.
LEMMA WsFromBe ==
  ASSUME WsInv, NEW m \in Msgs, BeSends(m), m.kind = "cmd" => m.n = issued + 1
  PROVE  WsInv' /\ UNCHANGED Abstract!sessionVars
<1>0. /\ WsTypeOK /\ be.enc \in Encs /\ be.enc.s_ready /\ toNode \in Seq(Frames)
      /\ be.enc.s_seq_tx \in Nat /\ be.offer \in Nat
      /\ be' = [be EXCEPT !.enc = ws_enc_seal(@)] /\ issued \in Nat /\ handled \in Nat
      /\ issued' = (IF m.kind = "cmd" THEN m.n ELSE issued) /\ m.n \in Nat
      /\ UNCHANGED <<sock, s_fw_nonce, enc, g_ws_connected, toBe, handled>>
  BY PeerIs DEF WsInv, WsTypeOK, BeSends, Msgs
<1>1. be # NoPeer /\ sock = "open"
  <2>1. be # NoPeer
    BY <1>0, EncReset DEF NoPeer
  <2> QED BY <2>1 DEF WsInv, NoConnection
<1>2. PICK b : b = Bin(be.enc, m)
  OBVIOUS
<1>3. b \in Frames /\ ~b.plain /\ b.seq = be.enc.s_seq_tx /\ b.msg = m
  BY <1>0, <1>2 DEF Bin, Frames, Sealed, Encs
<1>4. /\ toNode' = Append(toNode, b) /\ toNode' \in Seq(Frames)
      /\ \A i \in 1 .. Len(toNode') :
            \/ i \in 1 .. Len(toNode) /\ toNode'[i] = toNode[i]
            \/ toNode'[i] = b
  <2>1. toNode' = Append(toNode, b)
    BY <1>2 DEF BeSends
  <2> QED BY <1>0, <1>3, <2>1, QueueAppend
<1>5. PICK e : e = ws_enc_seal(be.enc)
  OBVIOUS
<1>6. /\ e \in Encs /\ e.s_seq_tx = be.enc.s_seq_tx + 1 /\ e.s_rx_init = be.enc.s_rx_init
      /\ e.s_seq_rx = be.enc.s_seq_rx
  BY <1>0, <1>5, EncSealed
<1>7. be' = [offer |-> be.offer, enc |-> e]
  BY <1>0, <1>5 DEF WsTypeOK
<1>8. WsTypeOK' /\ NoConnection'
  <2>0. be' \in [offer : Nat, enc : Encs]
    <3>1. be.offer \in Nat /\ e \in Encs
      BY <1>0, <1>6
    <3> QED BY <1>7, <3>1
  <2>1. WsTypeOK'
    BY <1>0, <1>4, <2>0 DEF WsTypeOK
  <2>2. NoConnection'
    <3>1. NoConnection /\ sock' = "open" /\ enc' = enc
      BY <1>0, <1>1 DEF WsInv
    <3> QED BY <3>1 DEF NoConnection
  <2> QED BY <2>1, <2>2
<1>9. OfferFirst'
  BY <1>0, <1>1 DEF WsInv, OfferFirst
<1>10. Numbered'
  <2>1. ASSUME NEW i \in 1 .. Len(toNode'), ~toNode'[i].plain
        PROVE  toNode'[i].seq < be'.enc.s_seq_tx
    <3>1. CASE i \in 1 .. Len(toNode) /\ toNode'[i] = toNode[i]
      <4>1. toNode[i].seq \in Nat /\ toNode[i].seq < be.enc.s_seq_tx
        BY <1>0, <2>1, <3>1, FrameIs DEF WsInv, Numbered
      <4> QED BY <1>0, <1>6, <1>7, <3>1, <4>1
    <3>2. CASE toNode'[i] = b
      BY <1>0, <1>3, <1>6, <1>7, <3>2
    <3> QED BY <1>4, <3>1, <3>2
  <2> QED BY <1>0, <2>1 DEF WsInv, Numbered
<1>11. CommandsRise'
  <2>0. /\ issued <= issued' /\ handled <= issued
        /\ IsCmd(b) => b.msg.n = issued + 1 /\ issued' = issued + 1
    BY <1>0, <1>3 DEF IsCmd, WsInv, WsConsistent
  <2>1. ASSUME NEW i \in 1 .. Len(toNode), IsCmd(toNode[i])
        PROVE  /\ toNode[i].msg.n \in Nat /\ toNode[i].seq \in Nat
               /\ toNode[i].msg.n <= issued /\ toNode[i].seq < be.enc.s_seq_tx
    BY <1>0, <2>1, FrameIs DEF WsInv, CommandsRise, Numbered, IsCmd
  <2>2. ASSUME NEW i \in 1 .. Len(toNode'), IsCmd(toNode'[i])
        PROVE  /\ toNode'[i].msg.n <= issued'
               /\ (enc.s_rx_init => toNode'[i].seq > enc.s_seq_rx) => toNode'[i].msg.n > handled
    <3>1. CASE i \in 1 .. Len(toNode) /\ toNode'[i] = toNode[i]
      <4>1. toNode[i].msg.n \in Nat /\ toNode[i].msg.n <= issued
        BY <2>1, <2>2, <3>1
      <4>2. (enc.s_rx_init => toNode[i].seq > enc.s_seq_rx) => toNode[i].msg.n > handled
        BY <2>2, <3>1 DEF WsInv, CommandsRise
      <4> QED BY <1>0, <2>0, <3>1, <4>1, <4>2
    <3>2. CASE toNode'[i] = b
      BY <1>0, <2>0, <2>2, <3>2
    <3> QED BY <1>4, <3>1, <3>2
  <2>3. ASSUME NEW i \in 1 .. Len(toNode'), NEW k \in 1 .. Len(toNode'),
               IsCmd(toNode'[i]), IsCmd(toNode'[k]), toNode'[i].seq < toNode'[k].seq
        PROVE  toNode'[i].msg.n < toNode'[k].msg.n
    <3>1. CASE i \in 1 .. Len(toNode) /\ toNode'[i] = toNode[i]
      <4>1. CASE k \in 1 .. Len(toNode) /\ toNode'[k] = toNode[k]
        BY <2>3, <3>1, <4>1 DEF WsInv, CommandsRise
      <4>2. CASE toNode'[k] = b
        <5>1. toNode[i].msg.n \in Nat /\ toNode[i].msg.n <= issued
          BY <2>1, <2>3, <3>1
        <5> QED BY <1>0, <2>0, <2>3, <3>1, <4>2, <5>1
      <4> QED BY <1>4, <4>1, <4>2
    <3>2. CASE toNode'[i] = b
      <4>1. CASE k \in 1 .. Len(toNode) /\ toNode'[k] = toNode[k]
        <5>1. toNode[k].seq \in Nat /\ toNode[k].seq < be.enc.s_seq_tx
          BY <2>1, <2>3, <4>1
        <5> QED BY <1>0, <1>3, <2>3, <3>2, <4>1, <5>1
      <4>2. CASE toNode'[k] = b
        BY <1>0, <1>3, <2>3, <3>2, <4>2
      <4> QED BY <1>4, <4>1, <4>2
    <3> QED BY <1>4, <3>1, <3>2
  <2> QED BY <1>0, <2>2, <2>3 DEF CommandsRise, IsCmd
<1>12. WsConsistent'
  <2>1. issued \in Nat /\ handled <= issued /\ issued <= issued'
    BY <1>0 DEF WsInv, WsConsistent
  <2> QED BY <1>0, <1>6, <1>7, <2>1, PeerIs DEF WsInv, WsConsistent
<1> QED BY <1>0, <1>8, <1>9, <1>10, <1>11, <1>12 DEF WsInv, Abstract!sessionVars, wsPhase, LastOpened

-----------------------------------------------------------------------------
(* The firmware: the whole, with the add-on's requests.                    *)

NsInv == WsInv /\ ExtInv

LEMMA ExtKept ==
  ASSUME ExtInv, UNCHANGED <<s_req, s_token, s_state, asked>>
  PROVE  ExtInv'
BY DEF ExtInv

LEMMA NsInitially == NsInit => NsInv /\ Abstract!Init
<1> SUFFICES ASSUME NsInit PROVE NsInv /\ Abstract!Init
  OBVIOUS
<1>1. /\ sock = "off" /\ s_fw_nonce = 0 /\ enc = ws_enc_reset /\ g_ws_connected = FALSE
      /\ toBe = <<>> /\ toNode = <<>> /\ be = NoPeer /\ issued = 0 /\ handled = 0
      /\ s_state = "IDLE" /\ s_req = 0 /\ s_token = 0 /\ asked = {}
  BY DEF NsInit, WsInit, ExtInit
<1>2. WsTypeOK
  <2>1. <<>> \in Seq(Frames)
    OBVIOUS
  <2> QED BY <1>1, <2>1, EncReset, NoPeerIs DEF WsTypeOK
<1>3. Len(toBe) = 0 /\ Len(toNode) = 0
  BY <1>1
<1>4. NoConnection /\ OfferFirst /\ Numbered /\ CommandsRise
  <2>1. NoConnection
    BY <1>1, EncReset DEF NoConnection
  <2> QED BY <1>3, <2>1 DEF OfferFirst, Numbered, CommandsRise
<1>5. WsConsistent
  BY <1>1, NoPeerIs, EncReset DEF WsConsistent, ws_enc_reset
<1>6. ExtInv
  BY <1>1 DEF ExtInv
<1>7. Abstract!Init
  BY <1>1, EncReset DEF Abstract!Init, wsPhase
<1> QED BY <1>2, <1>4, <1>5, <1>6, <1>7 DEF NsInv, WsInv

\* An event of the connection that ends it.
LEMMA WsEnds ==
  ASSUME WsInv, \/ ConnectionLost \/ IdentifiedInVain \/ DeriveFails \/ BinRefused
                \/ WatchdogRestarts
  PROVE  WsInv' /\ Abstract!End
BY WsGone DEF ConnectionLost, IdentifiedInVain, DeriveFails, BinRefused, WatchdogRestarts,
              Answer, TextHead, BinHead

\* An event that leaves the session as it is: frames without effect, frames
\* delivered again, and no event at all.
LEMMA WsIgnores ==
  ASSUME WsInv, \/ TextIgnored \/ BinDropped \/ BeComplains \/ FrameRepeated \/ UNCHANGED wsVars
  PROVE  WsInv' /\ UNCHANGED Abstract!sessionVars
<1>0. WsTypeOK /\ toNode \in Seq(Frames) /\ (sock # "open" => toNode = <<>> /\ ~be.enc.s_ready)
  BY EncReset DEF WsInv, WsTypeOK, NoConnection, NoPeer
<1>1. /\ UNCHANGED <<sock, s_fw_nonce, enc, g_ws_connected, toBe, be, issued, handled>>
      /\ toNode' # toNode => sock = "open"
  BY <1>0 DEF TextIgnored, BinDropped, BeComplains, FrameRepeated, Ignored, TextHead, BinHead, wsVars
<1>2. toNode' \in Seq(Frames) /\ From(toNode', toNode)
  <2>1. CASE TextIgnored \/ BinDropped
    <3>1. toNode # <<>> /\ toNode' = Tail(toNode)
      BY <2>1 DEF TextIgnored, BinDropped, TextHead, BinHead, Ignored, Consumed
    <3>2. /\ toNode' \in Seq(Frames)
          /\ \A i \in 1 .. Len(toNode') : i + 1 \in 2 .. Len(toNode) /\ toNode'[i] = toNode[i + 1]
      BY <1>0, <3>1, QueueTail
    <3>3. \A k \in 2 .. Len(toNode) : k \in 1 .. Len(toNode)
      BY <1>0
    <3> QED BY <3>2, <3>3, Zenon DEF From
  <2>2. ASSUME NEW x \in Frames, toNode' = Append(toNode, x),
               x.plain \/ \E k \in 1 .. Len(toNode) : x = toNode[k]
        PROVE  toNode' \in Seq(Frames) /\ From(toNode', toNode)
    BY <1>0, <2>2, QueueAppend DEF From
  <2>3. CASE BeComplains
    <3>1. Plain("error", 0) \in Frames /\ Plain("error", 0).plain
      BY DEF Plain, Frames, Texts
    <3> QED BY <2>2, <2>3, <3>1 DEF BeComplains
  <2>4. CASE FrameRepeated
    <3>1. toNode # <<>> /\ toNode' = Append(toNode, Head(toNode))
      BY <2>4 DEF FrameRepeated
    <3>2. Head(toNode) \in Frames /\ 1 \in 1 .. Len(toNode) /\ Head(toNode) = toNode[1]
      BY <1>0, <3>1, QueueTail
    <3> QED BY <2>2, <3>1, <3>2
  <2>5. CASE UNCHANGED wsVars
    BY <1>0, <2>5 DEF wsVars, From
  <2> QED BY <2>1, <2>3, <2>4, <2>5
<1> QED BY <1>1, <1>2, WsToNode

LEMMA WsStarts ==
  ASSUME WsInv, ws_client_init
  PROVE  WsInv' /\ UNCHANGED Abstract!sessionVars
<1>1. /\ sock = "off" /\ sock' = "closed"
      /\ UNCHANGED <<s_fw_nonce, enc, g_ws_connected, toBe, toNode, be, issued, handled>>
  BY DEF ws_client_init
<1>2. WsTypeOK' /\ NoConnection' /\ WsConsistent'
  BY <1>1 DEF WsInv, WsTypeOK, NoConnection, WsConsistent
<1>3. OfferFirst' /\ Numbered' /\ CommandsRise'
  BY <1>1 DEF WsInv, OfferFirst, Numbered, CommandsRise
<1>4. wsPhase' = wsPhase
  BY <1>1 DEF wsPhase
<1> QED BY <1>1, <1>2, <1>3, <1>4 DEF WsInv, Abstract!sessionVars, LastOpened

\* An answer of the backend about a request, and the request itself.
LEMMA ExtAnswers ==
  ASSUME ExtInv, NEW r \in Nat, ext_auth_on_grant(r, r) \/ ext_auth_on_deny(r), asked' = asked
  PROVE  ExtInv'
BY DEF ExtInv, ext_auth_on_grant, ext_auth_on_deny, Awaited, extVars

LEMMA ExtOther ==
  ASSUME ExtInv, asked' = asked,
         \/ ext_auth_tick \/ ExtTime \/ ExtGone \/ UNCHANGED extVars
         \/ \E c \in BOOLEAN, sent \in BOOLEAN : ext_auth_begin(c, sent)
  PROVE  ExtInv'
<1>1. CASE ext_auth_tick
  BY <1>1 DEF ExtInv, ext_auth_tick, TimedOut
<1>2. CASE ExtTime \/ ExtGone \/ UNCHANGED extVars
  BY <1>2 DEF ExtInv, ExtTime, ExtGone, extVars
<1>3. ASSUME NEW c \in BOOLEAN, NEW sent \in BOOLEAN, ext_auth_begin(c, sent) PROVE ExtInv'
  BY <1>3 DEF ExtInv, ext_auth_begin
<1> QED BY <1>1, <1>2, <1>3

LEMMA NsStep ==
  ASSUME NsInv, [NsNext]_nsVars
  PROVE  /\ NsInv' /\ [Abstract!Next]_(Abstract!sessionVars)
         /\ handled' # handled => handled' > handled
<1> DEFINE Steps == WsInv' /\ [Abstract!Next]_(Abstract!sessionVars)
           Rises == handled' # handled => handled' > handled
           Goal == Steps /\ ExtInv' /\ Rises
<1> SUFFICES Goal
  BY DEF NsInv
<1>0. WsInv /\ ExtInv /\ s_req \in Nat /\ asked \subseteq Nat /\ issued \in Nat /\ g_ws_connected \in BOOLEAN
  BY DEF NsInv, ExtInv, WsInv, WsTypeOK
<1>1. ASSUME \/ ConnectionLost \/ IdentifiedInVain \/ DeriveFails \/ BinRefused \/ WatchdogRestarts
      PROVE  Steps /\ Rises
  <2>1. handled' = handled
    BY <1>1 DEF ConnectionLost, IdentifiedInVain, DeriveFails, BinRefused, WatchdogRestarts, Gone
  <2> QED BY <1>0, <1>1, <2>1, WsEnds DEF Abstract!Next
<1>2. ASSUME \/ TextIgnored \/ BinDropped \/ BeComplains \/ FrameRepeated \/ UNCHANGED wsVars
      PROVE  Steps /\ Rises
  <2>1. handled' = handled
    BY <1>2 DEF TextIgnored, BinDropped, BeComplains, FrameRepeated, Ignored, wsVars
  <2> QED BY <1>0, <1>2, <2>1, WsIgnores
<1>3. ASSUME ws_client_init PROVE Steps /\ Rises
  BY <1>0, <1>3, WsStarts DEF ws_client_init
<1>4. ASSUME Connected \/ on_identified PROVE Steps /\ Rises
  <2>1. handled' = handled
    BY <1>4 DEF Connected, on_identified
  <2> QED BY <1>0, <1>4, <2>1, WsConnected, WsIdentified DEF Abstract!Next
<1>5. ASSUME NEW m, handle_message(m) PROVE Steps /\ Rises
  BY <1>0, <1>5, WsHandles DEF Abstract!Next
<1>6. ASSUME NEW m \in Msgs, Send(m) PROVE Steps /\ Rises
  BY <1>0, <1>6, WsSends DEF Abstract!Next, Send
<1>7. ASSUME \/ \E n \in {0, 1} : BeIdentifies(n) \/ BeSilent
             \/ \E m \in Msgs : BeReceives(m)
      PROVE  Steps /\ Rises
  <2>1. handled' = handled
    BY <1>7 DEF BeIdentifies, BeSilent, BeReceives
  <2> QED BY <1>0, <1>7, <2>1, WsToBe
<1>8. ASSUME NEW m \in Msgs, BeSends(m), m.kind = "cmd" => m.n = issued + 1 PROVE Steps /\ Rises
  BY <1>0, <1>8, WsFromBe DEF BeSends
<1>9. \A k \in {"cmd", "grant", "deny", "outage", "data", "ask"}, n \in Nat :
        Msg(k, n) \in Msgs /\ Msg(k, n).kind = k /\ Msg(k, n).n = n
  BY DEF Msg, Msgs
<1>10. ASSUME UNCHANGED extVars, asked' = asked PROVE ExtInv'
  BY <1>0, <1>10, ExtOther
<1> HIDE DEF Steps, Rises
<1>11. CASE Boots
  BY <1>3, <1>10, <1>11 DEF Boots, Quietly
<1>12. CASE NodeEvent
  <2>1. CASE \/ Quietly(Connected) \/ Quietly(on_identified) \/ Quietly(IdentifiedInVain)
             \/ Quietly(TextIgnored) \/ Quietly(BinDropped) \/ Quietly(BinRefused)
    BY <1>1, <1>2, <1>4, <1>10, <2>1 DEF Quietly
  <2>2. CASE \E m \in {Msg("cmd", n) : n \in 1 .. issued} : Quietly(handle_message(m))
    BY <1>5, <1>10, <2>2 DEF Quietly
  <2>3. ASSUME NEW r \in 1 .. s_req,
               \/ handle_message(Msg("grant", r)) /\ ext_auth_on_grant(r, r)
               \/ handle_message(Msg("deny", r)) /\ ext_auth_on_deny(r),
               asked' = asked
        PROVE  Goal
    BY <1>0, <1>5, <2>3, ExtAnswers
  <2> QED BY <1>12, <2>1, <2>2, <2>3 DEF NodeEvent
<1>13. CASE Restarts
  BY <1>0, <1>1, <1>13, ExtOther DEF Restarts
<1>14. ASSUME NEW most \in Nat, Sends(most) PROVE Goal
  BY <1>6, <1>9, <1>10, <1>14 DEF Sends, Quietly
<1>15. ASSUME NEW most \in Nat, Begins(most) PROVE Goal
  <2>1. Msg("ask", s_req + 1) \in Msgs
    BY <1>0, <1>9
  <2>2. \E c \in BOOLEAN, sent \in BOOLEAN : ext_auth_begin(c, sent)
    BY <1>0, <1>15 DEF Begins
  <2> QED BY <1>0, <1>6, <1>15, <2>1, <2>2, ExtOther DEF Begins
<1>16. CASE Ticks \/ Time
  BY <1>0, <1>2, <1>16, ExtOther DEF Ticks, Time
<1>17. CASE BackendEvent
  <2>1. ASSUME NEW k \in {"data", "outage"}, Quietly(BeReceives(Msg(k, 0))) PROVE Goal
    BY <1>7, <1>9, <1>10, <2>1 DEF Quietly
  <2>2. ASSUME NEW r \in 1 .. s_req, BeReceives(Msg("ask", r)), asked' = asked \cup {r},
               UNCHANGED <<extVars, upsets>>
        PROVE  Goal
    <3>1. Msg("ask", r) \in Msgs
      BY <1>0, <1>9
    <3>2. ExtInv'
      BY <1>0, <2>2 DEF ExtInv, extVars
    <3> QED BY <1>7, <2>2, <3>1, <3>2
  <2> QED BY <1>17, <2>1, <2>2 DEF BackendEvent
<1>18. CASE Identifies
  BY <1>7, <1>10, <1>18 DEF Identifies, Quietly
<1>19. CASE Answers
  <2>1. PICK r \in asked, k \in {"grant", "deny"} :
           BeSends(Msg(k, r)) /\ asked' = asked \ {r} /\ UNCHANGED <<extVars, upsets>>
    BY <1>19 DEF Answers
  <2>2. Msg(k, r) \in Msgs /\ Msg(k, r).kind # "cmd"
    BY <1>0, <1>9
  <2>3. ExtInv'
    BY <1>0, <2>1 DEF ExtInv, extVars
  <2> QED BY <1>8, <2>1, <2>2, <2>3
<1>20. ASSUME NEW most \in Nat, Commands(most) PROVE Goal
  <2>1. Msg("cmd", issued + 1) \in Msgs /\ Msg("cmd", issued + 1).n = issued + 1
    BY <1>0, <1>9
  <2> QED BY <1>8, <1>10, <1>20, <2>1 DEF Commands, Quietly
<1>21. ASSUME NEW most \in Nat, GoesWrong(most) PROVE Goal
  BY <1>1, <1>2, <1>7, <1>10, <1>21 DEF GoesWrong, Upset
<1>22. CASE UNCHANGED nsVars
  BY <1>2, <1>10, <1>22 DEF nsVars
<1> HIDE DEF Goal
<1> QED BY <1>11, <1>12, <1>13, <1>14, <1>15, <1>16, <1>17, <1>18, <1>19, <1>20, <1>21, <1>22 DEF NsNext

\* The firmware's inductive invariant holds, however many connections, frames,
\* commands and requests there are.
THEOREM NodeInvariant == NsSpec => []NsInv
<1>1. NsInv /\ [NsNext]_nsVars => NsInv'
  BY NsStep
<1> QED BY NsInitially, <1>1, PTL DEF NsSpec

\* ws_client.cpp implements Session: an offer with every connection and none
\* twice, a key only from the offer at hand, and under it numbers that only grow.
THEOREM NodeImplementsSession == NsSpec => NodeKeepsSession
<1>1. NsInv /\ [NsNext]_nsVars => [Abstract!Next]_(Abstract!sessionVars)
  BY NsStep
<1> QED BY NodeInvariant, NsInitially, <1>1, PTL DEF NsSpec, NodeKeepsSession, Abstract!Spec

\* Commands of the backend take effect in the order of their sending and none
\* twice, over any number of sessions, repeated frames and lost connections.
THEOREM CommandsTakeEffectInOrder == NsSpec => CommandsInOrder
<1>1. NsInv /\ [NsNext]_nsVars => [handled' # handled => handled' > handled]_wsVars
  <2>1. ASSUME NsInv, [NsNext]_nsVars PROVE handled' # handled => handled' > handled
    BY <2>1, NsStep
  <2> QED BY <2>1
<1> QED BY NodeInvariant, <1>1, PTL DEF NsSpec, CommandsInOrder

\* GET /ext/authorize hands out the token of the request it is asked about,
\* however late, repeated or crossed the backend's answers are.
THEOREM TokenIsOfRequest == NsSpec => []TokenOfRequest
<1>1. NsInv => TokenOfRequest
  BY DEF NsInv, ExtInv, TokenOfRequest, ext_auth_state
<1> QED BY NodeInvariant, <1>1, PTL

\* The firmware and the container keep the promises of a session.
THEOREM BothKeepSessions == NsSpec /\ DkSpec => SessionsKept
BY NodeImplementsSession, DockerImplementsSession DEF SessionsKept

\* What each of them knows of its session agrees: keys, flags and numbers of the
\* firmware; sockets, timers and health of the container.
THEOREM BothConsistent == NsSpec /\ DkSpec => []SessionsConsistent
<1>1. NsInv => WsConsistent
  BY DEF NsInv, WsInv
<1>2. WsConsistent /\ OneSocket => SessionsConsistent
  BY DEF SessionsConsistent
<1> QED BY NodeInvariant, DockerOneSocket, <1>1, <1>2, PTL

=============================================================================
