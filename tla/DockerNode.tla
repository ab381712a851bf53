----------------------------- MODULE DockerNode -----------------------------
(***************************************************************************)
(* The container (docker/src): registration, the WebSocket client, the     *)
(* run loop, the location and the health document.  JavaScript runs one    *)
(* callback at a time, but sockets, timers and awaited lookups outlive the *)
(* callback that made them, and all of them act on the one client object.  *)
(* The sockets are numbered in the order of connect(); this.ws is the last *)
(* one.  A socket says "close" once, after which it says nothing.          *)
(*                                                                         *)
(* The backend, the network and the location services are external.  A     *)
(* link may die without a word; TCP notices only by and by.  The delay     *)
(* before a reconnect (5 to 60 s) is left out: it only says when.          *)
(***************************************************************************)
EXTENDS WsEnc, FiniteSets

CONSTANTS GRACE_MIN,        \* gracePeriodSec
          MAX_ATTEMPTS,     \* register()
          MaxFrames,        \* frames under way to the node
          MaxSealed         \* frames counted under one key
ASSUME DockerAssumption ==
    GRACE_MIN \in Nat \ {0} /\ MAX_ATTEMPTS \in Nat \ {0} /\ MaxFrames \in Nat \ {0} /\ MaxSealed \in Nat

VARIABLES
    dkMode,             \* SENSMOS_MODE
    stage,              \* "register", "run", "stopping", "exited"
    attempts,           \* made by register()
    socks,              \* states of the sockets made so far
    hs,                 \* sockets whose handshake timer runs
    handshakeTimer,     \* the one this.handshakeTimer stands for, 0: none
    reconnects,         \* reconnect timers that run
    dkEnc, fwNonce, connected,  \* the client
    nodeState,          \* wsConnected and encrypted of NodeState
    intervals,          \* sets of batch, mon and ping timers that run
    geo,                \* attempted, cached, whether a lookup is awaited
    pushes,             \* pushLocationWs calls set for the next turn
    pushedIn,           \* the session that was last told the location
    offered, frames, peer, dead,    \* the link and the backend's end of it
    up, sinceBatch      \* minutes, GRACE_MIN at most, -1: never

clientVars == <<socks, hs, handshakeTimer, reconnects, dkEnc, fwNonce, connected>>
runVars == <<nodeState, intervals, geo, pushes, pushedIn>>
linkVars == <<offered, frames, peer, dead>>
ageVars == <<up, sinceBatch>>
dkVars == <<dkMode, stage, attempts, clientVars, runVars, linkVars, ageVars>>

cur == Len(socks)
IsOpen(s) == s \in DOMAIN socks /\ socks[s] = "open"
Alive == {s \in DOMAIN socks : socks[s] # "closed"}

DkInit ==
    /\ dkMode \in {"firmware", "ingest"}
    /\ stage \in {"register", "exited"} /\ attempts = 0
    /\ socks = << >> /\ hs = {} /\ handshakeTimer = 0 /\ reconnects = 0
    /\ dkEnc = ws_enc_reset /\ fwNonce = 0 /\ connected = FALSE
    /\ nodeState = [wsConnected |-> FALSE, encrypted |-> FALSE]
    /\ intervals = 0
    /\ geo = [attempted |-> FALSE, cached |-> FALSE, awaited |-> FALSE]
    /\ pushes = 0 /\ pushedIn = 0
    /\ offered = FALSE /\ frames = << >> /\ peer = ws_enc_reset /\ dead = FALSE
    /\ up = 0 /\ sinceBatch = -1

(***************************************************************************)
(* wsclient.js.                                                            *)
(***************************************************************************)
\* connect().
connect ==
    IF stage # "stopping"
    THEN socks' = Append(socks, "connecting") ELSE UNCHANGED socks

\* open: the identify frame with a fresh nonce, and a timer for its answer.
SocketOpens(s) ==
    /\ s \in Alive /\ socks[s] = "connecting"
    /\ socks' = [socks EXCEPT ![s] = "open"]
    /\ fwNonce' = fwNonce + 1
    /\ hs' = hs \cup {s} /\ handshakeTimer' = s
    /\ offered' = TRUE /\ frames' = << >> /\ peer' = ws_enc_reset /\ dead' = FALSE
    /\ UNCHANGED <<dkMode, stage, attempts, reconnects, dkEnc, connected, runVars, ageVars>>

\* Faulty variant of scheduleReconnect: only a session that was is renewed.
scheduleReconnectOfSession == reconnects' = IF stage # "stopping" /\ connected THEN 1 ELSE reconnects

\* #scheduleReconnect: a timer in place of the one there may be.
scheduleReconnect == reconnects' = IF stage # "stopping" THEN 1 ELSE reconnects

\* close, and "disconnected" of index.js.
SocketCloses(s) ==
    /\ s \in Alive
    /\ socks' = [socks EXCEPT ![s] = "closed"]
    /\ connected' = FALSE /\ dkEnc' = ws_enc_reset
    /\ hs' = hs \ {handshakeTimer}
    /\ nodeState' = [wsConnected |-> FALSE, encrypted |-> FALSE]
    /\ scheduleReconnect
    /\ offered' = FALSE /\ frames' = << >>
    /\ UNCHANGED <<dkMode, stage, attempts, handshakeTimer, fwNonce, intervals, geo,
                   pushes, pushedIn, peer, dead, ageVars>>

Closing(s) == [socks EXCEPT ![s] = IF @ = "open" THEN "closing" ELSE @]

\* Faulty variant of HandshakeTimesOut: it reconnects without waiting for "close".
HandshakeTimesOutTwice(s) ==
    /\ s \in hs /\ hs' = hs \ {s}
    /\ socks' = (IF dkEnc.s_ready THEN socks ELSE Closing(s))
    /\ reconnects' = IF dkEnc.s_ready THEN reconnects ELSE 1
    /\ UNCHANGED <<dkMode, stage, attempts, handshakeTimer, dkEnc, fwNonce,
                   connected, runVars, linkVars, ageVars>>

\* The timer of the handshake: close() now, "close" later.
HandshakeTimesOut(s) ==
    /\ s \in hs /\ hs' = hs \ {s}
    /\ socks' = (IF dkEnc.s_ready THEN socks ELSE Closing(s))
    /\ UNCHANGED <<dkMode, stage, attempts, handshakeTimer, reconnects, dkEnc, fwNonce,
                   connected, runVars, linkVars, ageVars>>

ReconnectFires ==
    /\ reconnects > 0 /\ reconnects' = reconnects - 1
    /\ connect
    /\ UNCHANGED <<dkMode, stage, attempts, hs, handshakeTimer, dkEnc, fwNonce, connected,
                   runVars, linkVars, ageVars>>

\* send(): a sealed frame if there is a session on an open socket.  It arrives
\* unless the link is dead.  Frames beyond MaxSealed are sent but not counted.
CanSend == connected /\ IsOpen(cur)
Sent(e, ok) == IF ok /\ e.s_seq_tx < MaxSealed THEN ws_enc_seal(e) ELSE e

(***************************************************************************)
(* Messages.  A socket that closes still delivers what has arrived.        *)
(***************************************************************************)
Message ==
    /\ cur \in Alive /\ socks[cur] \in {"open", "closing"} /\ frames # << >>
    /\ frames' = Tail(frames)
    /\ UNCHANGED <<dkMode, stage, attempts, offered, peer, dead>>
AnswerCame == Message /\ Head(frames).plain /\ ~dkEnc.s_ready

\* A batch of index.js: what was handed to the socket counts as sent.
BatchSent(ok) == sinceBatch' = IF ok THEN 0 ELSE sinceBatch

\* #onIdentified and "identified" of index.js: the key, the first batch, the
\* timers in place of those of the session before, and the location next turn.
Identified ==
    /\ AnswerCame /\ Head(frames).nonce # 0
    /\ hs' = hs \ {handshakeTimer}
    /\ dkEnc' = Sent(ws_enc_derive(fwNonce), IsOpen(cur)) /\ connected' = TRUE
    /\ nodeState' = [wsConnected |-> TRUE, encrypted |-> TRUE]
    /\ BatchSent(IsOpen(cur))
    /\ intervals' = 1 /\ pushes' = pushes + 1
    /\ UNCHANGED <<socks, handshakeTimer, reconnects, fwNonce, geo, pushedIn, up>>

\* #onIdentified without the backend's half of the key.
AnswerInVain ==
    /\ AnswerCame /\ Head(frames).nonce = 0
    /\ hs' = hs \ {handshakeTimer} /\ socks' = Closing(cur)
    /\ UNCHANGED <<handshakeTimer, reconnects, dkEnc, fwNonce, connected, runVars, ageVars>>

\* Plain text with a key, sealed frames without one.
FrameDropped ==
    /\ Message /\ Head(frames).plain = dkEnc.s_ready
    /\ UNCHANGED <<clientVars, runVars, ageVars>>

FrameOpened ==
    /\ Message /\ ~Head(frames).plain /\ Opens(dkEnc, Head(frames))
    /\ dkEnc' = ws_enc_open(dkEnc, Head(frames))
    /\ UNCHANGED <<socks, hs, handshakeTimer, reconnects, fwNonce, connected, runVars, ageVars>>

FrameRefused ==
    /\ Message /\ ~Head(frames).plain /\ dkEnc.s_ready /\ ~Opens(dkEnc, Head(frames))
    /\ socks' = Closing(cur)
    /\ UNCHANGED <<hs, handshakeTimer, reconnects, dkEnc, fwNonce, connected, runVars, ageVars>>

(***************************************************************************)
(* geolocation.js: one lookup in the life of the process.  Who asks while  *)
(* it is under way gets nothing.                                           *)
(***************************************************************************)
Pushed(ok) ==
    /\ dkEnc' = Sent(dkEnc, ok)
    /\ pushedIn' = IF ok THEN fwNonce ELSE pushedIn
    /\ UNCHANGED <<dkMode, stage, attempts, socks, hs, handshakeTimer, reconnects, fwNonce,
                   connected, nodeState, intervals, linkVars, ageVars>>

pushLocationWs ==
    /\ pushes > 0 /\ pushes' = pushes - 1
    /\ geo' = [geo EXCEPT !.attempted = TRUE, !.awaited = @ \/ ~geo.attempted]
    /\ Pushed(geo.cached /\ CanSend)

\* getIpGeolocation has an answer, or none of either service: it is pushed to
\* the session there is now.
LocationFound(ok) ==
    /\ geo.awaited
    /\ geo' = [geo EXCEPT !.awaited = FALSE, !.cached = ok]
    /\ Pushed(ok /\ CanSend)
    /\ UNCHANGED pushes

(***************************************************************************)
(* index.js: start, timers and end.                                        *)
(***************************************************************************)
\* register() and what follows: a node that was not registered connects too.
RegisterAttempt(ok) ==
    /\ dkMode = "firmware" /\ stage = "register"
    /\ attempts' = attempts + 1
    /\ IF ok \/ attempts' = MAX_ATTEMPTS
       THEN stage' = "run" /\ connect ELSE UNCHANGED <<stage, socks>>
    /\ UNCHANGED <<dkMode, hs, handshakeTimer, reconnects, dkEnc, fwNonce, connected,
                   runVars, linkVars, ageVars>>

\* runIngestMode: the first push and the interval.
IngestPush(ok) ==
    /\ dkMode = "ingest" /\ stage \in {"register", "run"}
    /\ stage' = "run" /\ intervals' = 1
    /\ sinceBatch' = IF ok THEN 0 ELSE sinceBatch
    /\ UNCHANGED <<dkMode, attempts, clientVars, nodeState, geo, pushes, pushedIn, linkVars, up>>

Aged(t) == IF t \in {-1, GRACE_MIN} THEN t ELSE t + 1
Minute ==
    /\ stage \in {"register", "run"}
    /\ up' = Aged(up)
    /\ LET ok == dkMode = "firmware" /\ intervals > 0 /\ CanSend
       IN  /\ dkEnc' = Sent(dkEnc, ok)
           /\ sinceBatch' = IF ok THEN 0 ELSE Aged(sinceBatch)
    /\ UNCHANGED <<dkMode, stage, attempts, socks, hs, handshakeTimer, reconnects, fwNonce,
                   connected, runVars, linkVars>>

\* shutdown() and close(): a socket that is not open yet is left alone.
Shutdown ==
    /\ stage = "run" /\ stage' = "stopping"
    /\ intervals' = 0 /\ hs' = hs \ {handshakeTimer} /\ reconnects' = 0
    /\ socks' = (IF IsOpen(cur) THEN Closing(cur) ELSE socks)
    /\ UNCHANGED <<dkMode, attempts, handshakeTimer, dkEnc, fwNonce, connected, nodeState, geo,
                   pushes, pushedIn, linkVars, ageVars>>

Exit == stage = "stopping" /\ stage' = "exited"
        /\ UNCHANGED <<dkMode, attempts, clientVars, runVars, linkVars, ageVars>>

(***************************************************************************)
(* The link and the backend.                                               *)
(***************************************************************************)
Unchanged == UNCHANGED <<dkMode, stage, attempts, clientVars, runVars, ageVars>>

BackendAnswers(nonce) ==
    /\ offered /\ ~dead
    /\ offered' = FALSE /\ peer' = ws_enc_derive(fwNonce)
    /\ frames' = Append(frames, [plain |-> TRUE, nonce |-> nonce])
    /\ UNCHANGED dead /\ Unchanged

BackendSends ==
    /\ peer.s_ready /\ ~dead /\ Len(frames) < MaxFrames
    /\ frames' = Append(frames, [plain |-> FALSE, key |-> peer.key, seq |-> peer.s_seq_tx])
    /\ peer' = ws_enc_seal(peer)
    /\ UNCHANGED <<offered, dead>> /\ Unchanged

FrameAgain ==
    /\ frames # << >> /\ Len(frames) < MaxFrames
    /\ frames' = Append(frames, Head(frames))
    /\ UNCHANGED <<offered, peer, dead>> /\ Unchanged

BackendSilent == offered /\ offered' = FALSE /\ UNCHANGED <<frames, peer, dead>> /\ Unchanged

LinkDies ==
    /\ Alive # {} /\ ~dead /\ dead' = TRUE
    /\ offered' = FALSE /\ frames' = << >>
    /\ UNCHANGED peer /\ Unchanged

(***************************************************************************)
(* health.js.                                                              *)
(***************************************************************************)
Within(t) == t # -1 /\ t < GRACE_MIN
healthy ==
    IF dkMode = "ingest" THEN sinceBatch # -1 \/ Within(up)
    ELSE nodeState.wsConnected /\ nodeState.encrypted /\ (Within(sinceBatch) \/ Within(up))

-----------------------------------------------------------------------------
(* The container against a backend and a network that fail in every way its *)
(* client knows of, and what can be relied on all the same.                 *)

VARIABLE troubles       \* what went wrong so far

dkAll == <<dkVars, troubles>>
DkStart(at) == DkInit /\ stage = at /\ troubles = 0

Running == stage # "exited"
Fine(A) == Running /\ A /\ UNCHANGED troubles
Trouble(A, most) == Running /\ troubles < most /\ troubles' = troubles + 1 /\ A

\* A link that is alive and an answer that is on its way are waited for: a
\* socket that closes and a handshake that times out on them are troubles.
Silent == ~offered /\ frames = << >> /\ peer.s_ready = dkEnc.s_ready
Callback ==
    \/ \E s \in Alive : Fine(SocketOpens(s))
    \/ \E s \in Alive : (socks[s] = "closing" \/ (socks[s] = "open" /\ dead)) /\ Fine(SocketCloses(s))
    \/ \E s \in hs : (Silent \/ dkEnc.s_ready) /\ Fine(HandshakeTimesOut(s))
    \/ Fine(ReconnectFires)
    \/ Fine(Identified) \/ Fine(AnswerInVain)
    \/ Fine(FrameDropped) \/ Fine(FrameOpened) \/ Fine(FrameRefused)
    \/ Fine(pushLocationWs)
Lookup == \E ok \in BOOLEAN : Fine(LocationFound(ok))
Startup == Fine(RegisterAttempt(TRUE)) \/ Fine(RegisterAttempt(FALSE))
IngestTick == \E ok \in BOOLEAN : Fine(IngestPush(ok))
Clock == Fine(Minute)
Backend == Fine(BackendAnswers(1))
Ending == Fine(Shutdown) \/ Fine(Exit)
MoreFrames(most) == peer.s_seq_tx < most /\ Fine(BackendSends)

Troubles(most) ==
    \/ \E s \in Alive : socks[s] \in {"connecting", "open"} /\ Trouble(SocketCloses(s), most)
    \/ \E s \in hs : ~Silent /\ ~dkEnc.s_ready /\ Trouble(HandshakeTimesOut(s), most)
    \/ Trouble(BackendAnswers(0), most)
    \/ Trouble(BackendSilent, most)
    \/ Trouble(FrameAgain, most)
    \/ Trouble(LinkDies, most)

\* Everything that may happen, as often as it likes.
DkNext ==
    \E most \in Nat :
        \/ Callback \/ Lookup \/ Startup \/ IngestTick \/ Clock \/ Backend \/ Ending
        \/ MoreFrames(most) \/ Troubles(most)
DkSpec == (\E at \in {"register", "exited"} : DkStart(at)) /\ [][DkNext]_dkAll

\* Callbacks, timers, minutes and the backend come round.
DkFairness ==
    /\ WF_dkAll(Callback) /\ WF_dkAll(Lookup) /\ WF_dkAll(Startup)
    /\ WF_dkAll(Clock) /\ WF_dkAll(Backend)

(***************************************************************************)
(* Properties.                                                             *)
(***************************************************************************)
dkPhase == IF dkEnc.s_ready THEN "live"
           ELSE IF Alive # {} /\ socks[cur] \in {"open", "closing"} THEN "offered" ELSE "down"
AbstractDocker == INSTANCE Session WITH
    phase <- dkPhase, offers <- fwNonce, sent <- dkEnc.s_seq_tx, got <- LastOpened(dkEnc)

\* The container's session is a session as the firmware's is: a new offer for
\* each, and numbers that only grow under one key.
DockerKeepsSession == AbstractDocker!Spec

\* Once running and until it is told to stop, the client has one socket or one
\* timer that will make one, never both and never neither, one set of timers at
\* most, and its health document says what the client is.
OneSocket ==
    /\ Cardinality(Alive) <= 1 /\ intervals <= 1
    /\ dkMode = "firmware" /\ stage = "run" => Cardinality(Alive) + reconnects = 1
    /\ nodeState.wsConnected = connected /\ nodeState.encrypted = dkEnc.s_ready
    /\ connected = dkEnc.s_ready

\* However the link, the backend and the handshakes fail, a container that is
\* left in peace becomes healthy and stays so.
DockerReturns == dkMode = "firmware" => (<>(stage \in {"stopping", "exited"}) \/ <>[]healthy)

\* The session a container ends up in is told the location, if there is one,
\* although only one lookup is made and it may end in a later session than the
\* one that asked.
LocationTold ==
    <>[](connected /\ stage = "run") => <>[](pushedIn = fwNonce \/ (geo.attempted /\ ~geo.cached))
=============================================================================
