---------------------------- MODULE NodeSession ----------------------------
(***************************************************************************)
(* The firmware's session with what rides on it and on its breaks: the     *)
(* commands of the backend and the leave an add-on asks for, whose answer  *)
(* may come in a later session than the question, or after a newer one.    *)
(***************************************************************************)
EXTENDS WsSession, ExtAuth, FiniteSets

VARIABLES asked,        \* requests the backend has and did not answer
          upsets        \* what went wrong so far

nsVars == <<wsVars, extVars, asked, upsets>>

NsInit == WsInit /\ ExtInit /\ asked = {} /\ upsets = 0

Quietly(A) == A /\ UNCHANGED <<extVars, asked, upsets>>
Upset(A, most) == upsets < most /\ upsets' = upsets + 1 /\ A

Boots == Quietly(ws_client_init)

\* The node's own events.
NodeEvent ==
    \/ Quietly(Connected)
    \/ Quietly(on_identified)
    \/ Quietly(IdentifiedInVain)
    \/ Quietly(TextIgnored)
    \/ Quietly(BinDropped)
    \/ Quietly(BinRefused)
    \/ \E m \in {Msg("cmd", n) : n \in 1..issued} : Quietly(handle_message(m))
    \/ \E r \in 1..s_req :
          /\ \/ handle_message(Msg("grant", r)) /\ ext_auth_on_grant(r, r)
             \/ handle_message(Msg("deny", r)) /\ ext_auth_on_deny(r)
          /\ UNCHANGED <<asked, upsets>>

\* A restart of the node: what it has in RAM goes with the connection.
Restarts == WatchdogRestarts /\ ExtGone /\ UNCHANGED <<asked, upsets>>

Sends(most) ==
    /\ enc.s_seq_tx < most
    /\ Quietly(Send(Msg("data", 0)))

\* POST /ext/authorize.
Begins(most) ==
    /\ s_req < most
    /\ Send(Msg("ask", s_req + 1))
    /\ \E sent \in {toBe' # toBe} : ext_auth_begin(g_ws_connected, sent)
    /\ UNCHANGED <<asked, upsets>>

Ticks == ext_auth_tick /\ UNCHANGED <<wsVars, asked, upsets>>
Time == ExtTime /\ UNCHANGED <<wsVars, asked, upsets>>

BackendEvent ==
    \/ \E m \in {Msg(k, 0) : k \in {"data", "outage"}} : Quietly(BeReceives(m))
    \/ \E r \in 1..s_req :
          /\ BeReceives(Msg("ask", r))
          /\ asked' = asked \cup {r} /\ UNCHANGED <<extVars, upsets>>
Identifies == Quietly(BeIdentifies(1))

Answers ==
    \E r \in asked, k \in {"grant", "deny"} :
        /\ BeSends(Msg(k, r))
        /\ asked' = asked \ {r} /\ UNCHANGED <<extVars, upsets>>
Commands(most) == issued < most /\ Quietly(BeSends(Msg("cmd", issued + 1)))

GoesWrong(most) ==
    Upset(UNCHANGED <<extVars, asked>> /\
          \/ ConnectionLost
          \/ DeriveFails
          \/ BeIdentifies(0)
          \/ BeSilent
          \/ FrameRepeated
          \/ BeComplains, most)

\* Everything that may happen, as often as it likes.
NsNext ==
    \E most \in Nat :
        \/ Boots \/ NodeEvent \/ Restarts \/ Sends(most) \/ Begins(most) \/ Ticks \/ Time
        \/ BackendEvent \/ Identifies \/ Answers \/ Commands(most) \/ GoesWrong(most)
NsSpec == NsInit /\ [][NsNext]_nsVars

\* loop() and the backend go on; what goes wrong need not.
NsFairness ==
    /\ WF_nsVars(NodeEvent) /\ WF_nsVars(Restarts)
    /\ WF_nsVars(Identifies) /\ WF_nsVars(BackendEvent)
    /\ WF_nsVars(Ticks) /\ WF_nsVars(Time)

(***************************************************************************)
(* Properties.                                                             *)
(***************************************************************************)
wsPhase == IF enc.s_ready THEN "live" ELSE IF sock = "open" THEN "offered" ELSE "down"
Abstract == INSTANCE Session WITH
    phase <- wsPhase, offers <- s_fw_nonce, sent <- enc.s_seq_tx, got <- LastOpened(enc)

\* The firmware's session is a session: no offer is made twice, so no two
\* sessions share a key, and under a key the numbers only grow.
NodeKeepsSession == Abstract!Spec

\* What GET /ext/authorize hands out as granted was granted for the request it
\* names, and only then is there a token in RAM.
TokenOfRequest ==
    /\ \A r \in 1..s_req : ext_auth_state(r) = "GRANTED" => s_token = r
    /\ s_token # 0 => s_state = "GRANTED"

\* Whatever becomes of the session, a request is settled and its answer goes.
AuthSettles ==
    /\ s_state = "PENDING" ~> s_state # "PENDING"
    /\ s_token # 0 ~> s_token = 0

\* A node whose client was started and that is left in peace ends up in a session and stays in it.
NodeReturns == <>(sock # "off") => <>[]g_ws_connected
=============================================================================
