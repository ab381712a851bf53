------------------------------ MODULE ExtAuth ------------------------------
(***************************************************************************)
(* ext_auth.cpp: an add-on on the local network asks, through the node,    *)
(* for the owner's leave.  One request at a time; the answer is kept for   *)
(* the add-on to fetch, and not for ever.  Requests are numbered, and a    *)
(* token is named by the request it was made for.                          *)
(***************************************************************************)
EXTENDS Integers

CONSTANTS EXT_MIN_GAP, EXT_TIMEOUT, EXT_KEEP     \* in steps of time
ASSUME ExtAssumption ==
    /\ EXT_MIN_GAP \in Nat /\ EXT_TIMEOUT \in Nat /\ EXT_KEEP \in Nat
    /\ EXT_MIN_GAP < EXT_TIMEOUT

VARIABLES s_state,      \* "IDLE", "PENDING", "GRANTED", "DENIED"
          s_req,        \* the last request, 0 before the first
          s_token,      \* 0: none
          s_started,    \* time since the request
          s_settled     \* time since the answer, -1: none

extVars == <<s_state, s_req, s_token, s_started, s_settled>>

ExtInit ==
    /\ s_state = "IDLE" /\ s_req = 0 /\ s_token = 0
    /\ s_started = EXT_TIMEOUT + 1 /\ s_settled = -1

\* ext_auth_begin: "connected" says whether there is a session, "sent" whether
\* the request left.  A request that did not leave has used its turn.
ext_auth_begin(connected, sent) ==
    /\ s_state # "PENDING" /\ s_started >= EXT_MIN_GAP /\ connected
    /\ s_req' = s_req + 1 /\ s_token' = 0
    /\ s_started' = 0 /\ s_settled' = -1
    /\ s_state' = IF sent THEN "PENDING" ELSE "IDLE"

\* Faulty variant of Awaited: any answer will do.
AwaitedAny(req) == s_state = "PENDING"

\* Late and repeated answers are for nobody.
Awaited(req) == s_state = "PENDING" /\ req = s_req

ext_auth_on_grant(req, token) ==
    IF Awaited(req)
    THEN /\ s_token' = token /\ s_state' = "GRANTED" /\ s_settled' = 0
         /\ UNCHANGED <<s_req, s_started>>
    ELSE UNCHANGED extVars

ext_auth_on_deny(req) ==
    IF Awaited(req)
    THEN s_state' = "DENIED" /\ s_settled' = 0 /\ UNCHANGED <<s_req, s_token, s_started>>
    ELSE UNCHANGED extVars

TimedOut == s_state = "PENDING" /\ s_started > EXT_TIMEOUT
Stale == s_settled > EXT_KEEP

ext_auth_tick ==
    \/ /\ TimedOut /\ s_state' = "DENIED" /\ s_settled' = 0
       /\ UNCHANGED <<s_req, s_token, s_started>>
    \/ /\ Stale /\ s_state' = "IDLE" /\ s_token' = 0 /\ s_settled' = -1
       /\ UNCHANGED <<s_req, s_started>>

\* ext_auth_state, which GET /ext/authorize turns into its answer.
ext_auth_state(req) == IF req # s_req THEN "IDLE" ELSE s_state

Older(t, cap) == IF t > cap THEN t ELSE t + 1
ExtTime ==
    /\ ~TimedOut /\ ~Stale
    /\ s_started' = Older(s_started, EXT_TIMEOUT)
    /\ s_settled' = IF s_settled = -1 THEN -1 ELSE Older(s_settled, EXT_KEEP)
    /\ UNCHANGED <<s_state, s_req, s_token>>

ExtGone ==
    /\ s_state' = "IDLE" /\ s_token' = 0 /\ s_started' = EXT_TIMEOUT + 1
    /\ s_settled' = -1 /\ UNCHANGED s_req
=============================================================================
