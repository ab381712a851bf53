------------------------------ MODULE Session ------------------------------
(***************************************************************************)
(* What an encrypted session with the backend promises, without sockets,   *)
(* timers or frames.  A session begins with an offer that no session made  *)
(* before, a key comes of the offer, and under one key each frame has a    *)
(* number of its own and the numbers taken in only grow.  WsSession (the   *)
(* firmware) and DockerNode (the container) implement it.                  *)
(***************************************************************************)
EXTENDS Integers

VARIABLES phase,    \* "down", "offered" or "live"
          offers,   \* offers made so far: the number of the one at hand
          sent,     \* frames sealed under the key
          got       \* number of the last frame opened, -1 before the first

sessionVars == <<phase, offers, sent, got>>

Init == phase = "down" /\ offers = 0 /\ sent = 0 /\ got = -1

Offer ==
    /\ phase = "down"
    /\ phase' = "offered" /\ offers' = offers + 1
    /\ UNCHANGED <<sent, got>>

\* The first frame may leave with the step that makes the key.
Agree ==
    /\ phase = "offered"
    /\ phase' = "live" /\ sent' \in {0, 1} /\ got' = -1
    /\ UNCHANGED offers

Seal ==
    /\ phase = "live"
    /\ sent' = sent + 1
    /\ UNCHANGED <<phase, offers, got>>

Open ==
    /\ phase = "live"
    /\ got' > got
    /\ UNCHANGED <<phase, offers, sent>>

End ==
    /\ phase # "down"
    /\ phase' = "down" /\ sent' = 0 /\ got' = -1
    /\ UNCHANGED offers

Next == Offer \/ Agree \/ Seal \/ Open \/ End

Spec == Init /\ [][Next]_sessionVars
=============================================================================
