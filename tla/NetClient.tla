------------------------------ MODULE NetClient ------------------------------
(***************************************************************************)
(* What the clients of the network worker share: the record a job carries  *)
(* through the worker, and the main loop's hand-over of one result at a    *)
(* time (src/SENSMOS_Firmware.ino, loop).                                  *)
(*                                                                         *)
(* The worker echoes source, slot and reference id; the further fields of  *)
(* a tag are history.  The loop is one thread: while it works on a result, *)
(* or is half way through filling a cycle, no other client of it runs; the *)
(* worker's task runs at any moment.                                       *)
(***************************************************************************)
EXTENDS NetWorker

CONSTANTS Tags,     \* what a NetJob says about its client
          Copies    \* history: tells jobs of equal tag apart; bounds their number

ASSUME NetClientAssumption == Jobs = [tag : Tags, n : Copies]

VARIABLES
    nr,         \* the result the loop has polled and is dispatching
    filling     \* how far the loop is in checknet_on_jobs or in
                \* awaits_check_timeouts, 0 outside of them

clientVars == <<nr, filling>>

ClientInit == nr = NoResult /\ filling = 0

LoopFree == nr = NoResult /\ filling = 0

\* The jobs some client still waits for: in the worker, or being dispatched.
Present  == inFlight \cup ({nr.job} \ {NoJob})

\* net_worker_enqueue with what it returns as a guard: Submit is TRUE, ~Room is
\* FALSE.
Room(hi) == Accepts(IF hi THEN hiQ ELSE loQ)

Submit(hi, t) ==
    LET taken == {j.n : j \in {k \in Present : k.tag = t}}
        job   == [tag |-> t, n |-> CHOOSE n \in Copies : n \notin taken]
    IN  /\ ~(Copies \subseteq taken)
        /\ IF hi THEN EnqueueHi(job) ELSE EnqueueLo(job)

\* One turn of "while (net_worker_poll(nr))".
Take ==
    /\ LoopFree
    /\ Poll
    /\ nr' = Head(resQ)
    /\ UNCHANGED filling

\* The dispatch of a result to the client it belongs to.
Dispatched(src) == nr # NoResult /\ nr.job.tag.src = src

Done == nr' = NoResult /\ UNCHANGED filling
=============================================================================
