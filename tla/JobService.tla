----------------------------- MODULE JobService -----------------------------
(***************************************************************************)
(* What the network worker promises its clients, without queues, order or  *)
(* tasks: a job that is accepted is executed once and its result is        *)
(* delivered once.  NetWorker implements this specification.               *)
(***************************************************************************)
CONSTANTS Jobs, Outcomes

VARIABLES pending,   \* jobs accepted and not executed
          done       \* results produced and not delivered

serviceVars == <<pending, done>>

Init == pending = {} /\ done = {}

Accept(j) ==
    /\ j \notin pending
    /\ \A r \in done : r.job # j
    /\ pending' = pending \cup {j}
    /\ UNCHANGED done

Finish(j, o) ==
    /\ j \in pending
    /\ pending' = pending \ {j}
    /\ done' = done \cup {[job |-> j, outcome |-> o]}

Deliver(r) ==
    /\ r \in done
    /\ done' = done \ {r}
    /\ UNCHANGED pending

Next ==
    \/ \E j \in Jobs : Accept(j)
    \/ \E j \in Jobs, o \in Outcomes : Finish(j, o)
    \/ \E r \in done : Deliver(r)

Spec == Init /\ [][Next]_serviceVars
=============================================================================
