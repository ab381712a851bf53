------------------------------ MODULE CheckNow ------------------------------
(***************************************************************************)
(* src/src/checknow.cpp: a one-off HTTP probe the backend asks for.  One   *)
(* job at a time: the slot holds the id of the backend's job until its     *)
(* result is reported, and a deferred probe is retried once.               *)
(***************************************************************************)
EXTENDS NetClient

CONSTANTS CnowIds,   \* ids of the backend's jobs
          NoCnow     \* g_id[0] = 0

VARIABLES
    cnowId,        \* g_id
    cnowRetried    \* g_retried

cnowVars == <<cnowId, cnowRetried>>

CnowTags == [src : {"cnow"}, id : CnowIds]

ASSUME CheckNowAssumption == NoCnow \notin CnowIds /\ CnowTags \subseteq Tags

CnowTag(id) == [src |-> "cnow", id |-> id]

CnowInit == cnowId = NoCnow /\ cnowRetried = FALSE

\* checknow_on_cmd with a url that passes the checks: dropped while the slot is
\* held, and when the worker is full.
CnowOnCmd ==
    /\ LoopFree
    /\ cnowId = NoCnow
    /\ \E id \in CnowIds :
         /\ Room(TRUE)
         /\ Submit(TRUE, CnowTag(id))
         /\ cnowId' = id
    /\ cnowRetried' = FALSE
    /\ UNCHANGED clientVars

\* checknow_on_net_result: one retry of a deferred probe, if the worker takes
\* it; anything else is reported and frees the slot.
CnowOnResult ==
    /\ Dispatched("cnow")
    /\ \/ /\ cnowId # NoCnow
          /\ nr.outcome = "deferred" /\ ~cnowRetried /\ Room(TRUE)
          /\ Submit(TRUE, CnowTag(cnowId))
          /\ cnowRetried' = TRUE
          /\ UNCHANGED cnowId
       \/ /\ nr.outcome # "deferred" \/ cnowRetried \/ ~Room(TRUE)
          /\ cnowId' = NoCnow
          /\ UNCHANGED <<netVars, cnowRetried>>
    /\ Done

CnowNext == CnowOnCmd \/ CnowOnResult

-----------------------------------------------------------------------------
\* The slot is held exactly while one probe is on its way, and that probe is
\* the job whose id is held: nothing else frees the slot, so a lost probe would
\* silence check-now until the next boot, and the id reported is the id asked.
CnowSlotBacked ==
    {j.tag.id : j \in {k \in Present : k.tag.src = "cnow"}} = {cnowId} \ {NoCnow}
    /\ Cardinality({j \in Present : j.tag.src = "cnow"}) <= 1
=============================================================================
