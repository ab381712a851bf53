---------------------------- MODULE MCNetWorker ----------------------------
(* Small instance of NetWorker: a STUN, a punch and two probes, queues of
   two jobs and one result, so that every queue fills up. *)
EXTENDS NetWorker

CONSTANTS stun, punch, p1, p2

MCJobs == {stun, punch, p1, p2}
MCKind == [j \in MCJobs |-> CASE j = stun -> "stun" [] j = punch -> "punch" [] OTHER -> "probe"]
=============================================================================
