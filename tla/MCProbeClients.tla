--------------------------- MODULE MCProbeClients ---------------------------
(* Small instance of ProbeClients. *)
EXTENDS ProbeClients

MCTags   == CnTags \cup MonTags \cup CnowTags \cup NiTags
MCCopies == 1 .. 6
MCJobs   == [tag : MCTags, n : MCCopies]
MCKind   == [j \in MCJobs |-> "probe"]
MCSlots  == {1}
MCMonIds == 1 .. 2
=============================================================================
