----------------------------- MODULE MCSessions -----------------------------
(* Small instance of the two nodes that keep a session with the backend.  Each
   behaviour is one "part": the firmware under commands, the firmware with an
   add-on's requests, and the container.  The others stand still. *)
EXTENDS Sessions

VARIABLE part

MCInit ==
    /\ NsInit
    /\ \/ part \in {"commands", "addon"} /\ dkMode = "ingest" /\ DkStart("exited")
       \/ part = "docker" /\ DkStart("register")

Firmware ==
    \/ Boots \/ NodeEvent \/ Restarts \/ BackendEvent \/ Identifies
    \/ part = "commands" /\ (Sends(2) \/ Commands(3) \/ GoesWrong(3))
    \/ part = "addon" /\ (Begins(2) \/ Ticks \/ Time \/ Answers \/ Commands(1) \/ GoesWrong(2))

Docker ==
    \/ Callback \/ Lookup \/ Startup \/ IngestTick \/ Clock \/ Backend \/ Ending
    \/ MoreFrames(2) \/ Troubles(2)

MCNext ==
    /\ UNCHANGED part
    /\ \/ part # "docker" /\ Firmware /\ UNCHANGED dkAll
       \/ part = "docker" /\ Docker /\ UNCHANGED nsVars

MCSpec == MCInit /\ [][MCNext]_<<nsVars, dkAll, part>> /\ NsFairness /\ DkFairness

\* Both nodes, left in peace, get back to the backend: the firmware to its
\* session, the container to its health.
BothReturn == NodeReturns /\ DockerReturns

\* Left in peace, both nodes get back to the backend and finish what was begun:
\* a request of an add-on is settled, the container's location is told.
AllSettle == BothReturn /\ AuthSettles /\ LocationTold
=============================================================================
