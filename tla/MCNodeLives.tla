----------------------------- MODULE MCNodeLives -----------------------------
(* Small instance of NodeLives.  Each behaviour is one "part" of a device's
   life, so that the state space is the sum of the parts: onboarding over BLE,
   the first minutes after it, updates, a node between its networks, and people. *)
EXTENDS NodeLives

VARIABLE part

Registered == [Blank EXCEPT !.key = "k", !.pub = "k", !.owner = TRUE, !.ssid = "home",
                            !.pin = "pin"]
OnBoard == [Registered EXCEPT !.confirmed = TRUE]

MCInit ==
    \/ part = "app" /\ LivesInit
    \/ part = "arrival" /\ LivesInitWith(Registered)
    \/ part \in {"updates", "network", "people"} /\ LivesInitWith(OnBoard)

MCNext ==
    /\ UNCHANGED part
    /\ \/ Device \/ Clock \/ Calm
       \/ part = "app" /\ ~radio /\ (Connects \/ Sends \/ Power)
       \/ part = "updates" /\ ~radio /\ (Updates \/ Power)
       \/ part = "network" /\ (Network \/ Power)
       \/ part = "arrival" /\ ~radio /\ (Network \/ Confirms \/ Power)
       \/ part = "people" /\ ~radio /\ (People \/ Resets \/ Owner)

MCSpec == MCInit /\ [][MCNext]_<<livesVars, part>> /\ LivesFairness
=============================================================================
