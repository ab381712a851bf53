----------------------------- MODULE MCLoraLink -----------------------------
(* Small instance of LoraLink: two regions with a carrier for SENSMOS and one
   for Meshtastic each; a carrier that is listened to; plans of two channels,
   one of them without a channel to transmit on. *)
EXTENDS LoraLink

MCCarriers == {"eu", "euMesh", "wmbus", "us", "usMesh"}
MCEnvelope == [r \in Regions |-> IF r = "EU868" THEN {"eu", "euMesh", "wmbus"}
                                 ELSE {"us", "usMesh"}]
MCSmosFreq == [r \in Regions |-> IF r = "EU868" THEN "eu" ELSE "us"]
MCMeshFreq == [r \in Regions |-> IF r = "EU868" THEN "euMesh" ELSE "usMesh"]
MCSubBand == [r \in Regions |-> [b \in {0, 1} |->
                 IF b = 0 THEN {MCSmosFreq[r]} ELSE {MCMeshFreq[r]}]]
MCLimit == [r \in Regions |-> [b \in {0, 1} |-> IF b = 0 THEN 2 ELSE 1]]
MCListen == [f |-> "wmbus", mode |-> "fsk"]
MCPlans == {<<[f |-> "eu", mode |-> "lora"], MCListen>>, <<MCListen, MCListen>>}
=============================================================================
