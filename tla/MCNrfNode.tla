------------------------------ MODULE MCNrfNode ------------------------------
(* Small instance of NrfNode.  Each behaviour is one "part" of a node's life:
   the app's commands, the console's, and the uplink with its clock. *)
EXTENDS NrfNode

VARIABLE part

MCKeys == {"privkey", "pubkey", "api_token", "id_ovr", "pin", "owner", "backend_url",
           "enabled", "channel", "psk", "portnum", "region", "blob", "addr"}
MCMeshDefault == [channel |-> "LongFast", psk |-> "AQ==", portnum |-> "text"]
MCMeshValues == {"LongFast", "own", "AQ==", "key", "text", "private"}

\* A channel of one's own with its key and port, its channel alone, and back.
MCMeshOrders ==
    {MCMeshDefault, [channel |-> "own", psk |-> "key", portnum |-> "private"],
     [channel |-> "own", psk |-> None, portnum |-> None]}

MCValues == Pairs \cup Owners \cup Regions \cup MCMeshValues
            \cup {"token", "id", "4711", "url", "on", "off", "blob", "addr"}

\* Bound: events of the console's part, which has the most commands.
MaxAtConsole == 2

MCInit ==
    /\ NrfInit
    /\ part \in {"app", "console", "radio"} /\ radio = (part = "radio")

ConsoleOfRadio ==
    InLife(cmd_set_time \/ cmd_done \/ \E on \in BOOLEAN, s \in Slots : cmd_lora_cfg(on, s))
        \/ InUplink(cmd_send_now)

MCNext ==
    /\ UNCHANGED part
    /\ \/ Loop \/ Sender \/ Smos \/ Meshtastic
       \/ part = "radio" /\ (Clock \/ (ConsoleOfRadio /\ Cmd))
       \/ part = "app" /\ (AppComesGoes \/ AppSends \/ Troubles)
       \/ part = "console" /\ cmds + upsets < MaxAtConsole /\ (ConsoleLine \/ Troubles)

\* The tasks run and the clock does; a frame that is refused or over budget is
\* tried again in every minute and every hour.
MCSpec ==
    /\ MCInit /\ [][MCNext]_<<nrfVars, part>>
    /\ WF_nrfVars(Loop) /\ WF_nrfVars(Sender) /\ WF_nrfVars(part = "radio" /\ Clock)
    /\ SF_nrfVars(Smos) /\ SF_nrfVars(Meshtastic)
=============================================================================
