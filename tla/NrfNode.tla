------------------------------ MODULE NrfNode ------------------------------
(***************************************************************************)
(* A node of the nRF52840 port: the loop task (NrfLife, the commands of    *)
(* NrfBle) on top of the store (PrefsStore), the BLE task, the LoRa task,  *)
(* the app, the console, the power supply and a flash that may fail.  What *)
(* disturbs a node is counted.                                             *)
(*                                                                         *)
(* The first part is src/nrf52840/src/data_sender.cpp, lora_scan.cpp and   *)
(* mesh_tx.cpp, the port's batches: the loop signs one and gives the same  *)
(* bytes to two outboxes; the LoRa task sends them frame by frame, SENSMOS *)
(* and Meshtastic in turn on one radio.  LoraLink models the sharing of    *)
(* that radio; here a frame is one step.  Time is counted in minutes.      *)
(***************************************************************************)
EXTENDS NrfBle

CONSTANTS
    NFrag,                                   \* frames of a batch
    MIN_SEND_INTERVAL, FORCE_SEND_INTERVAL,  \* minutes
    OpenSlots                                \* slots before the end of a minute

ASSUME NrfNodeAssumption ==
    /\ {NFrag, MIN_SEND_INTERVAL, FORCE_SEND_INTERVAL} \subseteq Nat \ {0}
    /\ MIN_SEND_INTERVAL <= FORCE_SEND_INTERVAL
    /\ OpenSlots \subseteq Slots

VARIABLES
    g_pending_send,
    since,     \* minutes since g_last_send and g_last_health
    up,        \* the outbox: the batch, and the frames of it on the air
    mesh       \* the same for Meshtastic

nrfUpVars == <<g_pending_send, since, up, mesh>>

NoBatch == [batch |-> << >>, frag |-> 0]

\* g_last_send = 0 makes the first batch due at once.
Fresh == [send |-> FORCE_SEND_INTERVAL, health |-> 0]

NrfUpInit ==
    g_pending_send = FALSE /\ since = Fresh /\ up = NoBatch /\ mesh = NoBatch

UpKeeps ==
    IF mode' = "off"
    THEN g_pending_send' = FALSE /\ since' = Fresh /\ up' = NoBatch /\ mesh' = NoBatch
    ELSE UNCHANGED nrfUpVars

\* identity_sign checks what it signed with the public half.
identity_sign == ram.priv # None /\ ram.pub = ram.priv

Batch == <<[dev |-> ram.dev, owner |-> ram.owner, priv |-> ram.priv, pub |-> ram.pub]>>
Queued == [batch |-> Batch, frag |-> 0]

uplink_pending == up # NoBatch
mesh_uplink_pending == mesh # NoBatch

\* A request stays until a batch is in the outbox; Meshtastic takes the batch
\* if it has room, radio or not.
send_batch ==
    /\ since' = [since EXCEPT !.send = 0]
    /\ IF uplink_pending \/ ~identity_sign THEN UNCHANGED <<g_pending_send, up, mesh>>
       ELSE /\ IF radio THEN up' = Queued /\ g_pending_send' = FALSE
               ELSE UNCHANGED <<up, g_pending_send>>
            /\ mesh' = (IF ram.meshOn /\ ~mesh_uplink_pending THEN Queued ELSE mesh)

HealthDue == since.health >= 1
SendDue ==
    \/ g_pending_send /\ since.send >= MIN_SEND_INTERVAL
    \/ since.send >= FORCE_SEND_INTERVAL

\* A pass that logs the health of the node sends nothing.
data_sender_tick ==
    /\ mode = "run" /\ Idle
    /\ \/ /\ HealthDue
          /\ since' = [since EXCEPT !.health = 0] /\ UNCHANGED <<g_pending_send, up, mesh>>
       \/ ~HealthDue /\ SendDue /\ send_batch
    /\ UNCHANGED nrfLifeVars

cmd_send_now ==
    /\ mode = "run" /\ Idle
    /\ g_pending_send' = TRUE
    /\ UNCHANGED <<since, up, mesh, nrfLifeVars>>

-----------------------------------------------------------------------------
(* The LoRa task. *)

\* Seconds of a minute after the beacon's slot and before the guard time.  The
\* slot of a plan is not reduced to the slots there are: a late one leaves none.
InWindow == radio /\ ram.on /\ ram.slot \in OpenSlots

\* Faulty variant of NextFrame: the outbox is not freed with the last frame.
NextFrameStays(q) == IF q.frag + 1 < NFrag THEN [q EXCEPT !.frag = @ + 1] ELSE q

NextFrame(q) == IF q.frag + 1 < NFrag THEN [q EXCEPT !.frag = @ + 1] ELSE NoBatch

\* What fails or is over budget is sent again: that is a step not taken.
uplink_tx_next ==
    /\ InWindow /\ uplink_pending
    /\ up' = NextFrame(up)
    /\ UNCHANGED <<g_pending_send, since, mesh, nrfLifeVars>>

mesh_tx_next ==
    /\ InWindow /\ mesh_uplink_pending /\ ram.meshOn
    /\ mesh' = NextFrame(mesh)
    /\ UNCHANGED <<g_pending_send, since, up, nrfLifeVars>>

\* The clock waits for the loop.
MinutePasses ==
    /\ mode = "run" /\ Idle /\ ~HealthDue /\ ~SendDue
    /\ since' = [send |-> since.send + 1, health |-> 1]
    /\ UNCHANGED <<g_pending_send, up, mesh, nrfLifeVars>>

(***************************************************************************)
(* The whole node.                                                         *)
(***************************************************************************)
CONSTANTS
    MaxUpsets,   \* bound: power failures, failing saves, failing key generation
    MaxEvents    \* bound: these, and commands of the app and of the console

VARIABLES
    upsets, cmds,
    failed       \* history: a save or the key generation failed since the start

countVars == <<upsets, cmds, failed>>
nrfVars == <<nrfLifeVars, nrfBleVars, nrfUpVars, countVars>>

NrfInit ==
    NrfLifeInit /\ NrfBleInit /\ NrfUpInit /\ upsets = 0 /\ cmds = 0 /\ failed = FALSE

InLife(A) == A /\ BleKeeps /\ UpKeeps
InBle(A) == A /\ UpKeeps
InUplink(A) == A /\ UNCHANGED nrfBleVars

Uncounted == UNCHANGED <<upsets, cmds>> /\ failed' = (failed /\ mode' # "off")
EventLeft == upsets + cmds < MaxEvents
Upset == EventLeft /\ upsets < MaxUpsets /\ upsets' = upsets + 1 /\ UNCHANGED cmds
Cmd == EventLeft /\ cmds' = cmds + 1 /\ UNCHANGED <<upsets, failed>>

Loop == (InLife(Setup \/ StoreNext \/ SaveNext \/ RestartNext) \/ InBle(BleLoop)) /\ Uncounted
Sender == InUplink(data_sender_tick) /\ Uncounted
Smos == InUplink(uplink_tx_next) /\ Uncounted
Meshtastic == InUplink(mesh_tx_next) /\ Uncounted
Clock == InUplink(MinutePasses) /\ Uncounted

AppComesGoes == InBle(on_connect \/ on_disconnect) /\ Uncounted
AppSends == (\E c \in Commands : InBle(queue_cmd(c))) /\ Cmd
ConsoleLine == (InLife(Console) \/ InUplink(cmd_send_now)) /\ Cmd
Troubles ==
    /\ Upset
    /\ \/ InLife(PowerFails) /\ failed' = FALSE
       \/ InLife(FlashFails \/ NoKeys) /\ failed' = TRUE

NrfNext ==
    \/ Loop \/ Sender \/ Smos \/ Meshtastic \/ Clock
    \/ AppComesGoes \/ AppSends \/ ConsoleLine \/ Troubles

NrfSpec == NrfInit /\ [][NrfNext]_nrfVars

-----------------------------------------------------------------------------
(* Properties. *)

\* The types of what the loop, the two tasks and the store keep.
NrfTypeOK ==
    /\ PrefsTypeOK
    /\ mode \in {"off", "setup", "run"}
    /\ ram.region \in Regions /\ ram.mesh \in MeshCfgs /\ ram.slot \in Slots
    /\ {radio, app, auth, full, g_pending_send} \subseteq BOOLEAN
    /\ rounds \in 0..TRUST_MAX_ROUNDS
    /\ {up.frag, mesh.frag} \subseteq 0..NFrag - 1
    /\ since.send \in 0..FORCE_SEND_INTERVAL /\ since.health \in 0..1

\* What is carried out is what the app wrote, to the end, although the BLE task
\* may run between any two steps of the loop (ble_config.cpp:167-180, 715-719).
SlotWhole == inHand # None => full /\ buf = inHand

Sensmos == file["sensmos"].doc
SensmosMesh == file["sensmos_mesh"].doc

\* Between two handlers the node works with what it will find after a restart:
\* identity, owner, region and the mesh's channel, key and port, whichever of
\* console and app changed them last and wherever the power failed before, also
\* between the writes of one order (identity.cpp:103-198,
\* ble_config.cpp:145-154, mesh_tx.cpp:39-105, lora_scan.cpp:602-645).
RamIsSaved ==
    (mode = "run" /\ Idle /\ ~failed) =>
        /\ ram.priv = Sensmos["privkey"] /\ ram.pub = Sensmos["pubkey"]
        /\ ram.dev = Default(Sensmos["id_ovr"], ram.pub)
        /\ ram.owner = Sensmos["owner"]
        /\ ram.meshOn = (SensmosMesh["enabled"] # "off")
        /\ ram.mesh.channel = Default(SensmosMesh["channel"], MeshCfgDefault.channel)
        /\ ram.mesh.psk = Default(SensmosMesh["psk"], MeshCfgDefault.psk)
        /\ ram.mesh.portnum = Default(SensmosMesh["portnum"], MeshCfgDefault.portnum)
        /\ ram.region = Default(SensmosMesh["region"], RegionDefault)

\* What holds of the node's memory: its types and both of the above.
NodeConsistent == NrfTypeOK /\ SlotWhole /\ RamIsSaved

\* What the node signs it can stand for: a batch in an outbox verifies with the
\* key whose id it carries, also after a start that found half a pair; and the
\* rounds an attestation covers are those of its own ceremony
\* (identity.cpp:200-223, data_sender.cpp:92-152, ble_config.cpp:246-270, 357-470).
SignsWhatItShould ==
    /\ \A q \in {up, mesh} : \A i \in DOMAIN q.batch :
          LET b == q.batch[i]
          IN b.priv # None /\ b.pub = b.priv /\ b.dev \in {b.pub, "id"}
    /\ rounds = answered

\* A node with a radio, a plan that transmits and a whole pair of keys.
Serving ==
    mode = "run" /\ InWindow /\ identity_sign

\* A node always gets through its start.  While nothing disturbs it, it fills
\* its outbox and empties it again and again, and a request for a batch is
\* served (data_sender.cpp:92-172, lora_scan.cpp:866-927).
NodeServes ==
    /\ (mode # "run") ~> (mode = "run")
    /\ <>[]Serving => ([]<>uplink_pending /\ []<>~uplink_pending)
    /\ g_pending_send ~> (~g_pending_send \/ ~Serving)
=============================================================================
