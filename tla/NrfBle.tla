------------------------------- MODULE NrfBle -------------------------------
(***************************************************************************)
(* src/nrf52840/src/ble_config.cpp: the app's commands on the nRF52840     *)
(* port, where BLE is up for the whole life of the node, next to LoRa.     *)
(* The "BLE" task, which preempts the loop and is never preempted by it,   *)
(* takes a command into the one slot; ble_tick carries it out.             *)
(***************************************************************************)
EXTENDS NrfLife

CONSTANTS
    Commands,
    TRUST_MAX_ROUNDS

ASSUME NrfBleAssumption == TRUST_MAX_ROUNDS \in Nat \ {0}

VARIABLES
    app,         \* s_connected
    auth,        \* s_auth_ok
    buf, full,   \* s_cmd_buf, s_cmd_pending
    inHand,      \* the command being carried out
    rounds,      \* s_rounds_count
    answered     \* history: rounds answered since the last auth or signature

linkVars == <<app, auth>>
slotVars == <<buf, full>>
roundVars == <<rounds, answered>>
nrfBleVars == <<linkVars, slotVars, inHand, roundVars>>

NrfBleInit ==
    /\ app = FALSE /\ auth = FALSE /\ buf = None /\ full = FALSE
    /\ inHand = None /\ rounds = 0 /\ answered = 0

NrfBleLost ==
    /\ app' = FALSE /\ auth' = FALSE /\ buf' = None /\ full' = FALSE
    /\ inHand' = None /\ rounds' = 0 /\ answered' = 0

BleKeeps == IF mode' = "off" THEN NrfBleLost ELSE UNCHANGED nrfBleVars

-----------------------------------------------------------------------------
(* The BLE task.  It is up from ble_start on; what comes in before the end *)
(* of setup() waits in the slot for the loop, and counts as come in then.  *)

on_connect ==
    /\ mode = "run" /\ ~app
    /\ app' = TRUE /\ auth' = FALSE
    /\ UNCHANGED <<slotVars, inHand, roundVars, nrfLifeVars>>

on_disconnect ==
    /\ app
    /\ app' = FALSE /\ auth' = FALSE
    /\ UNCHANGED <<slotVars, inHand, roundVars, nrfLifeVars>>

\* on_write and on_write_authorize: refused while a command is in the slot.
queue_cmd(c) ==
    /\ app /\ ~full
    /\ buf' = c /\ full' = TRUE
    /\ UNCHANGED <<linkVars, inHand, roundVars, nrfLifeVars>>

-----------------------------------------------------------------------------
(* ble_process_cmd, on the loop task. *)

Carry(globals, work) ==
    /\ inHand' = buf
    /\ Handle(globals, work \o IF work # << >> /\ Last(work) = Restart THEN << >>
                               ELSE <<Do("free")>>)
    /\ UNCHANGED <<linkVars, slotVars>>

\* Too many a minute, no JSON, a field missing, a wrong PIN, no auth; and what
\* only answers: get_info, get_mesh_cfg, wallet_status, wallet_restore.
CmdOnlyAnswers == Carry(ram, << >>) /\ UNCHANGED roundVars

CmdFactoryReset == buf = "factory_reset" /\ Carry(ram, FactoryReset) /\ UNCHANGED roundVars

CmdAuth ==
    /\ buf = "auth"
    /\ Carry(ram, <<Begin("sensmos"), Do("auth")>>)
    /\ UNCHANGED roundVars

CmdSetDeviceId ==
    /\ buf = "set_device_id" /\ auth
    /\ Carry([ram EXCEPT !.dev = "id"], Edit("sensmos", <<Put("id_ovr", "id")>>))
    /\ UNCHANGED roundVars

\* Owner and backend are saved, the answer signed; nothing restarts.
CmdRegister ==
    /\ buf = "register" /\ auth
    /\ \E o \in Owners :
          Carry([ram EXCEPT !.owner = o],
                Edit("sensmos", <<Put("owner", o), Put("backend_url", "url")>>))
    /\ UNCHANGED roundVars

CmdTrustRound ==
    /\ buf = "trust_round" /\ auth /\ rounds < TRUST_MAX_ROUNDS
    /\ Carry(ram, << >>)
    /\ rounds' = rounds + 1 /\ answered' = answered + 1

\* The rounds are given up once they are signed; a signature that fails leaves
\* them.
CmdTrustSign ==
    /\ buf = "trust_sign" /\ auth
    /\ Carry(ram, << >>)
    /\ IF ram.priv # None /\ ram.pub = ram.priv THEN rounds' = 0 /\ answered' = 0
       ELSE UNCHANGED roundVars

CmdWalletBackup ==
    /\ buf = "wallet_backup" /\ auth
    /\ Carry(ram, Edit("wallet_bak", <<Put("blob", "blob"), Put("addr", "addr")>>))
    /\ UNCHANGED roundVars

CmdSetTime ==
    /\ buf = "set_time" /\ auth
    /\ Carry([ram EXCEPT !.synced = TRUE], << >>) /\ UNCHANGED roundVars

CmdSetMeshCfg ==
    /\ buf = "set_mesh_cfg" /\ auth
    /\ \E on \in BOOLEAN, c \in MeshOrders :
          Carry([ram EXCEPT !.meshOn = on, !.mesh = Reconfigured(c)],
                mesh_tx_configure(on, Reconfigured(c)))
    /\ UNCHANGED roundVars

ble_process_cmd ==
    /\ full
    /\ \/ CmdOnlyAnswers \/ CmdFactoryReset \/ CmdAuth \/ CmdSetDeviceId \/ CmdRegister
       \/ CmdTrustRound \/ CmdTrustSign \/ CmdWalletBackup \/ CmdSetTime \/ CmdSetMeshCfg

\* The rest of auth, with the store open: the first PIN is kept, a later one
\* has to be the one in RAM.
AuthPin ==
    /\ Next1("auth")
    /\ IF doc["pin"] = None
       THEN /\ todo' = <<End>> \o Edit("sensmos", <<Put("pin", "4711")>>)
                        \o <<Do("authok"), Do("free")>>
            /\ ram' = [ram EXCEPT !.pin = "4711"]
       ELSE /\ todo' \in {<<End, Do("free")>>, <<End, Do("authok"), Do("free")>>}
            /\ UNCHANGED ram
    /\ UNCHANGED <<prefsVars, mode, worldVars, nrfBleVars>>

\* Faulty variant of AuthOk: the rounds of the ceremony before are kept.
AuthOkKeepsRounds ==
    /\ Next1("authok")
    /\ auth' = TRUE /\ answered' = 0 /\ todo' = Tail(todo)
    /\ UNCHANGED <<prefsVars, mode, ram, worldVars, app, slotVars, inHand, rounds>>

AuthOk ==
    /\ Next1("authok")
    /\ auth' = TRUE /\ rounds' = 0 /\ answered' = 0 /\ todo' = Tail(todo)
    /\ UNCHANGED <<prefsVars, mode, ram, worldVars, app, slotVars, inHand>>

\* ble_tick frees the slot when the command is over.
ble_tick ==
    /\ Next1("free")
    /\ full' = FALSE /\ inHand' = None /\ todo' = Tail(todo)
    /\ UNCHANGED <<prefsVars, mode, ram, worldVars, linkVars, buf, roundVars>>

BleLoop == ble_process_cmd \/ AuthPin \/ AuthOk \/ ble_tick
=============================================================================
