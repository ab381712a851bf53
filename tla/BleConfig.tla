----------------------------- MODULE BleConfig -----------------------------
(***************************************************************************)
(* src/src/ble_config.cpp: the BLE life of the node.  The host task of     *)
(* NimBLE takes what the app writes into a mailbox of one slot and does    *)
(* nothing else; ble_tick, in loop(), carries the command out and frees    *)
(* the slot when it has.  The two are on different cores.                  *)
(***************************************************************************)
EXTENDS NodeLife

CONSTANTS
    Commands,         \* names of the commands the app sends
    TRUST_MAX_ROUNDS

ASSUME BleAssumption ==
    TRUST_MAX_ROUNDS \in Nat \ {0} /\ {None, Torn} \cap Commands = {}

VARIABLES
    app,          \* s_connected
    adv,          \* advertising
    auth,         \* s_auth_ok
    writing,      \* the command WriteCB is copying
    buf, full,    \* s_cmd_buf, s_cmd_pending
    inHand,       \* the command ble_process_cmd is at
    rounds,       \* s_rounds_count
    wifiPending   \* s_wifi_pending

mailVars == <<writing, buf, full>>
bleVars == <<app, adv, auth, mailVars, inHand, rounds, wifiPending>>

BleInit ==
    /\ app = FALSE /\ adv = TRUE /\ auth = FALSE
    /\ writing = None /\ buf = None /\ full = FALSE
    /\ inHand = None /\ rounds = 0 /\ wifiPending = FALSE

\* All of it is RAM.
BleLost ==
    /\ app' = FALSE /\ adv' = TRUE /\ auth' = FALSE
    /\ writing' = None /\ buf' = None /\ full' = FALSE
    /\ inHand' = None /\ rounds' = 0 /\ wifiPending' = FALSE

BleKeeps == IF mode' = "off" THEN BleLost ELSE UNCHANGED bleVars

(***************************************************************************)
(* The host task.                                                          *)
(***************************************************************************)
AppConnects ==
    /\ mode = "ble" /\ ~app /\ adv
    /\ app' = TRUE /\ auth' = FALSE /\ adv' = FALSE
    /\ UNCHANGED <<mailVars, inHand, rounds, wifiPending, lifeVars>>

AppLeaves ==
    /\ app
    /\ app' = FALSE /\ auth' = FALSE /\ adv' = ~wifiPending
    /\ UNCHANGED <<mailVars, inHand, rounds, wifiPending, lifeVars>>

\* WriteCB::onWrite: refused while a command waits or is being carried out;
\* the flag goes up after the copy.
WriteBegins(c) ==
    /\ app /\ writing = None /\ ~full
    /\ writing' = c /\ buf' = Torn
    /\ UNCHANGED <<app, adv, auth, full, inHand, rounds, wifiPending, lifeVars>>

WriteEnds ==
    /\ writing # None
    /\ buf' = writing /\ full' = TRUE /\ writing' = None
    /\ UNCHANGED <<app, adv, auth, inHand, rounds, wifiPending, lifeVars>>

(***************************************************************************)
(* ble_process_cmd.  It blocks the loop until it is over, for seconds when *)
(* it repeats an answer, while the app may write, leave and come again.    *)
(***************************************************************************)
Carry(work) ==
    /\ inHand' = buf
    /\ todo' = work \o (IF work # << >> /\ Last(work) = Restart THEN << >> ELSE <<Do("free")>>)
    /\ UNCHANGED <<nv, flash, bootSlot, slot, mode, up, linkVars, guardVars, worldVars, proven,
                   cut, app, adv, auth, mailVars, wifiPending>>

\* Too many commands a minute, not JSON, a field that is missing.
CmdRefused == Carry(<< >>) /\ UNCHANGED rounds

\* wallet_status and wallet_restore only answer.
CmdWalletRead == buf = "wallet_read" /\ auth /\ Carry(<< >>) /\ UNCHANGED rounds

CmdFactoryReset == buf = "factory_reset" /\ Carry(FactoryReset) /\ UNCHANGED rounds

\* The first PIN is kept; later ones are compared.  A ceremony starts anew.
CmdAuth ==
    /\ buf = "auth"
    /\ Carry((IF nv.pin = None THEN <<Put("pin", "pin")>> ELSE << >>) \o <<Do("authok")>>)
    /\ rounds' = 0

CmdSetDeviceId ==
    buf = "set_device_id" /\ auth /\ Carry(<<Put("idOvr", "id")>>) /\ UNCHANGED rounds

\* The network first, then the owner, then five answers, and only then the
\* order to restart.
CmdRegister ==
    /\ buf = "register" /\ auth
    /\ \E s \in Ssids : Carry(WifiSaveConfig(s) \o <<Put("owner", TRUE), Do("pending")>>)
    /\ UNCHANGED rounds

CmdTrustRound ==
    /\ buf = "trust_round" /\ auth /\ rounds < TRUST_MAX_ROUNDS
    /\ Carry(<< >>) /\ rounds' = rounds + 1

\* A ceremony is signed once; "resume" also ends the BLE life.
CmdTrustSign ==
    /\ buf \in {"trust_sign", "trust_resume"} /\ auth
    /\ Carry(IF buf = "trust_resume" THEN <<Do("pending")>> ELSE << >>)
    /\ rounds' = 0

CmdWalletBackup ==
    buf = "wallet_backup" /\ auth /\ Carry(<<Put("wallet", "blob")>>) /\ UNCHANGED rounds

CmdWifiSet ==
    /\ buf = "wifi_set" /\ auth
    /\ \E s \in Ssids : Carry(WifiSaveConfig(s) \o <<Do("pending")>>)
    /\ UNCHANGED rounds

BleHandle ==
    /\ mode = "ble" /\ Idle /\ full
    /\ \/ CmdRefused \/ CmdFactoryReset \/ CmdAuth \/ CmdSetDeviceId \/ CmdRegister
       \/ CmdTrustRound \/ CmdTrustSign \/ CmdWalletRead \/ CmdWalletBackup
       \/ CmdWifiSet

\* Faulty variant of BleNext: the slot is free before the command is over.
BleNextFreesEarly ==
    /\ ~Idle /\ Head(todo).op \in {"authok", "pending", "free"}
    /\ auth' = (auth \/ Head(todo).op = "authok")
    /\ wifiPending' = (wifiPending \/ Head(todo).op = "pending")
    /\ IF Head(todo).op = "free"
       THEN full' = FALSE /\ inHand' = None /\ todo' = <<Do("tail")>>
       ELSE todo' = Tail(todo) /\ full' = FALSE /\ UNCHANGED inHand
    /\ UNCHANGED <<nv, flash, bootSlot, slot, mode, up, linkVars, guardVars, worldVars, proven,
                   cut, app, adv, writing, buf, rounds>>

\* The steps of a command that are not writes.
BleNext ==
    /\ ~Idle /\ Head(todo).op \in {"authok", "pending", "free"}
    /\ auth' = (auth \/ Head(todo).op = "authok")
    /\ wifiPending' = (wifiPending \/ Head(todo).op = "pending")
    /\ IF Head(todo).op = "free"
       THEN full' = FALSE /\ inHand' = None /\ todo' = <<Do("tail")>>
       ELSE todo' = Tail(todo) /\ UNCHANGED <<full, inHand>>
    /\ UNCHANGED <<nv, flash, bootSlot, slot, mode, up, linkVars, guardVars, worldVars, proven,
                   cut, app, adv, writing, buf, rounds>>

\* The end of ble_tick: a new network, or five minutes without an app, end the
\* BLE life of a device that has a network.
BackDue == wifiPending \/ (nv.ssid # None /\ ~app /\ up > BLE_BACK_MIN)

BleTail ==
    /\ mode = "ble"
    /\ \/ Idle /\ ~full /\ BackDue
       \/ ~Idle /\ Head(todo).op = "tail"
    /\ todo' = IF BackDue THEN <<Restart>> ELSE << >>
    /\ wifiPending' = FALSE
    /\ UNCHANGED <<nv, flash, bootSlot, slot, mode, up, linkVars, guardVars, worldVars, proven,
                   cut, app, adv, auth, mailVars, inHand, rounds>>

BleLoop == BleHandle \/ BleNext \/ BleTail
=============================================================================
