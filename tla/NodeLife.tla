------------------------------ MODULE NodeLife ------------------------------
(***************************************************************************)
(* SENSMOS_Firmware.ino, src/src/wifi_manager.cpp, src/src/ota.cpp and the *)
(* onboarding watchdog of src/src/ble_config.cpp: which of its two lives,  *)
(* node mode or BLE mode, a device starts after every restart, what each   *)
(* of them leaves in NVS and in flash, and how it comes back from the      *)
(* other one.                                                              *)
(*                                                                         *)
(* Whatever a handler writes to NVS or to flash is a step of its own, kept *)
(* in todo until it is done: the power may fail between any two of them,   *)
(* and nothing else of the loop runs before they are over.                 *)
(* Time is counted in minutes and its timers saturate.                     *)
(***************************************************************************)
EXTENDS Integers, FiniteSets, SequencesExt

CONSTANTS
    Versions,        \* firmware images
    Factory,         \* the version the device is sold with
    JoinsWifi,       \* versions that manage to join the WiFi
    ReachesWs,       \* versions that manage to open a session
    Ssids,           \* SSIDs the app may send, see Joined
    WDG_MIN,         \* 60 s to confirm the onboarding
    WIFI_DOWN_REBOOT_MIN,
    LORA_FALLBACK_AFTER_MIN,
    BLE_BACK_MIN,    \* 300000 ms of ble_tick
    OTA_CONFIRM_TIMEOUT_MIN

None == "none"
Torn == "torn"

ASSUME LifeAssumption ==
    /\ {None, Torn} \cap Versions = {}
    /\ Factory \in Versions \cap JoinsWifi \cap ReachesWs
    /\ JoinsWifi \subseteq Versions /\ ReachesWs \subseteq JoinsWifi
    /\ Ssids \subseteq {"home", "spaced", "wrong"}
    /\ {WDG_MIN, WIFI_DOWN_REBOOT_MIN, LORA_FALLBACK_AFTER_MIN, BLE_BACK_MIN,
        OTA_CONFIRM_TIMEOUT_MIN} \subseteq Nat \ {0}

VARIABLES
    nv,        \* NVS: sensmos, sensmos_wifi, sensmos_ota, wallet_bak
    flash,     \* the images of the two slots
    bootSlot,  \* the slot the next start takes
    slot,      \* the slot the running firmware came from
    mode,      \* "off", "setup", "node" (node_running) or "ble" (g_ble_active)
    todo,      \* writes the loop is in the middle of
    up,        \* minutes since this start
    router,    \* the WiFi network is there
    wifi,      \* g_wifi_connected
    lost,      \* minutes since s_lost, counted from 1; 0 is the code's 0
    radio,     \* a LoRa radio answered at the start (s_ok)
    down,      \* minutes since s_down_since, counted from 1; 0 is the code's 0
    fallback,  \* lora_fallback_active()
    backend,   \* the backend is there and knows the device
    ws,        \* a session is open and encrypted
    wdg,       \* s_wdg_active, s_wdg_confirmed
    armed,     \* s_confirm_armed
    proven,    \* history: versions that have had a session
    cut        \* history: the power has failed

bootVars == <<nv, flash, bootSlot, slot, mode, todo, up>>
linkVars == <<wifi, lost, down, fallback, ws>>
guardVars == <<wdg, armed>>
worldVars == <<router, backend, radio>>
lifeVars == <<bootVars, linkVars, guardVars, worldVars, proven, cut>>

Blank == [key |-> None, pub |-> None, owner |-> FALSE, confirmed |-> FALSE,
          deleted |-> FALSE, force |-> FALSE, pin |-> None, idOvr |-> None,
          ssid |-> None, pending |-> None, wallet |-> None]

\* What factory resets clear: a namespace in one step.
Namespace ==
    [sensmos |-> {"key", "pub", "owner", "confirmed", "deleted", "force", "pin", "idOvr"},
     sensmos_wifi |-> {"ssid"}]

Running == flash[slot]
Other == 3 - slot
Minute(n, cap) == IF n > cap THEN n ELSE n + 1

(***************************************************************************)
(* What is still to be written.                                            *)
(***************************************************************************)
Put(k, v) == [op |-> "put", key |-> k, val |-> v]
Clear(ns) == [op |-> "clear", key |-> ns, val |-> None]
Do(what) == [op |-> what, key |-> None, val |-> None]
Image(what, v) == [op |-> what, key |-> None, val |-> v]

Restart == Do("restart")

\* wallet_bak and sensmos_ota survive a factory reset.  (All but POST
\* /factory-reset also clear sensmos_api, which nothing here reads.)
FactoryReset == <<Clear("sensmos"), Clear("sensmos_wifi"), Restart>>

\* A new network takes the mark of a deleted node away.
WifiSaveConfig(s) == <<Put("ssid", s), Put("deleted", FALSE)>>

Written(w) ==
    IF w.op = "put" THEN [nv EXCEPT ![w.key] = w.val]
    ELSE [f \in DOMAIN nv |-> IF f \in Namespace[w.key] THEN Blank[f] ELSE nv[f]]

Idle == todo = << >>
InNode == mode = "node" /\ Idle

\* RAM is lost with a restart.
Down ==
    /\ mode' = "off" /\ todo' = << >> /\ up' = 0
    /\ wifi' = FALSE /\ lost' = 0 /\ down' = 0 /\ fallback' = FALSE /\ ws' = FALSE
    /\ wdg' = [active |-> FALSE, confirmed |-> FALSE] /\ armed' = FALSE

(***************************************************************************)
(* setup().                                                                *)
(***************************************************************************)
\* A device as it was left, which came with the factory's firmware.
LifeInitWith(saved) ==
    /\ nv = saved /\ flash = [s \in 1..2 |-> IF s = 1 THEN Factory ELSE Torn]
    /\ bootSlot = 1 /\ slot = 1
    /\ mode = "off" /\ todo = << >> /\ up = 0
    /\ router = TRUE /\ backend = TRUE
    /\ radio \in BOOLEAN
    /\ wifi = FALSE /\ lost = 0 /\ down = 0 /\ fallback = FALSE /\ ws = FALSE
    /\ wdg = [active |-> FALSE, confirmed |-> FALSE] /\ armed = FALSE
    /\ proven = {Factory} /\ cut = FALSE

\* identity_init: the two halves of the key pair are written one after the
\* other, and the first alone says that the pair is there.
KeyPair == IF nv.key = None THEN <<Put("key", "k"), Put("pub", "k")>> ELSE << >>

PowerOn ==
    /\ mode = "off"
    /\ slot' = bootSlot /\ mode' = "setup" /\ todo' = KeyPair
    /\ UNCHANGED <<nv, flash, bootSlot, up, linkVars, guardVars, worldVars,
                   proven, cut>>

BleStart ==
    /\ mode' = "ble" /\ up' = 0
    /\ UNCHANGED <<flash, bootSlot, slot, linkVars, guardVars, worldVars, proven, cut>>

BootDeleted ==
    /\ mode = "setup" /\ Idle /\ nv.deleted
    /\ BleStart /\ UNCHANGED <<nv, todo>>

\* Faulty variant of BootForced: the flag stays up.
BootForcedSticky ==
    /\ mode = "setup" /\ Idle /\ ~nv.deleted /\ nv.force
    /\ BleStart /\ UNCHANGED <<nv, todo>>

\* The flag is taken down before the BLE mode it asks for.
BootForced ==
    /\ mode = "setup" /\ Idle /\ ~nv.deleted /\ nv.force
    /\ nv' = [nv EXCEPT !.force = FALSE]
    /\ BleStart /\ UNCHANGED todo

BootNew ==
    /\ mode = "setup" /\ Idle /\ ~nv.deleted /\ ~nv.force /\ nv.ssid = None
    /\ BleStart /\ UNCHANGED <<nv, todo>>

BootWithWifi == mode = "setup" /\ Idle /\ ~nv.deleted /\ ~nv.force /\ nv.ssid # None

\* wifi_connect: a name that differs in spaces is found too, and if the
\* network is hidden the name that worked is saved.
Joined(s) == router /\ Running \in JoinsWifi /\ s \in {"home", "spaced"}
LinkUp == Joined(nv.ssid)
Corrections(s) == IF s = "spaced" THEN {<< >>, <<Put("ssid", "home")>>} ELSE {<< >>}

\* ota_init: the first start of a new version waits for a session; another
\* version's mark is stale.
OtaInit ==
    /\ armed' = (nv.pending # None /\ nv.pending = Running)
    /\ \E fix \in Corrections(nv.ssid) :
          todo' = fix \o (IF nv.pending \in {None, Running} THEN << >>
                          ELSE <<Put("pending", None)>>)

\* watchdog_start: a node confirmed once is never asked again.
WatchdogStart == wdg' = [active |-> ~nv.confirmed, confirmed |-> nv.confirmed]

BootNode ==
    /\ BootWithWifi /\ Joined(nv.ssid)
    /\ mode' = "node" /\ up' = 0
    /\ wifi' = TRUE /\ lost' = 0 /\ down' = 0 /\ fallback' = FALSE /\ ws' = FALSE
    /\ OtaInit /\ WatchdogStart
    /\ UNCHANGED <<nv, flash, bootSlot, slot, worldVars, proven, cut>>

BootWifiFailed ==
    /\ BootWithWifi /\ ~Joined(nv.ssid)
    /\ todo' = <<Put("force", TRUE), Restart>>
    /\ UNCHANGED <<nv, flash, bootSlot, slot, mode, up, linkVars, guardVars, worldVars, proven, cut>>

Boot == PowerOn \/ BootDeleted \/ BootForced \/ BootNew \/ BootNode \/ BootWifiFailed

(***************************************************************************)
(* The next write, commit or restart of what was begun.                    *)
(***************************************************************************)
WriteNext ==
    /\ ~Idle /\ Head(todo).op \in {"put", "clear"}
    /\ nv' = Written(Head(todo)) /\ todo' = Tail(todo)
    /\ UNCHANGED <<flash, bootSlot, slot, mode, up, linkVars, guardVars, worldVars,
                   proven, cut>>

RestartNext ==
    /\ ~Idle /\ Head(todo).op = "restart"
    /\ Down
    /\ UNCHANGED <<nv, flash, bootSlot, slot, worldVars, proven, cut>>

\* Update.begin and the writes spoil the other slot; Update.end makes it the
\* one to boot from.
FlashNext ==
    /\ ~Idle /\ Head(todo).op \in {"erase", "commit"}
    /\ flash' = [flash EXCEPT ![Other] = Head(todo).val]
    /\ bootSlot' = IF Head(todo).op = "commit" THEN Other ELSE bootSlot
    /\ todo' = Tail(todo)
    /\ UNCHANGED <<nv, slot, mode, up, linkVars, guardVars, worldVars, proven, cut>>

\* Update.rollBack, if the other slot holds a bootable image.
RollBackNext ==
    /\ ~Idle /\ Head(todo).op = "rollback"
    /\ IF flash[Other] # Torn
       THEN /\ bootSlot' = Other /\ todo' = Tail(todo)
       ELSE /\ todo' = << >> /\ UNCHANGED bootSlot
    /\ UNCHANGED <<nv, flash, slot, mode, up, linkVars, guardVars, worldVars, proven, cut>>

\* wifi_connect of the console's set_wifi; the network may answer only after
\* it has given up.
ConnectNext ==
    /\ ~Idle /\ Head(todo).op = "connect"
    /\ wifi' \in {FALSE, LinkUp} /\ ws' = FALSE
    /\ \E fix \in IF wifi' THEN Corrections(nv.ssid) ELSE {<< >>} : todo' = fix \o Tail(todo)
    /\ UNCHANGED <<nv, flash, bootSlot, slot, mode, up, lost, down, fallback, guardVars, worldVars, proven, cut>>

Writes == WriteNext \/ RestartNext \/ FlashNext \/ RollBackNext \/ ConnectNext

(***************************************************************************)
(* loop() in node mode.                                                    *)
(***************************************************************************)
Begin(work) ==
    /\ todo' = work
    /\ UNCHANGED <<nv, flash, bootSlot, slot, mode, up, linkVars, guardVars, worldVars,
                   proven, cut>>

WatchdogDue == wdg.active /\ ~wdg.confirmed /\ up > WDG_MIN

\* Faulty variant of WatchdogTick: everything of the device is cleared.
WatchdogTickResets == InNode /\ WatchdogDue /\ Begin(FactoryReset)

\* watchdog_tick: back to onboarding, the identity stays.
WatchdogTick ==
    /\ InNode /\ WatchdogDue
    /\ Begin(<<Put("owner", FALSE), Put("confirmed", FALSE), Clear("sensmos_wifi"), Restart>>)

\* watchdog_confirm, from POST /node/confirm or from the session.
WatchdogConfirm == IF wdg.confirmed THEN << >> ELSE <<Put("confirmed", TRUE)>>

HttpNodeConfirm ==
    /\ InNode /\ LinkUp
    /\ wdg' = [wdg EXCEPT !.confirmed = TRUE] /\ todo' = WatchdogConfirm
    /\ UNCHANGED <<nv, flash, bootSlot, slot, mode, up, linkVars, armed, worldVars,
                   proven, cut>>

\* on_identified: the backend knows the device.
Identified ==
    /\ InNode /\ LinkUp /\ backend /\ Running \in ReachesWs /\ ~ws
    /\ ws' = TRUE /\ proven' = proven \cup {Running}
    /\ wdg' = [wdg EXCEPT !.confirmed = TRUE] /\ todo' = WatchdogConfirm
    /\ UNCHANGED <<nv, flash, bootSlot, slot, mode, up, wifi, lost, down, fallback, armed, worldVars, cut>>

SessionLost ==
    /\ InNode /\ ws /\ ~(LinkUp /\ backend)
    /\ ws' = FALSE
    /\ UNCHANGED <<bootVars, wifi, lost, down, fallback, guardVars, worldVars, proven, cut>>

\* wifi_maintain: g_wifi_connected is raised again only if the loss was seen.
LinkNoticed ==
    /\ InNode /\ LinkUp /\ lost # 0
    /\ lost' = 0 /\ wifi' = TRUE
    /\ UNCHANGED <<bootVars, down, fallback, ws, guardVars, worldVars, proven, cut>>

LossNoticed ==
    /\ InNode /\ ~LinkUp /\ lost = 0
    /\ wifi' = FALSE /\ lost' = 1
    /\ UNCHANGED <<bootVars, down, fallback, ws, guardVars, worldVars, proven, cut>>

RebootDue == ~fallback /\ lost > WIFI_DOWN_REBOOT_MIN
FallbackDue ==
    radio /\ IF wifi THEN fallback \/ down # 0
             ELSE ~fallback /\ (down = 0 \/ down > LORA_FALLBACK_AFTER_MIN)

\* lora_fallback_tick: it goes by g_wifi_connected, with a clock of its own.
FallbackTick ==
    /\ InNode /\ FallbackDue
    /\ fallback' = (~wifi /\ down # 0)
    /\ down' = IF wifi THEN 0 ELSE IF down = 0 THEN 1 ELSE down
    /\ UNCHANGED <<bootVars, wifi, lost, ws, guardVars, worldVars, proven, cut>>

\* wifi_maintain after four minutes: a node the radio carries stays up.
WifiReboot ==
    /\ InNode /\ ~LinkUp /\ RebootDue
    /\ Begin(<<Restart>>)

\* on_deleted and on_reboot.
WsDeleted == InNode /\ ws /\ Begin(<<Put("deleted", TRUE), Restart>>)
WsReboot == InNode /\ ws /\ Begin(<<Restart>>)

\* POST /node/ble_mode, /node/reboot, /factory-reset.
HttpBleMode == InNode /\ LinkUp /\ Begin(<<Put("force", TRUE), Restart>>)
HttpReboot == InNode /\ LinkUp /\ Begin(<<Restart>>)
HttpReset == InNode /\ LinkUp /\ Begin(FactoryReset)

\* button_tick: three seconds and ten.
ButtonBle == mode \in {"node", "ble"} /\ Idle /\ Begin(<<Put("force", TRUE), Restart>>)
ButtonReset == mode \in {"node", "ble"} /\ Idle /\ Begin(FactoryReset)

(***************************************************************************)
(* Updates.                                                                *)
(***************************************************************************)
\* Faulty variant of OtaHandle: an order is taken without a session.
OtaHandleAnyTime(v) ==
    /\ InNode /\ LinkUp /\ v # Running
    /\ \/ Begin(<<Image("erase", Torn)>>)
       \/ Begin(<<Image("erase", Torn), Image("commit", v), Put("pending", v), Restart>>)

\* ota_handle: only inside an encrypted session, and not for the version that
\* runs.  The slot becomes the one to boot from when the whole image is there
\* and its hash is right, and the mark follows.
OtaHandle(v) ==
    /\ InNode /\ ws /\ v # Running
    /\ \/ Begin(<<Image("erase", Torn)>>)
       \/ Begin(<<Image("erase", Torn), Image("commit", v), Put("pending", v), Restart>>)

ConfirmDue == armed /\ up > OTA_CONFIRM_TIMEOUT_MIN

\* ota_tick.
OtaConfirmed ==
    /\ InNode /\ armed /\ ws
    /\ armed' = FALSE /\ todo' = <<Put("pending", None)>>
    /\ UNCHANGED <<nv, flash, bootSlot, slot, mode, up, linkVars, wdg, worldVars, proven, cut>>

\* Faulty variant of OtaTimeout: the mark goes, the image stays.
OtaTimeoutForgets ==
    /\ InNode /\ ConfirmDue /\ ~ws
    /\ armed' = FALSE
    /\ todo' = <<Put("pending", None), Restart>>
    /\ UNCHANGED <<nv, flash, bootSlot, slot, mode, up, linkVars, wdg, worldVars, proven, cut>>

OtaTimeout ==
    /\ InNode /\ ConfirmDue /\ ~ws
    /\ armed' = FALSE
    /\ todo' = <<Put("pending", None), Do("rollback"), Restart>>
    /\ UNCHANGED <<nv, flash, bootSlot, slot, mode, up, linkVars, wdg, worldVars, proven, cut>>

(***************************************************************************)
(* The console, the world and the clock.                                   *)
(***************************************************************************)
Console == mode \in {"node", "ble"} /\ Idle
SerialSetWifi(s) == Console /\ Begin(WifiSaveConfig(s) \o <<Do("connect")>>)
SerialUnregister == Console /\ nv.owner /\ Begin(<<Put("owner", FALSE)>>)
SerialDone == Console /\ Begin(<<Restart>>)
SerialReset == Console /\ Begin(FactoryReset)

RouterFails == router /\ router' = FALSE
               /\ UNCHANGED <<bootVars, linkVars, guardVars, backend, radio, proven, cut>>
RouterBack == ~router /\ router' = TRUE
              /\ UNCHANGED <<bootVars, linkVars, guardVars, backend, radio, proven, cut>>
BackendMoves == backend' = ~backend
                /\ UNCHANGED <<bootVars, linkVars, guardVars, router, radio, proven, cut>>

\* The power fails: what was not written is not written.
PowerFails ==
    /\ mode # "off"
    /\ Down /\ cut' = TRUE
    /\ UNCHANGED <<nv, flash, bootSlot, slot, worldVars, proven>>

\* The loop passes many times a minute: what is due in it comes first.
LoopDue ==
    \/ WatchdogDue \/ (ConfirmDue /\ ~ws) \/ FallbackDue
    \/ (RebootDue /\ ~LinkUp) \/ (LinkUp <=> lost # 0)

Tick(cap) ==
    /\ mode \in {"node", "ble"} /\ Idle
    /\ mode = "node" => ~LoopDue
    /\ up' = Minute(up, cap)
    /\ lost' = IF lost = 0 THEN 0 ELSE Minute(lost, WIFI_DOWN_REBOOT_MIN)
    /\ down' = IF down = 0 THEN 0 ELSE Minute(down, LORA_FALLBACK_AFTER_MIN)
    /\ UNCHANGED <<nv, flash, bootSlot, slot, mode, todo, wifi, fallback, ws, guardVars,
                   worldVars, proven, cut>>

NodeTasks ==
    \/ WatchdogTick \/ Identified \/ SessionLost \/ LinkNoticed \/ LossNoticed
    \/ FallbackTick \/ WifiReboot \/ OtaConfirmed \/ OtaTimeout
=============================================================================
