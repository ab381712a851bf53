----------------------------- MODULE NodeLives -----------------------------
(***************************************************************************)
(* The two lives of a device together: node mode (NodeLife) and BLE mode   *)
(* (BleConfig), the loop and the BLE host task, people, the backend, the   *)
(* router and the power supply.                                            *)
(*                                                                         *)
(* What disturbs a device is counted, so that every behaviour is calm in   *)
(* the end; what the device does by itself is not.                         *)
(***************************************************************************)
EXTENDS BleConfig

CONSTANTS
    MaxUpsets,   \* bound: disturbances
    MaxMinutes   \* bound: where the minutes since the start saturate

ASSUME LivesAssumption == {MaxUpsets, MaxMinutes} \subseteq Nat

VARIABLES
    upsets,
    asked    \* history: somebody asked for the factory reset under way

livesVars == <<lifeVars, bleVars, upsets, asked>>

\* What NVS can hold.
Saved == {None, "k", "pin", "id", "blob"}
Nvs == [key : Saved, pub : Saved, owner : BOOLEAN, confirmed : BOOLEAN, deleted : BOOLEAN,
        force : BOOLEAN, pin : Saved, idOvr : Saved, ssid : Ssids \cup {"home", None},
        pending : Versions \cup {None}, wallet : Saved]

LivesInitWith(saved) == LifeInitWith(saved) /\ BleInit /\ upsets = 0 /\ asked = FALSE
LivesInit == LivesInitWith(Blank)

Upset == upsets < MaxUpsets /\ upsets' = upsets + 1
Asked == asked' = (mode' # "off" /\ (asked \/ inHand' = "factory_reset"))
InLife(A) == A /\ BleKeeps /\ Asked
ByItself(A) == InLife(A) /\ UNCHANGED upsets
InBle(A) == A /\ Asked /\ UNCHANGED upsets

Device == ByItself(Boot \/ Writes \/ NodeTasks) \/ InBle(BleLoop)

\* The clock waits for what is due in the loop.
MinutePasses == (mode = "ble" => ~full /\ ~BackDue) /\ Tick(MaxMinutes)
Clock == ByItself(MinutePasses)

Calm == ByItself(RouterBack) \/ InBle(WriteEnds \/ AppLeaves)

\* What may disturb a device.
Power == Upset /\ InLife(PowerFails)
People ==
    Upset /\ (\/ InLife(ButtonBle \/ HttpBleMode \/ HttpReboot \/ SerialUnregister \/ SerialDone)
              \/ \E s \in Ssids : InLife(SerialSetWifi(s)))
Resets == Upset /\ (ButtonReset \/ HttpReset \/ SerialReset) /\ BleKeeps /\ asked' = TRUE
Confirms == Upset /\ InLife(HttpNodeConfirm)
Network == Upset /\ InLife(RouterFails \/ BackendMoves)
Owner == Upset /\ InLife(WsDeleted \/ WsReboot)
Updates == Upset /\ \E v \in Versions : InLife(OtaHandle(v))
Connects == Upset /\ AppConnects /\ UNCHANGED asked
Sends == \E c \in Commands : InBle(WriteBegins(c))

LivesNext ==
    \/ Device \/ Clock \/ Calm
    \/ Power \/ People \/ Resets \/ Confirms \/ Network \/ Owner \/ Updates
    \/ Connects \/ Sends

\* A device is switched on with whatever it was left with.
LivesSpec == (\E saved \in Nvs : LivesInitWith(saved)) /\ [][LivesNext]_livesVars

\* The loop runs, the clock runs, the host task finishes what it began, and a
\* backend that is there answers.
LivesFairness ==
    /\ WF_livesVars(ByItself(Boot)) /\ WF_livesVars(ByItself(Writes))
    /\ WF_livesVars(InBle(BleLoop)) /\ WF_livesVars(InBle(WriteEnds))
    /\ WF_livesVars(Clock)
    /\ WF_livesVars(ByItself(WatchdogTick)) /\ WF_livesVars(ByItself(Identified))
    /\ WF_livesVars(ByItself(SessionLost)) /\ WF_livesVars(ByItself(LinkNoticed \/ LossNoticed))
    /\ WF_livesVars(ByItself(FallbackTick)) /\ WF_livesVars(ByItself(WifiReboot))
    /\ WF_livesVars(ByItself(OtaConfirmed \/ OtaTimeout))

(***************************************************************************)
(* Properties.                                                             *)
(***************************************************************************)
\* What the loop may have to do: writes with the values they may have, and steps
\* that write nothing.
Puts ==
    [op : {"put"}, key : {"key", "pub"}, val : {"k"}]
    \cup [op : {"put"}, key : {"owner", "confirmed", "deleted", "force"}, val : BOOLEAN]
    \cup [op : {"put"}, key : {"ssid"}, val : Ssids \cup {"home"}]
    \cup [op : {"put"}, key : {"pending"}, val : Versions \cup {None}]
    \cup {Put("pin", "pin"), Put("idOvr", "id"), Put("wallet", "blob")}
Clears == {Clear(ns) : ns \in DOMAIN Namespace}
Images == {Image("erase", Torn)} \cup {Image("commit", v) : v \in Versions}
Works ==
    Puts \cup Clears \cup Images
    \cup {Do(w) : w \in {"restart", "rollback", "connect", "authok", "pending", "free", "tail"}}

\* The types of the state of both lives.
LivesTypeOK ==
    /\ nv \in Nvs
    /\ flash \in [1..2 -> Versions \cup {Torn}] /\ {bootSlot, slot} \subseteq 1..2
    /\ mode \in {"off", "setup", "node", "ble"}
    /\ todo \in Seq(Works)
    /\ up \in 0..MaxMinutes + 1 /\ {lost, down} \subseteq Nat
    /\ wdg \in [active: BOOLEAN, confirmed: BOOLEAN]
    /\ upsets \in 0..MaxUpsets /\ asked \in BOOLEAN
    /\ {router, backend, radio, wifi, fallback, ws, armed, cut, app, adv, auth, full,
        wifiPending} \subseteq BOOLEAN
    /\ proven \subseteq Versions /\ rounds \in 0..TRUST_MAX_ROUNDS
    /\ {writing, buf, inHand} \subseteq Commands \cup {None, Torn}

\* Wherever the power fails, a device can start, and as long as the version it
\* starts has never been online, the other slot holds one that has
\* (ota.cpp:60-170, 190-205).
AProvenImage ==
    /\ flash[bootSlot] # Torn
    /\ \E s \in 1..2 : flash[s] \in proven
    /\ flash[bootSlot] \notin proven => flash[3 - bootSlot] \in proven

\* A timed-out onboarding, a deletion by the owner, an update and a new
\* registration keep the identity, only a factory reset loses it, and the copy
\* of the wallet survives that one too (ble_config.cpp:75-98, .ino:48-88).
IdentityKept ==
    [][/\ nv.key # None /\ nv'.key = None => asked
       /\ nv.wallet # None => nv'.wallet # None]_livesVars

\* What is carried out is what the app wrote, to the end: the host task does
\* not touch the mailbox before (ble_config.cpp:203-225, 655-660).
MailWhole == inHand # None => full /\ buf = inHand /\ buf # Torn /\ writing = None

\* A node its owner has deleted does not go on as a node: the mark leads it to
\* BLE mode until it is given a network again (.ino:133-137, ws_client.cpp:367).
DeletedStaysHome == mode = "node" /\ nv.deleted => ~Idle

Reachable ==
    /\ router /\ backend /\ ~app
    /\ nv.ssid \in {"home", "spaced"} /\ ~nv.deleted /\ flash[bootSlot] \in ReachesWs

\* Whatever it was in the middle of, a device with a network that works gets
\* back online by itself once the app has left (.ino:139-186, wifi_manager.cpp,
\* ble_config.cpp:660-670).
ComesBack == <>[]Reachable => <>[]ws

\* A device that stays unconfirmed goes back to onboarding (ble_config.cpp:45-98).
OnboardingSettles == (mode = "node" /\ ~nv.confirmed) ~> (nv.confirmed \/ mode # "node")

\* A new version that joins the WiFi and reaches no session is given up for the
\* one before it, if the power holds (ota.cpp:173-205).
UpdateSettles ==
    (mode = "node" /\ Running \in JoinsWifi \ ReachesWs)
        ~> (cut \/ flash[bootSlot] \in ReachesWs \/ ~router \/ mode = "ble")

\* Whatever power, people and networks do, the marks in flash and the mailbox
\* mean what the other half of the firmware takes them to mean.
LivesConsistent == LivesTypeOK /\ MailWhole /\ DeletedStaysHome

\* Neither an onboarding nor an update hangs half done.
SettlesDown == OnboardingSettles /\ UpdateSettles
=============================================================================
