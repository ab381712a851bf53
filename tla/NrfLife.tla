------------------------------ MODULE NrfLife ------------------------------
(***************************************************************************)
(* src/nrf52840/src/main.cpp, identity.cpp, serial_cmd.cpp, mesh_tx.cpp:   *)
(* what a node of the nRF52840 port loads from its store when it starts,   *)
(* what it keeps of that in RAM, and what the serial console changes in    *)
(* both.  setup() and every handler run on the loop task: what they still  *)
(* have to do is kept in todo, and nothing else of the loop runs before.   *)
(*                                                                         *)
(* The store's namespaces: "sensmos", "sensmos_mesh", "wallet_bak" and     *)
(* "sensmos_test"; on this board nothing is written to the two others a    *)
(* factory reset clears.                                                   *)
(***************************************************************************)
EXTENDS PrefsStore, SequencesExt

CONSTANTS
    Pairs,       \* key pairs there are to make
    Owners,
    Regions, RegionDefault,
    MeshCfgDefault,   \* a channel, its key and the port of its packets
    MeshOrders,       \* the same as an order gives it, None for a field left out
    Slots             \* slots a plan may give

MeshCfgs == [channel : PrefsValues, psk : PrefsValues, portnum : PrefsValues]

ASSUME NrfAssumption ==
    /\ RegionDefault \in Regions /\ MeshCfgDefault \in MeshCfgs /\ 0 \in Slots
    /\ MeshOrders \subseteq [channel : PrefsValues \cup {None}, psk : PrefsValues \cup {None},
                             portnum : PrefsValues \cup {None}]
    /\ {"sensmos", "sensmos_mesh", "wallet_bak", "sensmos_test"} \subseteq Namespaces
    /\ {"privkey", "pubkey", "api_token", "id_ovr", "pin", "owner", "backend_url", "enabled",
        "channel", "psk", "portnum", "region", "blob", "addr"} \subseteq PrefsKeys
    /\ Pairs \cup Owners \cup Regions \subseteq PrefsValues
    /\ {"token", "id", "4711", "url", "on", "off", "blob", "addr"} \subseteq PrefsValues

VARIABLES
    mode,     \* "off", "setup" or "run" (node_running)
    todo,     \* what the loop task is in the middle of
    ram,      \* globals that mirror the store
    radio,    \* a LoRa radio answered the probe (s_ok)
    minted    \* history: key pairs that were made

nrfLifeVars == <<prefsVars, mode, todo, ram, radio, minted>>
worldVars == <<radio, minted>>

Zero == [priv |-> None, pub |-> None, dev |-> None, owner |-> None, pin |-> None,
         meshOn |-> TRUE, mesh |-> MeshCfgDefault, region |-> RegionDefault,
         synced |-> FALSE, on |-> FALSE, slot |-> 0]

NrfLifeInit ==
    /\ PrefsInit
    /\ mode = "off" /\ todo = << >> /\ ram = Zero /\ radio \in BOOLEAN /\ minted = {}

Op(what, arg, val) == [op |-> what, arg |-> arg, val |-> val]
Put(k, v) == Op("put", k, v)
Do(what) == Op(what, None, None)
Begin(n) == Op("begin", n, None)
End == Do("end")
Restart == Do("restart")

\* begin .. end around some writes.
Edit(n, puts) == <<Begin(n)>> \o puts \o <<End>>

Idle == todo = << >> /\ saving = "no"
Next1(what) == todo # << >> /\ Head(todo).op = what /\ saving = "no"

Default(v, d) == IF v = None THEN d ELSE v

-----------------------------------------------------------------------------
(* setup(). *)

storage_selftest == Edit("sensmos_test", <<Put("blob", "blob")>>)
identity_init == <<Begin("sensmos"), Do("keys"), Do("token"), Do("identity"), End>>
ble_load_config == <<Begin("sensmos"), Do("config"), End>>
mesh_tx_init == <<Begin("sensmos_mesh"), Do("mesh"), End>>
lora_scan_init == <<Begin("sensmos_mesh"), Do("region"), End>>

AfterIdentity == ble_load_config \o mesh_tx_init \o lora_scan_init \o <<Do("run")>>

PowerOn ==
    /\ mode = "off"
    /\ mode' = "setup"
    /\ todo' = storage_selftest \o identity_init \o AfterIdentity
    /\ UNCHANGED <<prefsVars, ram, worldVars>>

\* The halves of a pair are saved one after the other; from then on the first
\* one alone says that there is a pair.
NewKeys ==
    /\ Next1("keys") /\ doc["privkey"] = None
    /\ \E p \in Pairs \ minted :
          /\ ram' = [ram EXCEPT !.priv = p, !.pub = p] /\ minted' = minted \cup {p}
          /\ todo' = <<Put("privkey", p), Put("pubkey", p)>> \o Tail(todo)
    /\ UNCHANGED <<prefsVars, mode, radio>>

OldKeys ==
    /\ Next1("keys") /\ doc["privkey"] # None
    /\ ram' = [ram EXCEPT !.priv = doc["privkey"], !.pub = doc["pubkey"]]
    /\ todo' = Tail(todo)
    /\ UNCHANGED <<prefsVars, mode, worldVars>>

\* uECC_make_key failed four times: setup goes on without an identity.
NoKeys ==
    /\ Next1("keys") /\ doc["privkey"] = None
    /\ todo' = <<End>> \o AfterIdentity
    /\ UNCHANGED <<prefsVars, mode, ram, worldVars>>

LoadToken ==
    /\ Next1("token")
    /\ todo' = (IF doc["api_token"] = None THEN <<Put("api_token", "token")>> ELSE << >>)
               \o Tail(todo)
    /\ UNCHANGED <<prefsVars, mode, ram, worldVars>>

\* compute_device_id, unless the app gave the node its id of before.
LoadIdentity ==
    /\ Next1("identity")
    /\ ram' = [ram EXCEPT !.dev = Default(doc["id_ovr"], ram.pub)]
    /\ todo' = Tail(todo)
    /\ UNCHANGED <<prefsVars, mode, worldVars>>

LoadConfig ==
    /\ Next1("config")
    /\ ram' = [ram EXCEPT !.pin = Default(doc["pin"], "123456"), !.owner = doc["owner"]]
    /\ todo' = Tail(todo)
    /\ UNCHANGED <<prefsVars, mode, worldVars>>

\* Each field is loaded on its own: after power failed between their writes
\* they are not those of one order.
LoadMesh ==
    /\ Next1("mesh")
    /\ ram' = [ram EXCEPT !.meshOn = doc["enabled"] # "off",
                          !.mesh = [channel |-> Default(doc["channel"], MeshCfgDefault.channel),
                                    psk |-> Default(doc["psk"], MeshCfgDefault.psk),
                                    portnum |-> Default(doc["portnum"], MeshCfgDefault.portnum)]]
    /\ todo' = Tail(todo)
    /\ UNCHANGED <<prefsVars, mode, worldVars>>

\* The default plan is on the air at once, in a slot that goes by the id.
LoadRegion ==
    /\ Next1("region")
    /\ ram' = [ram EXCEPT !.region = Default(doc["region"], RegionDefault), !.on = radio]
    /\ todo' = Tail(todo)
    /\ UNCHANGED <<prefsVars, mode, worldVars>>

Running ==
    /\ Next1("run")
    /\ mode' = "run" /\ todo' = Tail(todo)
    /\ UNCHANGED <<prefsVars, ram, worldVars>>

Setup ==
    PowerOn \/ NewKeys \/ OldKeys \/ LoadToken \/ LoadIdentity \/ LoadConfig
        \/ LoadMesh \/ LoadRegion \/ Running

-----------------------------------------------------------------------------
(* The loop task and its store. *)

StoreNext ==
    /\ \/ Next1("begin") /\ PrefsBegin(Head(todo).arg)
       \/ Next1("put") /\ PrefsPut(Head(todo).arg, Head(todo).val)
       \/ Next1("clear") /\ PrefsClear
       \/ Next1("end") /\ PrefsEnd
    /\ todo' = Tail(todo)
    /\ UNCHANGED <<mode, ram, worldVars>>

SaveNext == SaveStep /\ UNCHANGED <<mode, todo, ram, worldVars>>
FlashFails == SaveFault /\ UNCHANGED <<mode, todo, ram, worldVars>>

Off == mode' = "off" /\ todo' = << >> /\ ram' = Zero /\ PrefsLost /\ UNCHANGED worldVars

RestartNext == Next1("restart") /\ Off
PowerFails == mode # "off" /\ Off

-----------------------------------------------------------------------------
(* The serial console: serial_cmd_tick hands a line to one handler. *)

\* A handler changes RAM and then the store.
Handle(globals, work) ==
    /\ mode = "run" /\ Idle
    /\ ram' = globals /\ todo' = work
    /\ UNCHANGED <<prefsVars, mode, worldVars>>

\* The PIN in RAM is the old one until the next start.
cmd_set_pin == Handle(ram, Edit("sensmos", <<Put("pin", "4711")>>))

cmd_set_device_id ==
    Handle([ram EXCEPT !.dev = "id"], Edit("sensmos", <<Put("id_ovr", "id")>>))

cmd_set_time == Handle([ram EXCEPT !.synced = TRUE], << >>)

cmd_set_owner(o) ==
    Handle([ram EXCEPT !.owner = o], Edit("sensmos", <<Put("owner", o)>>))

\* Faulty variant of cmd_unregister: the store keeps the owner.
cmd_unregisterInRam == ram.owner # None /\ Handle([ram EXCEPT !.owner = None], << >>)

cmd_unregister ==
    /\ ram.owner # None
    /\ Handle([ram EXCEPT !.owner = None], Edit("sensmos", <<Put("owner", None)>>))

\* mesh_tx_configure, of the console and of the app: what the order leaves out
\* stays, and all of it is written, in four writes.
Reconfigured(c) ==
    [channel |-> Default(c.channel, ram.mesh.channel), psk |-> Default(c.psk, ram.mesh.psk),
     portnum |-> Default(c.portnum, ram.mesh.portnum)]

mesh_tx_configure(on, m) ==
    Edit("sensmos_mesh", <<Put("enabled", IF on THEN "on" ELSE "off"), Put("channel", m.channel),
                           Put("psk", m.psk), Put("portnum", m.portnum)>>)

\* A key that cannot be used changes nothing.
cmd_set_mesh_cfg(on, c) ==
    Handle([ram EXCEPT !.meshOn = on, !.mesh = Reconfigured(c)],
           mesh_tx_configure(on, Reconfigured(c)))

\* lora_region_set: saved also if it is the region already.
cmd_set_region(r) ==
    Handle([ram EXCEPT !.region = r], Edit("sensmos_mesh", <<Put("region", r)>>))

\* A plan is not saved: the next start is back on the default.
cmd_lora_cfg(on, slot) == radio /\ Handle([ram EXCEPT !.on = on, !.slot = slot], << >>)

cmd_done == Handle(ram, <<Restart>>)

FactoryReset == Edit("sensmos", <<Do("clear")>>) \o <<Restart>>
cmd_factory_reset == Handle(ram, FactoryReset)

Console ==
    \/ cmd_set_pin \/ cmd_set_device_id \/ cmd_set_time \/ cmd_unregister
    \/ cmd_done \/ cmd_factory_reset
    \/ \E o \in Owners : cmd_set_owner(o)
    \/ \E on \in BOOLEAN, c \in MeshOrders : cmd_set_mesh_cfg(on, c)
    \/ \E r \in Regions : cmd_set_region(r)
    \/ \E on \in BOOLEAN, s \in Slots : cmd_lora_cfg(on, s)
=============================================================================
