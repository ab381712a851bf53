----------------------------- MODULE DataSender -----------------------------
(***************************************************************************)
(* How data leaves the node: the handlers that write entities              *)
(* (src/src/http_data.cpp, ws_client.cpp, the scripts, the network         *)
(* worker's results) and the sender that packs them into batches           *)
(* (src/src/data_sender.cpp).  Everything here runs in loop().             *)
(*                                                                         *)
(* "now" is the clock entries are stamped with; the sender's g_last_*      *)
(* stamps appear as the time since, which stops at the interval it is      *)
(* compared with.  One unit of time is one BASICS_INTERVAL or more.        *)
(***************************************************************************)
EXTENDS EntityStore, SequencesExt

CONSTANTS
    BasicsKey,            \* stands for wifi_rssi, wifi_nets and uptime_s
    BASICS_INTERVAL, PING_INTERVAL, MIN_SEND_INTERVAL, FORCE_SEND_INTERVAL,
    MON_INTERVAL, SCAN_INTERVAL,
    FitsInScratch,        \* entries TX_SCRATCH_LEN has room for
    MaxScans              \* bound: scan jobs with the worker at a time

ASSUME SenderAssumption ==
    /\ BasicsKey \in Keys /\ IdCut[Id("mon", BasicsKey)] = Id("mon", BasicsKey)
    /\ {BASICS_INTERVAL, PING_INTERVAL, MIN_SEND_INTERVAL, FORCE_SEND_INTERVAL,
        MON_INTERVAL, SCAN_INTERVAL} \subseteq Nat \ {0}
    /\ MIN_SEND_INTERVAL <= FORCE_SEND_INTERVAL
    /\ FitsInScratch \in Nat /\ MaxScans \in Nat

VARIABLES
    store, native, now,
    since,             \* time since the last basics, ping, batch, mon and scan
    g_pending_send,
    link,              \* what the node can send over
    uplink,            \* a batch is still in the LoRa outbox
    scanning,          \* scan jobs with the network worker
    written,           \* history: the last value given to each entity stored
    unsent             \* history: natives posted and not yet in a batch that left

dsVars == <<store, native, now, since, g_pending_send, link, uplink, scanning,
            written, unsent>>
dataVars == <<store, written, unsent>>
sendVars == <<since, g_pending_send, uplink, scanning>>

\* "ws": session up.  "half": session up, but the socket takes no frame.
\* "wifi": WiFi without a session.  "lora": no WiFi, the radio fallback on.
Links == {"ws", "half", "wifi", "lora", "none"}
ws_client_connected == link \in {"ws", "half"}
g_wifi_connected == ws_client_connected \/ link = "wifi"

Interval == [basics |-> BASICS_INTERVAL, ping |-> PING_INTERVAL,
             send |-> FORCE_SEND_INTERVAL, mon |-> MON_INTERVAL,
             scan |-> SCAN_INTERVAL]
Timers == DOMAIN Interval
Due(t) == since[t] >= Interval[t]

IdsIn(st) == {Searched(st)[i].id : i \in DOMAIN Searched(st)}

-----------------------------------------------------------------------------
(* The writes of one handler, in order.                                    *)

Write(id, val) == [id |-> id, value |-> val]

\* The store after each of the writes.
PushAll(st, items) ==
    LET after[n \in 0 .. Len(items)] ==
            IF n = 0 THEN st
            ELSE entity_push(after[n - 1], native, items[n].id, items[n].value, now)
    IN after[Len(items)]

\* What was given last to each entity that is still stored under its id.
Written(st, items) ==
    LET given[n \in 0 .. Len(items)] ==
            IF n = 0 THEN written
            ELSE IF Blocked(native, items[n].id) THEN given[n - 1]
            ELSE [id \in DOMAIN given[n - 1] \cup {items[n].id} |->
                    IF id = items[n].id THEN items[n].value ELSE given[n - 1][id]]
        all == given[Len(items)]
    IN [id \in DOMAIN all \cap IdsIn(st) |-> all[id]]

StoreBecomes(st, items) ==
    /\ store' = st
    /\ written' = Written(st, items)

\* Writes that ask for a batch when a native entity is among them.
TakeItems(items, ask) ==
    LET st == PushAll(store, items)
        pubs == {items[i].id : i \in {j \in DOMAIN items : items[j].id.pfx = "pub"}}
    IN /\ StoreBecomes(st, items)
       /\ g_pending_send' = (g_pending_send \/ (ask /\ pubs # {}))
       /\ unsent' = (unsent \cup IF ask THEN {id \in pubs : ~Blocked(native, id)} ELSE {})
                    \cap IdsIn(st)
       /\ UNCHANGED <<native, now, since, link, uplink, scanning>>

\* POST /data: an unknown pub.* id is answered with 400.
handle_data_post(id, val) ==
    /\ id.pfx = "pub" => entity_is_native(native, id.key)
    /\ TakeItems(<<Write(entity_classify(native, id), val)>>, TRUE)

\* POST /data/batch takes every item and checks none of them.
handle_data_batch(items) ==
    TakeItems([i \in DOMAIN items |->
                 Write(entity_classify(native, items[i].id), items[i].value)], TRUE)

\* Results of checknet, monitors, scripts and the radio; remote entities.
entity_pushed(id, val) == TakeItems(<<Write(id, val)>>, FALSE)

\* The worker's answer to a scan job.
data_sender_on_net_result(ok, val) ==
    /\ scanning > 0
    /\ LET items == IF ok THEN <<Write(Id("mon", BasicsKey), val)>> ELSE << >>
       IN StoreBecomes(PushAll(store, items), items)
    /\ scanning' = scanning - 1
    /\ unsent' = unsent \cap IdsIn(store')
    /\ UNCHANGED <<native, now, since, g_pending_send, link, uplink>>

\* "identified" brings the list of natives along with the session.
on_identified(names) ==
    /\ link = "wifi"
    /\ link' = "ws"
    /\ LET loaded[n \in 0 .. Len(names)] ==
               IF n = 0 THEN native ELSE entity_load_native(loaded[n - 1], names[n])
       IN native' = loaded[Len(names)]
    /\ UNCHANGED <<dataVars, sendVars, now>>

\* script_engine_init, when the set of scripts is replaced.
ScriptsReset ==
    /\ StoreBecomes(entity_tmp_clear(store), << >>)
    /\ UNCHANGED <<native, now, sendVars, link, unsent>>

-----------------------------------------------------------------------------
(* The sender.                                                             *)

\* What build_entity_payload puts in: natives, with or without their
\* prefix, and the user's own; the rest stays on the node.
InBatch(e) ==
    \/ e.id.pfx \in {"pub", "bare"} /\ entity_is_native(native, e.id.key)
    \/ e.id.pfx = "own"
Batch(st) ==
    Compacted(entity_get(st), {i \in DOMAIN entity_get(st) : InBatch(entity_get(st)[i])})
Fits(st) == Len(Batch(st)) <= FitsInScratch

Pruned(st) == entity_pub_prune(entity_own_prune(st, now), now)

\* The batch left: what it carried is no longer owed, nor what a batch
\* never carries.
Owed(st) == {id \in unsent \cap IdsIn(st) :
               /\ entity_is_native(native, id.key)
               /\ \A i \in DOMAIN Batch(st) : Batch(st)[i].id # id}

basics(val) == Write(Id("mon", BasicsKey), val)

\* update_wifi_scan: the stamps it leaves and what it writes.
Freshened(val) == IF Due("basics") THEN <<basics(val)>> ELSE << >>
AfterScan == [since EXCEPT !.basics = IF Due("basics") THEN 0 ELSE @,
                           !.scan   = IF Due("scan") THEN 0 ELSE @]

\* Paths on which no batch is built.
NoBatch(val, timers) ==
    /\ StoreBecomes(PushAll(store, Freshened(val)), Freshened(val))
    /\ since' = timers
    /\ unsent' = unsent \cap IdsIn(store')
    /\ UNCHANGED <<g_pending_send, uplink>>

send_ping(val) == NoBatch(val, [AfterScan EXCEPT !.ping = 0])

\* Offline the cooldown is not started; a session or an outbox that cannot
\* take a batch now starts it.
send_batch_offline(val) == link = "none" /\ NoBatch(val, AfterScan)
send_batch_skipped(val) ==
    /\ link = "wifi" \/ (link = "lora" /\ uplink)
    /\ NoBatch(val, [AfterScan EXCEPT !.send = 0])

\* Faulty variant of send_batch: the request is taken as served whether the batch left or not.
send_batchForgets(val, taken) ==
    LET items == Freshened(val) \o <<basics(val)>>
        st == Pruned(PushAll(store, items))
        left == Fits(st) /\ (link = "ws" \/ (link = "lora" /\ taken))
    IN /\ ws_client_connected \/ (link = "lora" /\ ~uplink)
       /\ StoreBecomes(st, items)
       /\ since' = [AfterScan EXCEPT !.send = 0]
       /\ g_pending_send' = FALSE
       /\ uplink' = (uplink \/ (left /\ link = "lora"))
       /\ unsent' = IF left THEN Owed(st) ELSE unsent \cap IdsIn(st)

\* Faulty variant of send_batch: g_last_send is not set.
send_batchUnstamped(val, taken) ==
    LET items == Freshened(val) \o <<basics(val)>>
        st == Pruned(PushAll(store, items))
        left == Fits(st) /\ (link = "ws" \/ (link = "lora" /\ taken))
    IN /\ ws_client_connected \/ (link = "lora" /\ ~uplink)
       /\ StoreBecomes(st, items)
       /\ since' = AfterScan
       /\ g_pending_send' = (g_pending_send /\ ~left)
       /\ uplink' = (uplink \/ (left /\ link = "lora"))
       /\ unsent' = IF left THEN Owed(st) ELSE unsent \cap IdsIn(st)

\* The batch is built.  Over WS it leaves if the socket takes it, over LoRa
\* if the outbox does ("taken").
send_batch(val, taken) ==
    LET items == Freshened(val) \o <<basics(val)>>
        st == Pruned(PushAll(store, items))
        left == Fits(st) /\ (link = "ws" \/ (link = "lora" /\ taken))
    IN /\ ws_client_connected \/ (link = "lora" /\ ~uplink)
       /\ StoreBecomes(st, items)
       /\ since' = [AfterScan EXCEPT !.send = 0]
       /\ g_pending_send' = (g_pending_send /\ ~left)
       /\ uplink' = (uplink \/ (left /\ link = "lora"))
       /\ unsent' = IF left THEN Owed(st) ELSE unsent \cap IdsIn(st)

\* The telemetry frame, which nothing waits for.
send_mon_batch(val) ==
    NoBatch(val, [AfterScan EXCEPT
                    !.mon = IF g_wifi_connected THEN 0 ELSE @])

\* One frame per pass at most: ping before batch before telemetry.
BatchDue == (g_pending_send /\ since.send >= MIN_SEND_INTERVAL) \/ Due("send")

data_sender_tick(val, queued, taken) ==
    /\ queued => scanning < MaxScans
    /\ scanning' = scanning + (IF Due("scan") /\ queued THEN 1 ELSE 0)
    /\ UNCHANGED <<native, now, link>>
    /\ \/ /\ Due("ping")
          /\ send_ping(val)
       \/ /\ ~Due("ping") /\ BatchDue
          /\ \/ send_batch_offline(val)
             \/ send_batch_skipped(val)
             \/ send_batch(val, taken)
       \/ /\ ~Due("ping") /\ ~BatchDue /\ Due("mon")
          /\ send_mon_batch(val)
       \/ /\ ~Due("ping") /\ ~BatchDue /\ ~Due("mon")
          /\ NoBatch(val, AfterScan)

SinceBoot == [basics |-> 0, ping |-> 0, send |-> FORCE_SEND_INTERVAL,
              mon |-> MON_INTERVAL \div 2, scan |-> SCAN_INTERVAL]

data_sender_init(val) ==
    /\ store = entity_push(entity_store_init, << >>, Id("mon", BasicsKey), val, now)
    /\ written = [id \in {Id("mon", BasicsKey)} |-> val]
    /\ since = SinceBoot
    /\ g_pending_send = FALSE

-----------------------------------------------------------------------------
(* Around the sender.                                                      *)

TimePasses ==
    /\ now' = (now + 1) % SEC_WRAP
    /\ since' = [t \in Timers |-> IF since[t] < Interval[t] THEN since[t] + 1 ELSE since[t]]
    /\ UNCHANGED <<dataVars, native, g_pending_send, link, uplink, scanning>>

LinkChanges(l) ==
    /\ link' = l /\ link # l
    /\ l = "ws" => link = "half"
    /\ l = "half" => link = "ws"
    /\ UNCHANGED <<dataVars, sendVars, native, now>>

UplinkDone ==
    /\ uplink
    /\ uplink' = FALSE
    /\ UNCHANGED <<dataVars, native, now, since, g_pending_send, link, scanning>>

DsInit ==
    /\ native = << >>
    /\ now = 0
    /\ \E val \in Values : data_sender_init(val)
    /\ link = "none"
    /\ uplink = FALSE
    /\ scanning = 0
    /\ unsent = {}

-----------------------------------------------------------------------------
(* Properties.                                                             *)

DsTypeOK ==
    /\ StoreShape(store)
    /\ native \in Seq(Keys) /\ Len(native) <= NATIVE_MAX
    /\ now \in 0 .. SEC_WRAP - 1
    /\ \A t \in Timers : since[t] \in 0 .. Interval[t]
    /\ g_pending_send \in BOOLEAN /\ uplink \in BOOLEAN
    /\ link \in Links
    /\ scanning \in 0 .. MaxScans
    /\ unsent \subseteq Ids

\* entity_store.cpp: however entities are written in place, appended, written
\* over, compacted and moved round the rings, every entity is stored once, in
\* the buffer of its prefix, with as much as there is room for of the value it
\* was given last, and is found.  Not so in the pool under an id a longer one
\* is cut down to: the longer one is not found again, and every write of it
\* takes a new place.
StoreExact ==
    /\ DsTypeOK
    /\ OnceBut(Doubtful, Searched(store))
    /\ \A i \in DOMAIN Searched(store) :
          LET e == Searched(store)[i]
          IN e.id \notin Doubtful =>
                /\ find_entry(store, e.id) = {e}
                /\ e.id \in DOMAIN written /\ e.value = ValueCut[written[e.id]]
    /\ \A f \in {"pub", "mon", "own"} : \A i \in DOMAIN store[f] : store[f][i].id.pfx = f

\* Why a table may lose an entity.
Room == [pub |-> ENTITY_PUB_MAX, mon |-> ENTITY_MON_MAX, own |-> ENTITY_OWN_MAX]
Expired(e) == \/ e.id.pfx = "pub" /\ Age(e, now) > PUB_TTL_S
              \/ e.id.pfx = "own" /\ Age(e, now) > OWN_TTL_S
OnlyOldestLost ==
    \A f \in DOMAIN Room : \A i \in DOMAIN store[f] :
        find_in(store'[f], store[f][i].id) = {} =>
            \/ Expired(store[f][i])
            \/ /\ Len(store'[f]) = Room[f]
               /\ \A j \in DOMAIN store[f] :
                     store[f][j] \in ToSet(store'[f]) =>
                        \/ store[f][i].last_updated <= store[f][j].last_updated
                        \/ now <= store[f][j].last_updated

\* data_sender.cpp:112-118 and 243-249: a native entity posted from outside is
\* owed to the backend until a batch that carries it has left; as long as one
\* is owed the sender knows it.  A skipped, refused or failed batch keeps it.
OwedIsPending == unsent # {} => g_pending_send

\* Once the session stays up and the batch fits, what was asked for leaves,
\* and neither the pings nor the batches keep the telemetry waiting for ever.
SenderKeepsUp ==
    <>[](link = "ws" /\ Fits(store)) =>
        []<>(~g_pending_send) /\ []<>(since.mon = 0)
=============================================================================
