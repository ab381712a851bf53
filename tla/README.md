# TLA+ verification of the Sensmos node firmware

The firmware (`src/src/*.cpp`, `src/SENSMOS_Firmware.ino`) turns an ESP32 into a
network measuring node: it probes hosts for a backend, runs user scripts, opens a
remote terminal on demand, relays sensor data over WebSocket or LoRa, and updates
itself. These modules model its control: who may do what in which state, what is
queued where, and what happens when a queue is full, an answer is late, a session
drops or the power fails. Beside the firmware there are its nRF52840 port (`src/nrf52840`) and a container
that speaks the same protocol (`src/docker`). TLC checks the models on small
instances. TLAPS proves the safety of the network worker and its clients, the script engine, the
watchdog, the remote terminal, the encrypted sessions of firmware and container, the radio link, a device's life over
updates and power failures, the way of the data from store to batch with the subscription map, and the port's node with its flash
store for every instance (section 4).

How to run, in this directory: `tlc -config MCNetWorker.cfg MCNetWorker` (likewise
every other `.cfg`) and `tlapm NetWorkerProofs.tla` (likewise every other module whose name ends in `Proofs`).

## 1. The system

### Threads

* **The loop** (Arduino `loop()`, `SENSMOS_Firmware.ino:189-230`, priority 1) calls
  every component's tick in a fixed order and never waits, with one exception
  (50 ms in `tunnel_on_data`). All message handlers of the WebSocket run in it.
* **The network worker** `nw_task` (`net_worker.cpp`) executes all probing.
* **The tunnel task** `tun_task` (`tunnel.cpp`, priority 3), on demand.
* **The LoRa task** `lora_task` (`lora_scan.cpp`), owner of the radio, on the other core: it and
  the loop run truly in parallel and share their state without a lock.
* **The BLE stack's task**, whose callback hands commands to the loop. In the port it preempts the
  loop and lives next to LoRa; in the firmware it exists in BLE mode only.
* **The container** has one thread, but sockets, timers and awaited lookups that outlive the callback
  that made them.

They share FreeRTOS queues and a few unlocked variables. The hard behaviours come
from there: results that arrive after the state they belong to was replaced, full
queues half way through an operation, memory freed by one thread under another,
timeouts racing late answers, restarts in the middle of an episode.

### Components

| Component | State it keeps | Operations | Talks to | What makes it correct |
|---|---|---|---|---|
| network worker | queues hi (8), lo (8), results (4); punch gate | enqueue, poll; poll hi, poll lo, execute, send | all probing clients | no job lost or doubled; a hi job overtaken at most once; all answered |
| checknet | cycle state, jobs, results, number outstanding, trace launched | run, jobs, result, two timeouts | worker (lo), WebSocket | reports exactly when its jobs are done; one trace per cycle |
| monitors | slots: configuration, hysteresis, awaiting | set, clear, due, result | worker (hi), NVS | a slot never waits for nothing, probes once at a time |
| check-now | one slot, retried | command, result | worker (hi) | slot held exactly while its probe is under way |
| node integration | ring of events, batch, in flight | push, flush, result | worker (lo) | the batch is intact while the worker reads it |
| hole punching | session, gate | STUN, punch | worker (hi) | the gate does not starve the lo queue |
| script engine | scripts, awaits, token counter | run, result, timeout pass, three reloads | worker (lo), store, radio | a script resumes once, where it stopped, and never hangs |
| remote terminal | session, four queues, teardown flags | open, data, close, tick; task: command, pump | WebSocket, LAN socket | safe teardown, memory returned, order kept |
| WebSocket session | connected, identified, key | identify, identified, send, receive | everything | nothing is accepted before the handshake |
| WebSocket watchdog | outage start, next probe, in flight, episode (RAM, NVS) | tick, result, restart | worker (lo), NVS | heals a hung client, restarts nobody else, keeps the evidence |
| entity store | three tables, two rings, native list, stamps in seconds | push, get, two prunes, load natives | scripts, HTTP, sender | one entry per id, with its last value; only the oldest is lost |
| data sender | pending flag, times since five events, scan in progress | tick (ping, basics, batch, mon, scan), result | store, WebSocket, LoRa | what was not sent stays due, and leaves when it can |
| subscription map | ring of targets and prefixes, copy in NVS | set, get, restart | router, scripts | a target has one entry and keeps its prefix |
| LoRa radio, mesh uplink | region, channel plan, current channel, airtime of each sub-band, a batch per path | set link, set region, fall back, queue a batch; task: retune, beacon, uplink, mesh frame, scan | loop, radio task | transmits only where the region permits, within its budget; batches whole |
| boot, WiFi, OTA, BLE onboarding | NVS marks, flash slots, boot mode, timers, mailbox, ceremony | boot, connect, lose, fall back, restart; order, commit, confirm, roll back; the app's commands | NVS, flash, restarts, backend | can always start, keeps its identity, comes back online, nothing half done for ever |
| WebSocket session, encryption | connected, offer, key, counters | connect, identify, identified, send, receive, disconnect | everything | one key per offer, numbers only grow, commands once and in order |
| external authorisation | request, state, token, two times | begin, grant, deny, tick | HTTP, WebSocket | a token is handed out for the request it was given for |
| Docker node | sockets, timers, key, location, health | register, connect, identified, close, timers, batch, shutdown | backend | one socket or one timer; becomes healthy again |
| nRF52840 port | flash store, RAM copy, mailbox, ceremony, outboxes | console, app, batch, frames, restarts | flash, LoRa | what was stored is found; memory follows the store; what is signed verifies |

`PROJECT.json` lists all components, also those of no interest to a model checker,
with what is modelled of each; under `hazards` it lists what is hard to test, at its line,
with the properties that cover it.

## 2. The modules

```
JobService (abstract)
    └─ NetWorker ── NetClient ─┬─ NetWorkerProofs (worker, and the lemmas all its clients share)
         └─ MCNetWorker        ├─ Checknet, Monitors, CheckNow, NodeIntegration
                               │      └─ ProbeClients ─── MCProbeClients
                               ├─ ScriptEngine, WsWatchdog ── MCLoopClients
                               └─ ClientProofs (extends all six clients)
Tunnel ── TunnelProofs
LoraLink ─┬─ LoraLinkProofs
          └─ MCLoraLink
EntityStore ── DataSender ─┐
       SubscriptionMap ────┴─ DataFlow ─┬─ DataFlowProofs
                                        └─ MCDataFlow
NodeLife ── BleConfig ── NodeLives ─┬─ NodeLivesProofs
                                    └─ MCNodeLives
              Session (abstract)
WsEnc ─┬─ WsSession, ExtAuth ── NodeSession ─┬─ Sessions ─┬─ SessionProofs
       └─ DockerNode ────────────────────────┘            └─ MCSessions
PrefsStore ── NrfLife ── NrfBle ── NrfNode ─┬─ NrfNodeProofs
                                            └─ MCNrfNode
```

**NetWorker** (`net_worker.cpp`). `hiQ`, `loQ`, `resQ` are the three FreeRTOS queues,
`pc` is where `nw_task` is. The task's two polls are two steps, because a hi job may
arrive between them. `Execute` chooses the outcome (`ok`, `fail`, `deferred`) and sets the
punch gate. `SendResult` is `xQueueSend(.., portMAX_DELAY)`: it has no step while the
queue is full. `EnqueueHi`/`EnqueueLo` are the accepting calls; a refusing call changes
nothing, and clients see it as `~Room(hi)`.

**JobService** is what a client may rely on: an accepted job is executed once and its
result delivered once. `Service` in NetWorker maps the queues to it.

**NetClient**: the tag a job carries through the worker, and the loop's dispatch of one
result at a time (`nr`). `filling` says that the loop is in the middle of a longer
operation; no other client's step runs then, but the worker's does.

**Checknet, Monitors, CheckNow, NodeIntegration**: one action per handler, as their
comments say. **ProbeClients** puts them on one worker. Jobs carry history
fields (the cycle, the reset count of the slot, the events of the batch) that no guard
reads: they let properties say where a result came from.

**ScriptEngine** (`script_engine.cpp`, the network steps of `script_actions.cpp`):
`scAwaits` is `g_awaits` with its places, because the place decides the order of the
timeout pass. A pass is one step per place: an await registered during a pass has
`since_ms` after the pass's `now`, and the unsigned difference would be huge (`late`).
Whether cooldown, condition and duration let a step fire is a choice. A run that goes on
past a step the worker refused is represented by two runs.

**Tunnel** (`tunnel.cpp`): both threads at the granularity of queue operations, with
teardown flags. A chunk is its number in the stream of all sessions, since `TunChunk` carries no session: `TickLabel` is
where the loop reads `s_tid` for the frame, and `do_close` leaves the queue to the backend alone. History: `readBy` (the session
a chunk was read in) and `got` (the frames the backend got, each a number and a tid). The backend uses a tid once.

**WsWatchdog** (`ws_client.cpp:50-103, 242-303, 686-838`): `link` abstracts the session
(`down`, `open` after identify was sent, `up` after identified with a key). `Tick` is
`ws.loop()` with at most one library event, followed by the watchdog's branch. `Boot` is
every restart: RAM and the worker start anew, `nvs` stays. Of the episode only
`start_epoch` is kept, as the number of the tick that began the outage (a moment); a
record without a start is treated as none. The counts and the first failed probe are left
out.

**LoraLink** (`lora_scan.cpp:613-626,
780-922, 937-1114, 1139-1386`, `mesh_tx.cpp`, the radio half of `send_batch`). The loop's
changes of region and plan are one step per field it writes (`lpc`), since the task may read
in between; only the copy of a plan is a single step, and `s_link.on` is written together with
`s_cur_ch`. The task's steps (`pc`) are what happens between two reads of shared state: `Retune`
configures the radio, `RetuneDone` follows after warm-up and measurement, `Aired` reads the
airtime counter that `Debit` writes. A region is a set of carriers with two sub-bands, a
frame costs one unit of airtime. A pass of `link_tick` sends at most one frame, so the three ways to send are
three actions. The radio may refuse to be configured and a transmission may fail at any time.
Whether the beacon is due (`beacon`, `beacon_s`) is a choice. The slot of the beacon is one second
of a short minute that is also the duration of a channel and the hour of the duty cycle; the clock
does not move while a frame is on the air, which the code's guard of three seconds around the
minute ensures.

**EntityStore** (`entity_store.cpp`; the port carries the same text). The store is a value, each of its
functions an operator on it: `entity_push` picks the buffer by the prefix, `TableWrite` overwrites,
appends or takes the place of the oldest, `RingWrite` keeps `head` and `count` as the code does,
`entity_get` and `find_entry` walk the buffers in the code's order. An id is a prefix and a key. `IdCut` and `ValueCut` are
what `fill_entry` (`:50-55`) has room for of an id and of a value; the searches compare the whole id, as in the code. Ids from HTTP
are cut before they are stored (`entity_classify`), those of scripts are shorter (`MAX_ENTITY_LEN`), those of remote nodes may be longer.
Stamps are seconds that return to 0 at `SEC_WRAP`. **DataSender** (`data_sender.cpp`, the writing handlers of
`http_data.cpp`, the scripts' and the worker's writes) has one action per handler; its `data_sender_tick`
makes the code's decisions in the code's order (prune, ping, basics, batch, scan, mon). The times since an event
stop at the interval they are compared with. A batch is the set of entities it carries;
whether it fits is a bound on their number (`FitsInScratch`). `unsent` is history: what the batches of this run still owe.
**SubscriptionMap** (`subscription_map.cpp`): `nvsSave` is one step per field, in its order;
`sub_map_init` reads whatever the power failure left. **DataFlow** joins the three: the link's states, remote
entities, scripts that are replaced, subscriptions (`http_remote.cpp:15-65`, where a reserved prefix becomes "sub" or is refused).

**NodeLife** (`SENSMOS_Firmware.ino:90-230`, `wifi_manager.cpp`, `ota.cpp`, the onboarding watchdog of
`ble_config.cpp`). `nv` is NVS, `flash`, `bootSlot` the two image slots. What a handler still has to write is
`todo`, and each write is a step, so the power may fail between any two; nothing else of the loop
runs before it is empty, as in the code. An image is known by its version, and a version by whether it joins the WiFi and
reaches a session. `Boot*` are the ways `setup()` may take. Time counts in minutes, the code's own constants keep their order
(`WDG_MIN` to `OTA_CONFIRM_TIMEOUT_MIN`). **BleConfig** adds the BLE host
task: `WriteBegins` and `WriteEnds` are the two ends of the callback's copy into the mailbox, which the loop's
`ble_tick` takes concurrently. **NodeLives** adds people, router, backend and power
supply, counts their upsets, and states the fairness.

**Session** is what an encrypted session promises: a new offer for each, numbers that only grow under one key. **WsEnc**
(`ws_enc.cpp`, `wsenc.js`) has the two counters; a key is the pair of offers it comes from, a
sealed frame its key and number. **WsSession** (`ws_client.cpp`) is the firmware's end, event by event, with the backend's
end and the two directions of the connection as queues. **ExtAuth** (`ext_auth.cpp`) and **NodeSession** put an add-on's
request on it. **DockerNode** (`docker/src/wsclient.js`, `index.js`, `register.js`, `geolocation.js`, `health.js`) is the container: `socks` are
all sockets ever opened, since an old one may still speak, `hs` the handshake timers that still run, `reconnects` the reconnect
timers; it also says what the network does. Both map their state to `Session`, and **Sessions** puts them beside each other and
states that both implement it. The backend's part is external; it answers an offer once, in plain text, and seals no `identified` (either program would
derive its key anew and set its counters back: `ws_client.cpp:624, 674-680`, `wsclient.js:151`).

**PrefsStore** (`nrf52840/src/prefs_store.cpp`): a namespace is two files. `SaveOpens`, `SaveCloses`,
`SaveUnlinks`, `SaveRenames` are the steps of `save()`, `SaveRunsShort`, `SaveRefused`, `SaveNotRenamed` its failures, `PrefsLost` the power
failure. `ledger` is history: what was saved last; `gone` names the namespaces a fault has emptied. **NrfLife** (`main.cpp`,
`identity.cpp`, `serial_cmd.cpp`, `mesh_tx.cpp`) has the settings in RAM beside the store; `LoadMesh` loads mesh switch, channel, key and port each on its
own, `mesh_tx_configure` writes them one after the other, and an order may leave some out. **NrfBle** (`ble_config.cpp`) has the
mailbox and the ceremony, and **NrfNode** batch and outboxes (`data_sender.cpp`, the sending half of `lora_scan.cpp`) and
all of it with app, console, power and a flash that may be full.

Time is not counted where the code only compares it with one limit: a timeout is then an
action that may happen whenever its timer runs. Where it compares with several limits (watchdog, node life, sender) the
timers are numbers that saturate at the largest one.

Operators named as a *faulty variant* are not used by any specification. Each is a
mutation of the definition that follows it, and `PROJECT.json` says which property it
breaks, under the configuration of which run.

## 3. The runs

| Run | Checks | Bounds |
|---|---|---|
| `net_worker` | types; `EachJobOnce`, `OvertakenOnce`; `ImplementsService`; `AllAnswered` | four jobs (STUN, punch, two probes), job queues of two, results of one: every queue fills up and the task blocks |
| `probe_clients` | `AwaitedIsUnderWay` (types, checknet's count, monitors' flags, check-now's slot), `AskedOnce` (one trace per cycle, own results, one probe per slot), `NiBatchIntact` | queues of two and one; two jobs and two cycles of checknet, one monitor slot with two ids and three resets, one check-now, one-event batches; clients in the three pairs that share a queue or compete for results |
| `tunnel` | `TunFreedSafely`, `TunConsistent` (types, order, the tid of each frame, at most one stale chunk for the LAN); `TunRamReturned` | two sessions, each queue one or two places, three chunks to the backend and two to the LAN |
| `loop_clients` | `ScConsistent`, `ScResumedOnce`, `ScFreshKept`; `WdConsistent`, `WdEpisodeKept`; `NothingHangs` | three scripts of two steps (one a user's), three awaits, three tokens; watchdog limits one and two, two moments, a lo queue of one shared with one foreign job |
| `lora_link` | `RadioServesPlan` (types, legal plan, radio on it), `LinkFollowsIntent`, `BudgetKept`, `BatchesWhole` | two regions, plans of up to two channels (one plan with nothing to transmit on), two batches of two frames, budgets of two and one frames, two short minutes, two commands besides the fallback |
| `data_flow` | `StoreExact`, `OwedIsPending`, `SubPrefixKept`; `LostOnlyOldest`, `SenderKeepsUp` | tables of one and two places with one entity more than fits, rings of two, a clock that wraps after three seconds, intervals of one and two, three targets for a map of two, one key and one value that do not fit an entry; six parts (tables, links, rings, mon, remote, long) |
| `node_lives` | `LivesConsistent` (types, mailbox, the deleted mark), `AProvenImage`; `IdentityKept`, `ComesBack`, `SettlesDown` | three versions (good, one that never joins the WiFi, one that joins and reaches no session), networks that work, work once corrected, or never; three upsets, timers of one to five minutes; five parts (app, arrival, updates, network, people) |
| `sessions` | `SessionsConsistent`, `TokenOfRequest`; `CommandsInOrder`, `SessionsKept`, `AllSettle` | queues of three frames, three commands, two requests, three upsets for the firmware and two for the container; three parts (commands, addon, docker) |
| `nrf_node` | `NodeConsistent` (types, mailbox, RAM equals store, field by field), `Durable`, `SignsWhatItShould`; `NodeServes` | four namespaces, two regions, two mesh channels with two keys, four key pairs, one upset and three events of the app, two at the console; batches of two frames; three parts (app, console, radio) |

Several runs split a system into *parts*: each behaviour has one part's disturbances and stays in it, so
the state space is a sum. Parts separate what the code separates by mode (BLE or node, firmware or
container) or by buffer; whatever the program does by itself runs in every part.

Why the bounds are enough. A queue of depth *d* matters when it is empty, partly filled and
full; depths one and two have all three, and clients never see the depth itself. Two cycles
(sessions, resets, moments) are the least that let something of an earlier one meet a later
one; a third meets the second in the same way, since nothing is kept of the first but what
the second carries on. Jobs of the pairs that are not run together meet only
in the worker, and there only as places that are taken, which the partner in each pair also
does. Tokens bound the length of a script behaviour: three let one await time out, one be
answered late and one be fresh. The limits 1 < 2 of the watchdog tell "before the grace period",
"after it" and "at the end" apart. For the radio, two regions give one change and one return; a
plan of two channels is empty, partly filled and full; the budgets are exhausted within a minute and
free again in the next; a change of the loop has four steps and a retune two, which interleave in
every way with one command of each kind. A table of two with three ids is overwritten at its oldest while another
stays; a clock of three values wraps within any retention of one. Three upsets let the power fail in a handler, again in the
recovery of it, and once more after; every restart begins with what flash and NVS hold, so a longer series repeats.
Calls that never stop (`MaxUpsets`, `MaxEvents`, `MaxFrames`, `MaxSealed`, `MaxMinutes`, `MaxScans`) are bounded by the constant of that name
in their guards.

Runs with an expected violation record where the code does not do what its comment says:

| Run | Comment | What happens |
|---|---|---|
| `tunnel_bytes` | `tunnel.cpp:281` "do not lose a byte of SSH" | `pump_io` takes a chunk out of the socket and drops it if the queue to the backend is full, so that one is missing between two of the same session; so does `xQueueSendToFront` when the task has refilled the place |
| `lora_region` | `lora_scan.cpp:620-623` "the channel plan must go along with the region" | a region set during a retune: `link_tick` ends with `s_cur_ch = idx` and overwrites the order to retune; the node transmits on the old region's carrier, and with a plan of one channel no rotation corrects it |
| `prefs_cut` | `nrf52840/src/prefs_store.cpp:2-3, 89-90` "crash-safe", "rename over" | the old file is removed (`:99`) before the rename (`:100`), and a start removes the temp it finds (`:78`): a power failure in between loses the namespace, keys and all |

Other disagreements, met while modelling. Their bounding property is checked, the disagreement itself has no run of its own:

* `checknet.cpp:399` "late result → ignore": results carry no cycle, one of a timed-out cycle is filed in the
  next. `CnOwnResults` says that it takes a time-out.
* `monitors.cpp:38` "do not queue a second one": a new configuration clears `awaiting` under the probe in flight; the
  stale result counts for the new configuration. `MonOneProbeUnchanged` says that it takes a reset.
* `script_engine.cpp:62` "at most one job in flight per script": after a timeout or a reload the script is free while its
  old job is in the worker. `ScConsistent` and `ScResumedOnce` say that the late result finds no await, so it is dropped.
* `entity_store.h:31` "prefix.key, at most 35 characters", `entity_store.cpp:250` "look for the existing one": remote entities come with ids of up to 63 characters
  (`ws_client.cpp:206, 226`); `fill_entry` stores 35 (`:51`), the search compares all of them (`:253`), so each update takes a new place in the pool and soon an older
  entity's. `StoreExact` says that this happens in the pool alone, under ids that a longer one is cut down to (`Doubtful`), and that whatever else is held is
  there once and right.
* `ota.h:10-11`, `config.h:155` promise the previous slot if there is no session within five minutes: a version that does not join
  the WiFi ends in BLE mode, where `ota_tick` does not run, and a restart starts the five minutes anew. `UpdateSettles` is stated
  of versions that join, while the power holds.
* Behaviours that no comment denies, so that no run calls them wrong. What is left in the queue to the backend when a session closes goes out under tid 0
  or as the next session's (`tunnel.cpp:279`): `TunLabelled` allows that and nothing else. A power failure between the writes of mesh channel and key
  (`nrf52840` `mesh_tx.cpp:90-93`) leaves the new channel with the old key: `NodeConsistent` says that the node then works with just this. A report of an
  outage that could not be sent is erased all the same (`ws_client.cpp:267, 276`): `WdEpisodeKept` speaks of the record up to the session. A collected token
  is cleared as a C string, by its first byte (`ext_auth.cpp:61`): "no token" in `ExtAuth` is meant so.
* `entity_store.cpp:185-187` says that a user cannot write `mon.*`; `POST /data` passes an id that already has a prefix.
* `nrf52840` `identity.cpp:151-152`: a power failure between the halves of the key pair leaves a private key that later starts take for the pair;
  the node then signs nothing and sends nothing until a factory reset. `SignsWhatItShould` says that it does not send what
  cannot be verified; `NodeServes` assumes a whole pair.

`RadioOnPlan` says that the overwritten order is one of three ways
for the radio to stand elsewhere than the task believes. The other two are a radio that refuses its
channel after a mesh frame (`lora_scan.cpp:1101` logs it, and unlike a failed retune does not
mark the channel as broken), and one that refused a channel and has not been configured since
(`fails > 0`). `lora_link` shows another thing that is not a property: `lora_scan.cpp:1073-1075` gives the mesh
only a second in which SMOS did not transmit, but `smos_tx_this_sec` is remembered for one pass,
and a later pass in the same second may send a mesh frame. Nothing depends on it.

`Durable` allows a namespace to be empty after a named fault (`gone`): the window above, a file that was written short
(`:96-98` do not look at what was written), a rename that failed.

`CHECK_DEADLOCK FALSE` is set where the bounds on messages or upsets let a behaviour end.

### Fairness

* `FairNetSpec`: the task runs when it can (it has the higher priority), the loop polls on
  every pass, the gate's ten seconds pass. `LoAnswered` assumes that the hi clients fall
  silent: the code gives them strict priority.
* `FairTunSpec`: the task is scheduled; a session ends with `TUN_SESSION_MS` at the latest,
  lingering with `TUN_TEARDOWN_MS`; the loop goes on. Nothing is assumed of LAN host and backend.
* `MCLoopClients`: loop and clock only. **Nothing** is assumed of the worker, so `ScNeverHangs` rests on the timeout
  alone and `WdHeals` on the restart alone. `Tick` and `Prophylactic` are strongly fair because the dispatch of results
  interrupts them, but only finitely often between two ticks.
* `DfFairness`: time passes, a queued batch goes on the air. The tick after the ping is strongly fair: a ping is due again and
  again, and then the code returns before it looks at the batch (`data_sender.cpp:343-355`); the loop makes a hundred passes between two pings.
  `SenderKeepsUp` is about batches that fit.
* `LivesFairness`: the loop, the BLE task's callback and the clock. Router, backend, people and power owe nothing; `ComesBack` is stated
  of behaviours in which router and backend stay and the app leaves, and upsets are finitely many by the bound.
* `NsFairness`, `DkFairness`: loop, callbacks and timers run, a backend that has been asked answers or is silent for good (an upset).
* `MCNrfNode`: loop, tasks and clock weakly fair; the frames of the two outboxes strongly, because a frame that is refused
  or over budget is tried again in every minute and hour.
* `LinkSpec` has no fairness: nothing about the shared radio is stated as liveness, since a batch may wait
  for ever for a channel it may be sent on.
* No liveness is stated of the probing clients. Their invariant says that what they wait for
  is in the worker, and `AllAnswered` says that it comes back.

## 4. What is proved

`NetWorkerProofs` proves, for every set of jobs, every assignment of kinds and outcomes and all
positive queue depths (`NetWorkerAssumption`):

* `NetInvariant`: `NetSpec => []NetInv`. None of the safety properties is inductive alone.
  `NothingLost` needs to know that the job a result answers is the one the task holds
  (`CurFollowsPc`); `NothingDoubled` needs that whatever is in the worker was accepted, so that
  an accepted job is new (`AllAccepted`); `OvertakenOnce` needs that a job overtaken is one the
  task still owes its next poll (`InversionOwed`). `NetInv` is their conjunction with the type
  invariant. The proof has one lemma per action, over lemmas on `Append`, `Head` and `Tail`.
* `NetTypes`, `NoJobLost`, `NoJobDoubled`, `JobsHeldOnce`, `InversionBounded`: its consequences.
* `Refinement`: `NetSpec => ImplementsService`. A step of the worker is one step of `JobService`
  (an accepting enqueue, `Execute`, a poll by the loop) or a stutter.

`NetWorkerProofs` also holds what every client of the worker leans on (`ClientInv`: what the loop has just taken out was answered by
the worker and is nobody else's; a `Submit` puts exactly one new job in, a full queue changes nothing). A job is a tag and the number of the copy
(`NetClientAssumption`), so a tag may be asked for again and again: `Submit` needs a number that is free, which stands for the code's
having no such numbers at all.

`ClientProofs`, first part (checknet, monitors, check-now and node integration on one worker, any of them active): `ProbeInv` says for each client
which of its jobs are in the worker. `CnOutstandingExact` of checknet is not inductive without the cycles (`CycleExact`: a
current job belongs to the running cycle unless a collection has timed out, and the results and the jobs that are out add up);
the monitor's `awaiting` needs that a slot configured once has one probe (`SlotOnce`); the batch of node integration needs that the ring
holds the latest events without a gap. Consequences: `AwaitedIsUnderWay`, `AskedOnce`, `NiBatchIntact`.

`ClientProofs`, second part (script engine, watchdog). `EngInv`: every await has its job or its result is just being handed over (`AwaitsKnown`),
every job has a token that was given out, and no two jobs the same one (`JobsKnown`), and a token resumes once at most, one not given out yet or still
in the table not at all (`TokensOnce`), without which a late result could resume a later await. Consequences: `ScConsistent`, `ScResumedOnce`, `ScFreshKept`. `WdInv` ties
`probing` to the one job in the worker, the outage's times to each other and the episode in NVS to the one in RAM. Consequences: `WdConsistent`,
and the action property `WdEpisodeKept`. The two share the worker but nothing else, so each is proved with the other's jobs as foreign ones.

`TunnelProofs`: `TunInv` says at every step of either thread which buffers and queues exist (`HeldOK`), that the task lives exactly while
its session is not done (`TaskLives`, `ShutdownAsked`), and where each chunk of the two directions is (`ReadBefore`, `QueuedInOrder`, `SentBefore`): order in
the queue alone is not inductive, since the chunk in the task's hand must come before those still to be read. For the labels it says which sessions the chunks of each
queue can be of (`ReadsTogether`: those of one session are read in a row, and the open one's come last) and that a label in hand is its chunk's, or this one's session is over (`LabelOK`). Consequences: `TunFreedSafely`, `TunConsistent`.

`SessionProofs`. For the firmware, `WsInv`: frames under way are sealed with numbers the sender has passed (`Numbered`), an offer is out
before a key is made from it (`OfferFirst`), and the commands in the queue and in the hand rise (`CommandsRise`). For the container, `DkInv`: only the last
socket may speak (`LastSocketOnly`), and a key belongs to a socket that was open (`KeyOfSocket`). Consequences: the refinements `NodeImplementsSession` and
`DockerImplementsSession` (each step is one of `Session` or a stutter), `CommandsInOrder`, `SessionsConsistent`, `TokenOfRequest`.

`LoraLinkProofs`, for every table of regions, plans, limits and batch lengths (`PlanAssumption`, `LinkAssumption`): `LinkInv` is the types and six parts.
`IntentKept` and `PlanFits` say what each half-finished change of the loop (`lpc`) leaves open; `RadioKnown` what the task knows of the
radio at each of its steps, with the overwritten order to retune as a case of its own; `Counted` that what was on the air is counted, but for
the frame that is just being counted, and that a frame on the air still fits into its budget; `Dispatched` which frames of a batch are out. The loop clears the counters
under the task (`touched`), so `Counted` has a case for a frame that was let through before and is counted after.
Consequences: `RadioServesPlan`, `LinkFollowsIntent`, `BudgetKept`, `BatchesWhole`.

`NodeLivesProofs`, for every set of versions, networks, commands and timers (`LifeAssumption`, `BleAssumption`, `LivesAssumption`; "nothing" and a
torn image are none of them) and whatever NVS holds at the start: `LivesInv` goes by what the loop has still to do. `Allowed` says which writes may be left in which mode (the flash is
written by the image it was booted from, a new image only by one that has had a session, the identity is cleared only if somebody asked), `Ordered` in which
order (once the slot to boot from has changed, the flash is left alone and the restart follows). `AProvenImage` alone is not inductive: it
needs that the slot being erased is not the one to boot from, and that a session proves the running version. `MailKept` closes the mailbox from the end of a write to the end of
the command. Consequences: `AProvenImage`, `LivesConsistent`, and the action property `IdentityKept`.

`NrfNodeProofs` proves first, of the store alone with all its faults (`PrefsAssumption`: the mark for "nothing" is none of the
namespaces and values; the node's own keys are among the keys):

* `PrefsInvariant`: `PrefsSpec => []PrefsInv`. `Durable` is not inductive: that the rename brings back what the unlink took needs
  that the temp then holds the document whole (`TempIsWritten`), that needs that the document in RAM is what the puts have made of it
  (`DocIsWanted`) and that only the open namespace is being saved (`SavesTheOpenOne`), and the window itself is where the file is
  missing and nothing else is (`FileIsUnlinked`).
* `PrefsTypes` and `PrefsDurable`: its consequences.

Then of the whole node (`NrfSpec`: app, console, both tasks, clock, power and flash in any order; `MCNrfNode` runs it in three parts), for
every set of key pairs, owners, regions, mesh orders, slots and commands. `NrfInv` goes by `todo`. `RamIsSaved` speaks of a node at rest; between, a
load that is pending has not happened, a put that is pending is of the value RAM has already, and with neither pending RAM and document agree (`RamMirrors`).
That needs the order of the work (`Ordered`: each piece inside begin .. end of its own namespace, the keys before the id that is made of them, a clear before
the restart), that no key has a load and a put pending at once (`LoadsAlone`), that the document is the file's between saves (`DocSaved`) and that
ids and regions are the only values of their keys (`StoreFits`). `IdOfKey` is what signing needs: once made, the id is that of the key in RAM. Consequences:
`NodeConsistent`, `SignsWhatItShould`, that the node implements the store's specification (`NodeUsesStore`), and with it `Durable` of the whole node. What
holds of RAM and files after a failed save or a failed key generation is left open by `RamIsSaved` (`~failed`) until the next start, as in the code.

`DataFlowProofs`, for every size of tables, rings and lists, every interval and time to live, and posts, lists of natives and messages of any length
(`StoreAssumption`, `SenderAssumption`, `SubAssumption`, `FlowAssumption`; `DfSpec`, of which `MCDataFlow` runs six parts with messages of two entities at most), and for every way of cutting ids and values that leaves the prefix and
that cuts what is cut no further (`CutAssumption`). `DfInv` has three parts.

* `DataInv`: `Sound` says of each buffer that it holds entries of its own prefix only and each id once, but for the `Doubtful` ones of the pool, which a longer id is cut down to; of a ring that its counted places, and only they, hold entries
  and that a ring that is not full starts at place 0. `Exact` says that whatever is held under any other id has as much as fits of the value the history has for it. `StoreExact` alone
  is not inductive: that an id is once in the whole search order needs that it is once in each buffer and that no two buffers share a prefix,
  and that a ring's walk from the oldest entry on meets each place once needs where its head stands (`Places`).
* `SenderInv`: what is owed is under `pub` (so a batch that leaves carries all of it, `NothingOwed`), and while anything is owed the flag is up.
* `SubInv`: each of RAM and NVS has every target once; while a save is under way the fields written so far, in the order of `nvsSave`, are the same in both
  (`WrittenSoFar`), and the two differ at most in the entry of the target that is being set (`SameAt`). That NVS, half written, has no target twice follows
  from these two: a slot that still has its old target cannot have the one being set, since that would be in another slot of RAM too.

The loops of the code (a prune, the writes of one handler, the list of natives) are recursive functions. The prover has no induction over data with an operator as parameter,
so `UpTo` states induction up to n for a set of numbers, from the library's least-element fact, and `FoldExists` that a function defined by such a recursion exists; every
loop is then followed step by step. `OnlyOldestLost` of a message with many entities needs along the way that what a table holds is old or of this very second (`OldOrNow`).
Consequences: `StoreExact`, `OwedIsPending`, `SubPrefixKept`, and the action property `LostOnlyOldest`.

Each invariant was first checked by TLC on the instance of its run. The assumptions on the constants are named in the modules that declare
them; they are what the tables and limits of the code satisfy, and TLC evaluates them in the runs.

Only model-checked: all liveness (fairness and `ENABLED` are beyond the prover: `AllAnswered`, `TunRamReturned`, `NothingHangs`, `SenderKeepsUp`, `ComesBack`,
`SettlesDown`, `AllSettle`, `NodeServes`). Every other property of the passing runs is a theorem.

## 5. What is not modelled, and what could follow

Abstracted on purpose: what a probe measures, message texts, signatures and the cipher, the
wording of logs. Pure I/O and text (HTTP client, template engine, traceroute, reverse DNS,
logging, the consoles' printing commands, build tools) has no state of its own worth a model.

* LoRa: received frames, their batch and the outbox of scans; what a scan measures (most of `lora_scan.cpp`).
* Checknet's averages, in which a deferred probe counts as 100 % loss (`checknet.cpp:409`) and a deferred trace
  as a probe's result (`net_worker.cpp:313`); the session record of hole punching (`punch.cpp:46`).
* HTTP handlers that only read, API tokens, pairing's proof.
* The port's entity store and scans (copies of the firmware's), its duty cycle (as `LoraLink`).
* The container's back-off (a number that only says when), identity file, dry run and entity contents.

Modules done, in the order of the plan: worker and its clients, tunnel, scripts, watchdog, radio; then node life, store and sender, sessions,
container and port. Proofs, in the order of the plan: worker, its clients, tunnel, sessions, radio, a device's life, the port's flash store and node, store and sender with
the subscription map.
