------------------------------ MODULE LoraLink ------------------------------
(***************************************************************************)
(* src/src/lora_scan.cpp (link mode, region, fallback) and                 *)
(* src/src/mesh_tx.cpp: one radio, driven by lora_task on core 0, while    *)
(* loop() on core 1 writes the region, the plan and the batches it works   *)
(* with.  The two run truly in parallel and share s_link, s_region,        *)
(* s_duty and s_cur_ch without a lock.                                     *)
(*                                                                         *)
(* The loop's changes are a step per field written, lpc saying how far     *)
(* they have come; the copy of a plan is one step.  The task's steps       *)
(* are what happens between two reads of what the loop writes.             *)
(*                                                                         *)
(* A region has an envelope of carriers it permits, a carrier for SENSMOS  *)
(* and one for Meshtastic, and two sub-bands with a budget of airtime      *)
(* each.  A channel is a carrier and a modem; "fsk" channels are only      *)
(* listened to.  Channels are numbered from 1.                             *)
(*                                                                         *)
(* Time is counted in seconds of a short minute: one of guard, one that    *)
(* is the beacon's slot, and the others of the uplink's window.  A minute  *)
(* is also a channel's time and the hour of the duty cycle.                *)
(***************************************************************************)
EXTENDS Integers, Sequences, FiniteSets

CONSTANTS
    Regions, Carriers,
    RegionDefault,            \* LORA_REGION_DEFAULT
    Envelope,                 \* rf_lo..rf_hi: the carriers of a region
    SmosFreq, MeshFreq,       \* smos_freq, mesh_freq
    SubBand,                  \* the carriers within lo..hi of band[0] and of band[1]
    Limit,                    \* limit_ms of each band, in frames
    LORA_LINK_MAX_CH

Bands == {0, 1}

ASSUME PlanAssumption ==
    /\ RegionDefault \in Regions
    /\ Envelope \in [Regions -> SUBSET Carriers]
    /\ SmosFreq \in [Regions -> Carriers] /\ MeshFreq \in [Regions -> Carriers]
    /\ SubBand \in [Regions -> [Bands -> SUBSET Carriers]]
    /\ Limit \in [Regions -> [Bands -> Nat \ {0}]]
    /\ LORA_LINK_MAX_CH \in Nat \ {0}
    /\ \A r \in Regions : SmosFreq[r] \in Envelope[r]

Channels == [f : Carriers, mode : {"lora", "fsk"}]
Slots == 1..LORA_LINK_MAX_CH

CONSTANTS
    Plans,               \* the plans lora_cfg may bring
    SecsPerMin, MaxTime, \* bound: length of a minute, last second
    NFrag,               \* bound: frames of a batch
    MaxBatches,          \* bound: batches sent by the fallback
    MaxCmds,             \* bound: commands and changes of the WiFi
    CfgFails,            \* whether begin() may fail
    LORA_CFG_FAIL_MAX

ASSUME LinkAssumption ==
    /\ \A p \in Plans : p \in Seq(Channels) /\ Len(p) \in Slots
    /\ SecsPerMin \in Nat /\ SecsPerMin > 2 /\ MaxTime \in Nat
    /\ NFrag \in Nat \ {0} /\ MaxBatches \in Nat /\ MaxCmds \in Nat
    /\ CfgFails \in BOOLEAN /\ LORA_CFG_FAIL_MAX \in Nat \ {0}

VARIABLES
    \* written by the loop
    region, nCh, chans, fromBE,    \* s_region, s_link.n_ch, .ch, s_plan_from_be
    on, beOn, fbOn, wifi,          \* s_link.on, s_link_be_on, s_fb_on, g_wifi_connected
    jobs,                          \* requests in s_q
    lpc, want,                     \* where the loop is in a change; the on of lora_link_set
    cmds, batches,                 \* bounds: commands and batches so far
    \* written by both
    cur,                           \* s_cur_ch; 0 is the code's -1
    used, hourOf,                  \* s_duty
    up, mesh, meshOn,              \* the batch in flight of each path; s_enabled
    \* written by the task
    pc, idx, frame, old,           \* where lora_task is, and its locals
    radio,                         \* what the radio is tuned to
    broken, fails, failIdx,        \* s_ch_broken, s_cfg_fail, s_cfg_fail_idx
    lastUpSec, lastMeshSec, lastTxMin,
    time,
    \* history
    touched,    \* the loop wrote plan or region since the task read them for a retune,
                \* or cleared the counters since they allowed the frame on the air
    lost,       \* the task overwrote an order to retune
    unrestored, \* the radio refused its configuration after a mesh frame
    aired,      \* frames of this hour in each sub-band
    sent        \* frames of batches that were on the air

sharedVars == <<cur, used, hourOf, up, mesh, meshOn>>
loopVars == <<region, nCh, chans, fromBE, on, beOn, fbOn, wifi, jobs, lpc, want,
              cmds, batches>>
taskVars == <<pc, idx, frame, old, radio, broken, fails, failIdx, lastUpSec,
              lastMeshSec, lastTxMin>>
historyVars == <<touched, lost, unrestored, aired, sent>>
linkVars == <<sharedVars, loopVars, taskVars, time, historyVars>>

-----------------------------------------------------------------------------
(* Regions and channel plans, as far as they are data. *)

\* ch_tx_allowed.
TxAllowed(c, r) == c.mode = "lora" /\ c.f \in Envelope[r]

\* region_default_ch.
DefaultCh(r) == [f |-> SmosFreq[r], mode |-> "lora"]

\* band_for_freq: a carrier of neither sub-band is charged to the first.
BandForFreq(f, r) ==
    IF f \in SubBand[r][1] \ SubBand[r][0] THEN 1 ELSE 0

\* The channels plan_sanitize keeps: those only listened to and those within
\* the envelope.  K[n] is what it has kept of the first n.
Keeps(c, r) == c.mode # "lora" \/ c.f \in Envelope[r]
Kept(plan, r) ==
    LET K[n \in 0..Len(plan)] ==
            IF n = 0 THEN <<>>
            ELSE IF Keeps(plan[n], r) THEN Append(K[n-1], plan[n]) ELSE K[n-1]
    IN  K[Len(plan)]

Transmits(plan, r) == \E i \in DOMAIN plan : TxAllowed(plan[i], r)

\* In a full plan the last channel makes place for the region's default.
WithDefault(plan, r) ==
    IF Len(plan) >= LORA_LINK_MAX_CH
    THEN Append(SubSeq(plan, 1, LORA_LINK_MAX_CH - 1), DefaultCh(r))
    ELSE Append(plan, DefaultCh(r))

\* plan_sanitize.
Sanitized(plan, r) ==
    IF Transmits(Kept(plan, r), r) THEN Kept(plan, r)
    ELSE WithDefault(Kept(plan, r), r)

-----------------------------------------------------------------------------
NoCarrier == "none"
Off == [f |-> NoCarrier, mode |-> "off"]
Scanning == [f |-> NoCarrier, mode |-> "scan"]
MeshCh(r) == [f |-> MeshFreq[r], mode |-> "mesh"]
NoFrame == [kind |-> "none", band |-> 0]

Minute == 1 + (time \div SecsPerMin)
Sec == time % SecsPerMin
InGuard == Sec = 0
InSlot == Sec = 1
InWindow == Sec > 1

LinkInit ==
    /\ region = RegionDefault /\ nCh = 0
    /\ chans = [i \in Slots |-> DefaultCh(RegionDefault)]   \* never read: nCh = 0
    /\ fromBE = FALSE
    /\ on = FALSE /\ beOn = FALSE /\ fbOn = FALSE /\ wifi \in BOOLEAN
    /\ jobs = 0 /\ lpc = "idle" /\ want = FALSE /\ cmds = 0 /\ batches = 0
    /\ cur = 0 /\ used = [b \in Bands |-> 0] /\ hourOf = [b \in Bands |-> 0]
    /\ up = [pending |-> FALSE, frag |-> 0, seq |-> 0, batch |-> 0]
    /\ mesh = [pending |-> FALSE, frag |-> 0, seq |-> 0, batch |-> 0]
    /\ meshOn \in BOOLEAN
    /\ pc = "top" /\ idx = 0 /\ frame = NoFrame /\ old = 0
    /\ radio = Off /\ broken = FALSE /\ fails = 0 /\ failIdx = 0
    /\ lastUpSec = 61 /\ lastMeshSec = 61 /\ lastTxMin = 0
    /\ time = 0
    /\ touched = FALSE /\ lost = FALSE /\ unrestored = FALSE
    /\ aired = [b \in Bands |-> 0] /\ sent = {}

-----------------------------------------------------------------------------
(* The loop: changes of region and plan. *)

Plan == SubSeq(chans, 1, nCh)

\* Writing a plan leaves what lies behind its end as it was.
WritePlan(p) ==
    /\ nCh' = Len(p)
    /\ chans' = [i \in Slots |-> IF i <= Len(p) THEN p[i] ELSE chans[i]]

\* A retune under way has read what is written now.
Touch == touched' = (touched \/ pc \in {"warm", "failed"})

Command == lpc = "idle" /\ cmds < MaxCmds /\ cmds' = cmds + 1

\* lora_link_set, by a lora_cfg of the backend: with a plan, or only the other
\* fields.
LinkSet ==
    /\ Command /\ wifi
    /\ want' \in BOOLEAN
    /\ \/ /\ lpc' = "order"
          /\ UNCHANGED <<nCh, chans, fromBE, touched>>
       \/ \E p \in Plans :
            /\ lpc' = "sanitize"
            /\ WritePlan(p) /\ Touch
            /\ fromBE' = TRUE
    /\ UNCHANGED <<sharedVars, region, on, beOn, fbOn, wifi, jobs, batches,
                   taskVars, time, lost, unrestored, aired, sent>>

LinkSanitize ==
    /\ lpc = "sanitize"
    /\ WritePlan(Sanitized(Plan, region)) /\ Touch
    /\ lpc' = "order"
    /\ UNCHANGED <<sharedVars, region, fromBE, on, beOn, fbOn, wifi, jobs, want,
                   cmds, batches, taskVars, time, lost, unrestored, aired, sent>>

\* Faulty variant of LinkOrder: the fallback's own wish is forgotten.
OrderOfBackend ==
    /\ lpc = "order"
    /\ beOn' = want /\ on' = want
    /\ cur' = 0
    /\ lpc' = "idle" /\ want' = FALSE
    /\ UNCHANGED <<used, hourOf, up, mesh, meshOn, region, nCh, chans, fromBE, fbOn,
                   wifi, jobs, cmds, batches, taskVars, time, historyVars>>

\* The end of lora_link_set, which orders a retune.
LinkOrder ==
    /\ lpc = "order"
    /\ beOn' = want /\ on' = (want \/ fbOn)
    /\ cur' = 0
    /\ lpc' = "idle" /\ want' = FALSE
    /\ UNCHANGED <<used, hourOf, up, mesh, meshOn, region, nCh, chans, fromBE, fbOn,
                   wifi, jobs, cmds, batches, taskVars, time, historyVars>>

\* lora_region_set writes the region, clears the counters, fits the plan and
\* orders a retune.
RegionSet ==
    /\ Command
    /\ \E r \in Regions \ {region} : region' = r
    /\ Touch
    /\ lpc' = "clear"
    /\ UNCHANGED <<sharedVars, nCh, chans, fromBE, on, beOn, fbOn, wifi, jobs, want,
                   batches, taskVars, time, lost, unrestored, aired, sent>>

RegionClear ==
    /\ lpc = "clear"
    /\ used' = [b \in Bands |-> 0] /\ hourOf' = [b \in Bands |-> 0]
    /\ aired' = [b \in Bands |-> 0] /\ touched' = (touched \/ pc = "air")
    /\ lpc' = "apply"
    /\ UNCHANGED <<cur, up, mesh, meshOn, region, nCh, chans, fromBE, on, beOn, fbOn,
                   wifi, jobs, want, cmds, batches, taskVars, time,
                   lost, unrestored, sent>>

\* region_apply_to_plan: without a plan nothing, the default for a default
\* (install_region_default_plan), and a plan of the backend sanitized.
NewPlan == IF fromBE THEN Sanitized(Plan, region) ELSE <<DefaultCh(region)>>

RegionApply ==
    /\ lpc = "apply"
    /\ IF nCh = 0 \/ (fromBE /\ NewPlan = Plan)
       THEN UNCHANGED <<nCh, chans, cur, touched>>
       ELSE WritePlan(NewPlan) /\ cur' = 0 /\ Touch
    /\ on' = (IF nCh > 0 /\ ~fromBE THEN beOn \/ fbOn ELSE on)
    /\ lpc' = "retune"
    /\ UNCHANGED <<used, hourOf, up, mesh, meshOn, region, fromBE, beOn, fbOn, wifi,
                   jobs, want, cmds, batches, taskVars, time,
                   lost, unrestored, aired, sent>>

\* The last line of lora_region_set.
RegionRetune ==
    /\ lpc = "retune"
    /\ cur' = 0
    /\ lpc' = "idle"
    /\ UNCHANGED <<used, hourOf, up, mesh, meshOn, region, nCh, chans, fromBE, on, beOn,
                   fbOn, wifi, jobs, want, cmds, batches, taskVars, time, historyVars>>

-----------------------------------------------------------------------------
(* The loop: the fallback, batches, commands. *)

\* g_wifi_connected, kept by wifi_maintain.
WifiChanges ==
    /\ Command
    /\ wifi' = ~wifi
    /\ UNCHANGED <<sharedVars, region, nCh, chans, fromBE, on, beOn, fbOn, jobs, lpc,
                   want, batches, taskVars, time, historyVars>>

\* lora_fallback_tick after LORA_FALLBACK_AFTER_S without WiFi.
FallbackOn ==
    /\ lpc = "idle" /\ ~wifi /\ ~fbOn
    /\ fbOn' = TRUE
    /\ lpc' = "fallback"
    /\ UNCHANGED <<sharedVars, region, nCh, chans, fromBE, on, beOn, wifi, jobs, want,
                   cmds, batches, taskVars, time, historyVars>>

\* The plan it will transmit by: the default if there is none, which turns the
\* link on (install_region_default_plan), or else its own, sanitized.
FallbackPlan ==
    /\ lpc = "fallback"
    /\ IF nCh = 0
       THEN WritePlan(<<DefaultCh(region)>>) /\ cur' = 0 /\ on' = TRUE
       ELSE /\ WritePlan(Sanitized(Plan, region))
            /\ cur' = (IF Sanitized(Plan, region) = Plan THEN cur ELSE 0)
            /\ UNCHANGED on
    /\ Touch
    /\ fromBE' = (fromBE /\ nCh > 0)
    /\ lpc' = "raise"
    /\ UNCHANGED <<used, hourOf, up, mesh, meshOn, region, beOn, fbOn, wifi, jobs, want,
                   cmds, batches, taskVars, time, lost, unrestored, aired, sent>>

FallbackRaise ==
    /\ lpc = "raise"
    /\ on' = TRUE /\ cur' = 0
    /\ lpc' = "idle"
    /\ UNCHANGED <<used, hourOf, up, mesh, meshOn, region, nCh, chans, fromBE, beOn, fbOn,
                   wifi, jobs, want, cmds, batches, taskVars, time, historyVars>>

\* lora_fallback_tick with WiFi back.
FallbackOff ==
    /\ lpc = "idle" /\ wifi /\ fbOn
    /\ fbOn' = FALSE
    /\ on' = beOn /\ cur' = 0
    /\ UNCHANGED <<used, hourOf, up, mesh, meshOn, region, nCh, chans, fromBE, beOn, wifi,
                   jobs, lpc, want, cmds, batches, taskVars, time, historyVars>>

\* Faulty variant of MeshEnqueue: the batch in flight is not asked for.
MeshOverwrite(b) ==
    mesh' = IF meshOn THEN [mesh EXCEPT !.pending = TRUE, !.frag = 0, !.batch = b] ELSE mesh

\* mesh_uplink_enqueue.
MeshEnqueue(b) ==
    mesh' = IF meshOn /\ ~mesh.pending
            THEN [mesh EXCEPT !.pending = TRUE, !.frag = 0, !.batch = b] ELSE mesh

\* send_batch by radio and lora_dispatch_batch: both paths, independently.
\* lora_uplink_enqueue refuses nothing here: send_batch has asked for it.
SendBatch ==
    /\ lpc = "idle" /\ fbOn /\ ~up.pending /\ batches < MaxBatches
    /\ batches' = batches + 1
    /\ up' = [up EXCEPT !.pending = TRUE, !.frag = 0, !.batch = batches + 1]
    /\ MeshEnqueue(batches + 1)
    /\ UNCHANGED <<cur, used, hourOf, meshOn, region, nCh, chans, fromBE, on, beOn, fbOn,
                   wifi, jobs, lpc, want, cmds, taskVars, time, historyVars>>

\* mesh_tx_configure with a good key.
MeshConfigure ==
    /\ Command
    /\ meshOn' = ~meshOn
    /\ UNCHANGED <<cur, used, hourOf, up, mesh, region, nCh, chans, fromBE, on, beOn, fbOn,
                   wifi, jobs, lpc, want, batches, taskVars, time, historyVars>>

\* enqueue: refused while the task is busy.
Enqueue ==
    /\ Command
    /\ pc \notin {"job", "bg"} /\ jobs < 2
    /\ jobs' = jobs + 1
    /\ UNCHANGED <<sharedVars, region, nCh, chans, fromBE, on, beOn, fbOn, wifi, lpc, want,
                   batches, taskVars, time, historyVars>>

LoopStep ==
    \/ LinkSet \/ LinkSanitize \/ LinkOrder
    \/ RegionSet \/ RegionClear \/ RegionApply \/ RegionRetune
    \/ WifiChanges \/ FallbackOn \/ FallbackPlan \/ FallbackRaise \/ FallbackOff
    \/ SendBatch \/ MeshConfigure \/ Enqueue

-----------------------------------------------------------------------------
(* The task: requests, the background cycle and the choice of the channel. *)

\* What the task's steps leave to the loop.
TaskOnly == UNCHANGED <<loopVars, meshOn, time>>

JobStart ==
    /\ pc = "top" /\ jobs > 0
    /\ jobs' = jobs - 1
    /\ pc' = "job" /\ radio' = Scanning
    /\ UNCHANGED <<sharedVars, region, nCh, chans, fromBE, on, beOn, fbOn, wifi, lpc, want,
                   cmds, batches, idx, frame, old, broken, fails, failIdx, lastUpSec,
                   lastMeshSec, lastTxMin, time, historyVars>>

\* Faulty variant of JobEnd: the task believes itself on its channel still.
JobEndsOnly ==
    /\ pc = "job" /\ pc' = "top"
    /\ TaskOnly
    /\ UNCHANGED <<cur, used, hourOf, up, mesh, idx, frame, old, radio, broken, fails,
                   failIdx, lastUpSec, lastMeshSec, lastTxMin, historyVars>>

JobEnd ==
    /\ pc = "job" /\ pc' = "top"
    /\ cur' = 0
    /\ TaskOnly
    /\ UNCHANGED <<used, hourOf, up, mesh, idx, frame, old, radio, broken, fails,
                   failIdx, lastUpSec, lastMeshSec, lastTxMin, historyVars>>

\* bg_cycle, with the link off.
BgCycle ==
    /\ \/ pc = "top" /\ jobs = 0 /\ ~on /\ pc' = "bg" /\ radio' = Scanning
       \/ pc = "bg" /\ pc' = "top" /\ UNCHANGED radio
    /\ TaskOnly
    /\ UNCHANGED <<cur, used, hourOf, up, mesh, idx, frame, old, broken, fails,
                   failIdx, lastUpSec, lastMeshSec, lastTxMin, historyVars>>

\* link_tick has a clock and a plan.
LinkTick == pc = "top" /\ jobs = 0 /\ on /\ nCh > 0

Idx == 1 + (Minute % nCh)

\* Another channel is due, and this is the time for it: cfg_ch succeeds or not.
Retune ==
    /\ LinkTick /\ Idx # cur /\ (InGuard \/ cur = 0)
    /\ idx' = Idx
    /\ \/ pc' = "warm" /\ radio' = chans[Idx]
       \/ CfgFails /\ pc' = "failed" /\ radio' = Off
    /\ touched' = FALSE
    /\ TaskOnly
    /\ UNCHANGED <<cur, used, hourOf, up, mesh, frame, old, broken, fails, failIdx,
                   lastUpSec, lastMeshSec, lastTxMin, lost, unrestored, aired, sent>>

\* After rx_warmup and channel_rssi.  What the loop wrote to s_cur_ch meanwhile
\* is overwritten.
RetuneDone ==
    /\ pc = "warm"
    /\ cur' = idx
    /\ broken' = FALSE /\ fails' = 0 /\ failIdx' = idx
    /\ lost' = touched /\ touched' = FALSE /\ unrestored' = FALSE
    /\ pc' = "top" /\ idx' = 0
    /\ TaskOnly
    /\ UNCHANGED <<used, hourOf, up, mesh, frame, old, radio, lastUpSec, lastMeshSec,
                   lastTxMin, aired, sent>>

\* The radio refused the channel; after LORA_CFG_FAIL_MAX times the task stops
\* on it all the same.
RetuneFailed ==
    /\ pc = "failed"
    /\ failIdx' = idx
    /\ fails' = (IF idx # failIdx THEN 1
                 ELSE IF fails < LORA_CFG_FAIL_MAX THEN fails + 1 ELSE fails)
    /\ IF fails' < LORA_CFG_FAIL_MAX THEN UNCHANGED <<broken, cur>>
       ELSE broken' = TRUE /\ cur' = idx
    /\ touched' = FALSE
    /\ pc' = "top" /\ idx' = 0
    /\ TaskOnly
    /\ UNCHANGED <<used, hourOf, up, mesh, frame, old, radio, lastUpSec, lastMeshSec,
                   lastTxMin, lost, unrestored, aired, sent>>

-----------------------------------------------------------------------------
(* The task: transmitting. *)

\* duty_allows: the band's window is moved on first.
Rolled(b) == IF hourOf[b] = Minute THEN used[b] ELSE 0
RollWindow(b) ==
    /\ used' = [used EXCEPT ![b] = Rolled(b)]
    /\ hourOf' = [hourOf EXCEPT ![b] = Minute]
DutyAllows(b) == Rolled(b) + 1 <= Limit[region][b]

TxOk == ~broken /\ TxAllowed(chans[cur], region)
OnChannel == LinkTick /\ Idx = cur

\* One SENSMOS frame of kind k on the channel's sub-band, if its budget allows.
SendSmos(k) ==
    LET b == BandForFreq(chans[cur].f, region) IN
    /\ RollWindow(b)
    /\ IF DutyAllows(b) THEN pc' = "air" /\ frame' = [kind |-> k, band |-> b]
       ELSE UNCHANGED <<pc, frame>>
    /\ TaskOnly
    /\ UNCHANGED <<cur, up, mesh, idx, old, radio, broken, fails, failIdx,
                   lastMeshSec, historyVars>>

Beacon ==
    /\ OnChannel /\ TxOk /\ InSlot /\ lastTxMin # Minute
    /\ lastTxMin' = Minute
    /\ SendSmos("beacon")
    /\ UNCHANGED lastUpSec

UplinkDue == TxOk /\ up.pending /\ lastUpSec # Sec /\ InWindow

Uplink ==
    /\ OnChannel /\ UplinkDue
    /\ lastUpSec' = Sec
    /\ SendSmos("up")
    /\ UNCHANGED lastTxMin

\* mesh_tx_next up to transmit(), in a pass that sent no uplink frame: nothing
\* if disabled or over budget, and radio.begin() may fail.
MeshTx ==
    LET b == BandForFreq(MeshFreq[region], region) IN
    /\ OnChannel /\ ~UplinkDue /\ mesh.pending /\ lastMeshSec # Sec /\ InWindow
    /\ lastMeshSec' = Sec
    /\ idx' = cur
    /\ RollWindow(b)
    /\ IF meshOn /\ DutyAllows(b)
       THEN \/ pc' = "air" /\ radio' = MeshCh(region) /\ frame' = [kind |-> "mesh", band |-> b]
            \/ CfgFails /\ pc' = "restore" /\ radio' = Off /\ UNCHANGED frame
       ELSE pc' = "restore" /\ UNCHANGED <<radio, frame>>
    /\ TaskOnly
    /\ UNCHANGED <<cur, up, mesh, old, broken, fails, failIdx, lastUpSec, lastTxMin,
                   historyVars>>

\* The frame of batch q that was on the air, and the batch after it.
OnAir(q) == [kind |-> frame.kind, seq |-> q.seq, frag |-> q.frag, batch |-> q.batch]
Advanced(q) ==
    IF q.frag + 1 >= NFrag
    THEN [q EXCEPT !.pending = FALSE, !.frag = 0, !.batch = 0, !.seq = @ + 1]
    ELSE [q EXCEPT !.frag = @ + 1]

\* transmit() returns.  The counter is read here and written in Debit, as the
\* loop may clear it in between.
Aired ==
    /\ pc = "air"
    /\ pc' = "debit" /\ old' = used[frame.band]
    /\ aired' = (IF touched THEN aired ELSE [aired EXCEPT ![frame.band] = @ + 1])
    /\ touched' = FALSE
    /\ sent' = sent \cup (IF frame.kind = "up" THEN {OnAir(up)}
                          ELSE IF frame.kind = "mesh" THEN {OnAir(mesh)} ELSE {})
    /\ mesh' = (IF frame.kind = "mesh" THEN Advanced(mesh) ELSE mesh)
    /\ TaskOnly
    /\ UNCHANGED <<cur, used, hourOf, up, idx, frame, radio, broken, fails, failIdx,
                   lastUpSec, lastMeshSec, lastTxMin, lost, unrestored>>

\* transmit() fails: no frame, no airtime.
AirFails ==
    /\ pc = "air" /\ CfgFails
    /\ pc' = (IF frame.kind = "mesh" THEN "restore" ELSE "top")
    /\ frame' = NoFrame /\ touched' = FALSE
    /\ TaskOnly
    /\ UNCHANGED <<cur, used, hourOf, up, mesh, idx, old, radio, broken, fails, failIdx,
                   lastUpSec, lastMeshSec, lastTxMin, lost, unrestored, aired, sent>>

\* Faulty variant of DebitBand: one counter for the node.
DebitFirst(f) == 0
DebitBand(f) == f.band

\* duty_debit, and the next frame of the uplink.
Debit ==
    /\ pc = "debit"
    /\ used' = [used EXCEPT ![DebitBand(frame)] = old + 1]
    /\ up' = (IF frame.kind = "up" THEN Advanced(up) ELSE up)
    /\ pc' = (IF frame.kind = "mesh" THEN "restore" ELSE "top")
    /\ frame' = NoFrame /\ old' = 0
    /\ TaskOnly
    /\ UNCHANGED <<cur, hourOf, mesh, idx, radio, broken, fails, failIdx, lastUpSec,
                   lastMeshSec, lastTxMin, historyVars>>

\* Back to the channel after a mesh frame; a failure is only logged.
Restore ==
    /\ pc = "restore"
    /\ \/ radio' = chans[idx] /\ unrestored' = FALSE /\ lost' = FALSE
       \/ CfgFails /\ radio' = Off /\ unrestored' = TRUE /\ UNCHANGED lost
    /\ pc' = "top" /\ idx' = 0
    /\ TaskOnly
    /\ UNCHANGED <<cur, used, hourOf, up, mesh, frame, old, broken, fails, failIdx,
                   lastUpSec, lastMeshSec, lastTxMin, touched, aired, sent>>

TaskStep ==
    \/ JobStart \/ JobEnd \/ BgCycle \/ Retune \/ RetuneDone \/ RetuneFailed
    \/ Beacon \/ Uplink \/ MeshTx \/ Aired \/ AirFails \/ Debit \/ Restore

-----------------------------------------------------------------------------
\* A pass of link_tick that transmits ends within the guard time before the
\* minute does: the clock moves between passes, and during scans and retunes.
ClockTick ==
    /\ time < MaxTime
    /\ pc \in {"top", "job", "bg", "warm"}
    /\ time' = time + 1
    /\ aired' = (IF (time + 1) % SecsPerMin = 0 THEN [b \in Bands |-> 0] ELSE aired)
    /\ UNCHANGED <<sharedVars, loopVars, taskVars, touched, lost, unrestored, sent>>

LinkNext == LoopStep \/ TaskStep \/ ClockTick

LinkSpec == LinkInit /\ [][LinkNext]_linkVars

-----------------------------------------------------------------------------
(* Properties. *)

\* The types; the plan never outgrows s_link.ch, whatever is added to it.
LoraTypeOK ==
    /\ region \in Regions /\ nCh \in 0..LORA_LINK_MAX_CH
    /\ chans \in [Slots -> Channels]
    /\ {fromBE, on, beOn, fbOn, wifi, want, meshOn, broken} \subseteq BOOLEAN
    /\ jobs \in 0..2
    /\ lpc \in {"idle", "sanitize", "order", "clear", "apply", "retune", "fallback", "raise"}
    /\ cur \in 0..LORA_LINK_MAX_CH /\ idx \in 0..LORA_LINK_MAX_CH
    /\ used \in [Bands -> Nat] /\ hourOf \in [Bands -> Nat]
    /\ up.frag < NFrag /\ mesh.frag < NFrag
    /\ pc \in {"top", "job", "bg", "warm", "failed", "air", "debit", "restore"}
    /\ radio \in Channels \cup {MeshCh(r) : r \in Regions} \cup {Off, Scanning}
    /\ fails \in 0..LORA_CFG_FAIL_MAX

\* When the task takes the radio to stand on a channel, it does: whatever
\* changes of plan, scans, background cycles and mesh frames have come before.
\* There are three exceptions, and only these: an order to retune that fell
\* into a retune (RetuneDone), a radio that refused to be configured after a
\* mesh frame (Restore), and one that refused a channel and has taken none
\* since (RetuneFailed).
RadioOnPlan ==
    (pc = "top" /\ lpc = "idle" /\ on /\ cur # 0)
        => (radio = chans[cur] \/ lost \/ unrestored \/ fails > 0)

\* Between changes, the plan has only channels the region permits or that are
\* listened to, and one to transmit on: in whatever order regions, plans of
\* the backend and the fallback come.
PlanLegal ==
    (lpc = "idle" /\ nCh > 0)
        => /\ \A i \in 1..nCh : chans[i].mode = "lora" => TxAllowed(chans[i], region)
           /\ Transmits(Plan, region)

\* The link is on exactly if the backend or the fallback wants it: a region
\* set during the fallback does not end it, the return of the WiFi leaves what
\* the backend asked for.
LinkFollowsIntent == lpc = "idle" => (on = (beOn \/ fbOn))

\* The frames on the air within an hour stay within the budget of their
\* sub-band, although two protocols share the radio and the loop clears the
\* counters while the task works with them.  A frame begun before they were
\* cleared belongs to the region before and does not count.
BudgetKept == lpc = "idle" => \A b \in Bands : aired[b] <= Limit[region][b]

\* Under one sequence number there are the frames of one batch, from the first
\* without a gap; a later number means that the batch before it is complete.
BatchesWhole ==
    \A s \in sent :
        /\ \A x \in sent : (x.kind = s.kind /\ x.seq = s.seq) => x.batch = s.batch
        /\ \A i \in 0..(s.frag - 1) :
               \E x \in sent : x.kind = s.kind /\ x.seq = s.seq /\ x.frag = i
        /\ s.seq > 0 =>
               \A i \in 0..(NFrag - 1) :
                   \E x \in sent : x.kind = s.kind /\ x.seq = s.seq - 1 /\ x.frag = i

\* The plan is legal at every moment between changes, and the radio serves it.
RadioServesPlan == LoraTypeOK /\ PlanLegal /\ RadioOnPlan

\* lora_scan.cpp:620-623: the plan must go along with the region, so that the
\* node does not transmit on the carrier of the region before: a SENSMOS frame
\* that is begun while no change is under way goes out on a carrier the region
\* permits.
BeginsSmos == pc = "top" /\ pc' = "air" /\ frame'.kind # "mesh"
RegionCarriesPlan ==
    [][(BeginsSmos /\ lpc = "idle") => radio.f \in Envelope[region]]_linkVars
=============================================================================
