----------------------------- MODULE WsWatchdog -----------------------------
(***************************************************************************)
(* src/src/ws_client.cpp: the session with the backend as far as it is up  *)
(* or down, and the watchdog that restarts a node whose WebSocket client   *)
(* hangs.                                                                  *)
(*                                                                         *)
(* While the session is down and WiFi is up, the watchdog probes the       *)
(* backend's TCP port through the network worker.  A probe that succeeds   *)
(* after WS_WD_GRACE_MS proves the client hung; after WS_WD_PROPH_MS the   *)
(* node restarts whatever the probes say.  A restart stores the episode in *)
(* NVS, and the next session reports it.  The power may fail at any time.  *)
(*                                                                         *)
(* Time is kept in timers that saturate.  A moment is known by the number  *)
(* of the tick that took it for the beginning of an outage.                *)
(***************************************************************************)
EXTENDS NetClient

CONSTANTS WS_WD_GRACE, WS_WD_PROPH,    \* WS_WD_GRACE_MS, WS_WD_PROPH_MS
          MaxMoments                   \* bound: moments told apart

ASSUME WatchdogAssumption ==
    /\ WS_WD_GRACE \in Nat \ {0} /\ WS_WD_PROPH \in Nat /\ WS_WD_GRACE < WS_WD_PROPH
    /\ MaxMoments \in Nat \ {0}

VARIABLES
    wifi,         \* WiFi.status() = WL_CONNECTED
    link,         \* "down"; "open": identify sent; "up": g_ws_connected
    clock,        \* s_epoch_base is set
    downSince,    \* s_wd_down_since, a moment; 0 is the code's sentinel
    downFor,      \* now - s_wd_down_since
    probeDue,     \* now has reached s_wd_next_probe
    probing,      \* s_wd_inflight
    prev, nvs,    \* start_epoch of s_wd_prev and of wd_ep in NVS, a moment or 0
    moments,      \* history: the latest moment
    deadFor,      \* history: how long no tick has found the session up or WiFi lost
    boot          \* history: why the node restarted last, and deadFor then

wdVars == <<wifi, link, clock, downSince, downFor, probeDue, probing, prev, nvs,
            moments, deadFor, boot>>
nodeVars == <<netVars, clientVars, wdVars>>

WdTags == [src : {"wd", "other"}]
WdTag  == [src |-> "wd"]

ASSUME WdTagsAssumption == WdTags \subseteq Tags

WdInit ==
    /\ wifi = TRUE /\ link = "down" /\ clock = FALSE
    /\ downSince = 0 /\ downFor = 0 /\ probeDue = FALSE /\ probing = FALSE
    /\ prev = 0 /\ nvs = 0
    /\ moments = 0 /\ deadFor = 0
    /\ boot = [why |-> "power", deadFor |-> 0]

-----------------------------------------------------------------------------
(* Restarts. *)

\* Everything in RAM starts anew; ws_client_init loads the episode.  A boot
\* without WiFi does not come as far.
Boot(why, stored) ==
    /\ hiQ' = <<>> /\ loQ' = <<>> /\ resQ' = <<>>
    /\ pc' = "hi" /\ cur' = NoJob /\ out' = NoResult
    /\ gate' = FALSE /\ inFlight' = {} /\ overtakes' = 0
    /\ nr' = NoResult /\ filling' = 0
    /\ wifi' = TRUE /\ link' = "down" /\ clock' = FALSE
    /\ downSince' = 0 /\ downFor' = 0 /\ probeDue' = FALSE /\ probing' = FALSE
    /\ prev' = stored /\ nvs' = stored
    /\ deadFor' = 0
    /\ UNCHANGED moments
    /\ boot' = [why |-> why, deadFor |-> deadFor]

\* Faulty variant of Episode: the start of this boot's outage, not of the first.
EpisodeOfThisBoot(known) == IF known THEN downSince ELSE 0

\* ws_wd_persist_episode: the stored start, or else this outage's if the clock
\* can tell it.
Episode(known) == IF prev # 0 THEN prev ELSE IF known THEN downSince ELSE 0

\* ws_wd_restart.
Restart(why, known) == Boot(why, Episode(known))

\* A power failure, or a restart some other component decides on.
PowerFails == Boot("power", nvs)

-----------------------------------------------------------------------------
(* ws.loop: what the WebSocket library reports within one tick. *)

NothingHappens == UNCHANGED <<link, clock, prev, nvs>>

Connects ==
    /\ link = "down" /\ wifi
    /\ link' = "open"
    /\ UNCHANGED <<clock, prev, nvs>>

Disconnects ==
    /\ link # "down"
    /\ link' = "down"
    /\ UNCHANGED <<clock, prev, nvs>>

\* on_identified with a session key: the episode is reported and forgotten.
Identified ==
    /\ link = "open"
    /\ link' = "up"
    /\ clock' \in {clock, TRUE}
    /\ prev' = 0 /\ nvs' = 0

\* on_identified without one disconnects; it has set the clock by then.
Refused ==
    /\ link = "open"
    /\ link' = "down"
    /\ clock' \in {clock, TRUE}
    /\ UNCHANGED <<prev, nvs>>

WsLoop == NothingHappens \/ Connects \/ Disconnects \/ Identified \/ Refused

-----------------------------------------------------------------------------
(* ws_client_tick: ws.loop, then the watchdog with what ws.loop left. *)

TickUp ==
    /\ link' = "up" \/ ~wifi
    /\ downSince' = 0 /\ downFor' = 0
    /\ UNCHANGED <<netVars, clientVars, wifi, probeDue, probing, moments, boot>>

TickDown ==
    /\ link' # "up" /\ wifi /\ downSince = 0
    /\ moments' = IF moments < MaxMoments THEN moments + 1 ELSE moments
    /\ downSince' = moments' /\ downFor' = 0
    /\ probeDue' = TRUE
    /\ UNCHANGED <<netVars, clientVars, wifi, probing, boot>>

\* The probe is queued; a full queue postpones it.
TickProbe ==
    /\ link' # "up" /\ wifi /\ downSince # 0 /\ downFor < WS_WD_PROPH
    /\ \/ /\ probing \/ ~probeDue
          /\ UNCHANGED <<netVars, probeDue, probing>>
       \/ /\ ~probing /\ probeDue /\ Room(FALSE)
          /\ Submit(FALSE, WdTag)
          /\ probing' = TRUE
          /\ UNCHANGED probeDue
       \/ /\ ~probing /\ probeDue /\ ~Room(FALSE)
          /\ probeDue' = FALSE
          /\ UNCHANGED <<netVars, probing>>
    /\ UNCHANGED <<clientVars, wifi, downSince, downFor, moments, boot>>

Tick ==
    /\ LoopFree
    /\ WsLoop
    /\ TickUp \/ TickDown \/ TickProbe
    /\ deadFor' = IF link' = "up" \/ ~wifi THEN 0 ELSE deadFor

\* Faulty variant of Prophylactic: it waits for the probe under way.
ProphylacticProbed ==
    /\ LoopFree
    /\ link # "up" /\ wifi /\ downSince # 0 /\ downFor >= WS_WD_PROPH /\ ~probing
    /\ \E known \in {clock, clock \/ link = "open"} : Restart("proph", known)

\* The tick that finds WS_WD_PROPH_MS over and the session still down.  A refused
\* session may have set the clock in this very tick.
Prophylactic ==
    /\ LoopFree
    /\ link # "up" /\ wifi /\ downSince # 0 /\ downFor >= WS_WD_PROPH
    /\ \E known \in {clock, clock \/ link = "open"} : Restart("proph", known)

\* Faulty variant of WdOnResult: a result that comes too late is dropped first.
WdOnResultLateFirst ==
    /\ Dispatched("wd")
    /\ \/ /\ downSince = 0 \/ link = "up"
          /\ Done
          /\ UNCHANGED <<netVars, wdVars>>
       \/ /\ downSince # 0 /\ link # "up"
          /\ IF nr.outcome = "ok" /\ downFor >= WS_WD_GRACE THEN Restart("hung", clock)
             ELSE /\ probing' = FALSE /\ probeDue' = FALSE /\ Done
                  /\ UNCHANGED <<netVars, wifi, link, clock, downSince, downFor, prev, nvs,
                                 moments, deadFor, boot>>

\* ws_client_wd_on_net_result.  A deferred probe says nothing.
WdOnResult ==
    /\ Dispatched("wd")
    /\ \/ /\ downSince = 0 \/ link = "up"
          /\ probing' = FALSE
          /\ Done
          /\ UNCHANGED <<netVars, wifi, link, clock, downSince, downFor, probeDue, prev, nvs,
                         moments, deadFor, boot>>
       \/ /\ downSince # 0 /\ link # "up"
          /\ IF nr.outcome = "ok" /\ downFor >= WS_WD_GRACE THEN Restart("hung", clock)
             ELSE /\ probing' = FALSE /\ probeDue' = FALSE /\ Done
                  /\ UNCHANGED <<netVars, wifi, link, clock, downSince, downFor, prev, nvs,
                                 moments, deadFor, boot>>

-----------------------------------------------------------------------------
(* The surroundings: time, WiFi, and the worker's other clients. *)

Later(t) == IF t < WS_WD_PROPH THEN t + 1 ELSE t

Time ==
    /\ downFor' = IF downSince = 0 THEN 0 ELSE Later(downFor)
    /\ deadFor' = IF link = "up" THEN 0 ELSE Later(deadFor)
    /\ UNCHANGED <<netVars, clientVars, wifi, link, clock, downSince, probeDue, probing,
                   prev, nvs, moments, boot>>

ProbeTime ==
    /\ downSince # 0 /\ ~probeDue
    /\ probeDue' = TRUE
    /\ UNCHANGED <<netVars, clientVars, wifi, link, clock, downSince, downFor, probing,
                   prev, nvs, moments, deadFor, boot>>

WifiChanges ==
    /\ wifi' = ~wifi
    /\ UNCHANGED <<netVars, clientVars, link, clock, downSince, downFor, probeDue, probing,
                   prev, nvs, moments, deadFor, boot>>

\* At most one job of theirs at a time.
OthersAsk ==
    /\ LoopFree /\ Room(FALSE)
    /\ \A j \in Present : j.tag.src # "other"
    /\ Submit(FALSE, [src |-> "other"])
    /\ UNCHANGED <<clientVars, wdVars>>

OthersAnswered ==
    /\ Dispatched("other") /\ Done
    /\ UNCHANGED <<netVars, wdVars>>

WdNext ==
    \/ Tick \/ Prophylactic \/ WdOnResult
    \/ PowerFails \/ Time \/ ProbeTime \/ WifiChanges
    \/ OthersAsk \/ OthersAnswered
    \/ WorkerNext /\ UNCHANGED <<clientVars, wdVars>>
    \/ Take /\ UNCHANGED wdVars

WdSpec == NetInit /\ ClientInit /\ WdInit /\ [][WdNext]_nodeVars
-----------------------------------------------------------------------------
WdTypeOK ==
    /\ {wifi, clock, probeDue, probing} \subseteq BOOLEAN
    /\ link \in {"down", "open", "up"}
    /\ {downSince, prev, nvs} \subseteq 0 .. moments
    /\ {downFor, deadFor} \subseteq 0 .. WS_WD_PROPH
    /\ moments \in 0 .. MaxMoments
    /\ boot \in [why : {"power", "hung", "proph"}, deadFor : 0 .. WS_WD_PROPH]

\* The watchdog waits for a probe exactly while one is in the worker, also after
\* sessions that came and went meanwhile: a flag without a probe would end the
\* probing until the next boot.
WdProbeBacked ==
    Cardinality({j \in Present : j.tag.src = "wd"}) = IF probing THEN 1 ELSE 0

\* ws_client.cpp:56 "so that a deploy of the backend does not restart the fleet":
\* no watchdog restart before the session has been down, with WiFi up, for the
\* whole of the grace period, nor a prophylactic one before WS_WD_PROPH_MS.
WdGraceHonoured ==
    /\ boot.why = "hung" => boot.deadFor >= WS_WD_GRACE
    /\ boot.why = "proph" => boot.deadFor >= WS_WD_PROPH

\* What the watchdog believes of its probe and of the outage: the types and both
\* of the above.
WdConsistent == WdTypeOK /\ WdProbeBacked /\ WdGraceHonoured

\* ws_client.cpp:67-69: the start of an outage, once it is stored, outlives all
\* restarts and power failures until a session reports it, and no later.
WdEpisodeKept ==
    [][/\ nvs # 0 /\ nvs' # nvs => nvs' = 0 /\ link' = "up"
       /\ link' = "up" => nvs' = 0]_nodeVars

\* A client that hangs for good is restarted, even if no probe ever returns.
WdHeals == <>[](link # "up" /\ wifi) => []<>(downSince = 0)
=============================================================================
