------------------------------ MODULE Monitors ------------------------------
(***************************************************************************)
(* src/src/monitors.cpp: monitor slots configured by the backend, each     *)
(* probed through the worker's hi queue, one probe at a time, and judged   *)
(* up or down with hysteresis.                                             *)
(***************************************************************************)
EXTENDS NetClient

CONSTANTS Slots,      \* 1 .. MONITORS_MAX_SLOTS
          MonIds,     \* monitor ids of the backend, positive
          MonConfs,   \* the rest of a MonCfg
          FAIL_N, OK_N,
          MaxSets     \* bound: resets of a slot in a behaviour

VARIABLES
    monCfg,     \* g_cfg: id (0 for a free slot) and the rest
    monRun,     \* g_run: state, cfail, cok (saturating at their limits), awaiting
    monGen      \* history: how often a slot was reset

monVars == <<monCfg, monRun, monGen>>

MonTags == [src : {"mon"}, ref : Slots, id : MonIds, gen : 1 .. MaxSets]

ASSUME MonitorsAssumption ==
    /\ Slots \subseteq Nat /\ MonIds \subseteq Nat \ {0} /\ MonConfs # {}
    /\ FAIL_N \in Nat \ {0} /\ OK_N \in Nat \ {0} /\ MaxSets \in Nat
    /\ MonTags \subseteq Tags

FreshRun == [state |-> "unknown", cfail |-> 0, cok |-> 0, awaiting |-> FALSE]

MonInit ==
    /\ monCfg = [s \in Slots |-> [id |-> 0, conf |-> CHOOSE c \in MonConfs : TRUE]]
    /\ monRun = [s \in Slots |-> FreshRun]
    /\ monGen = [s \in Slots |-> 0]

Least(S) == CHOOSE s \in S : \A t \in S : s <= t

SlotsOf(id) == {s \in Slots : monCfg[s].id = id}

\* Faulty variant of ResetRun: the awaiting flag survives the slot's new use.
ResetRunKeepAwaiting(s) == [FreshRun EXCEPT !.awaiting = monRun[s].awaiting]

\* mon_reset_run.
ResetRun(s) == FreshRun

\* monitors_on_set: the slot that has the id, or else the first free one.  An
\* identical configuration changes nothing.
MonOnSet ==
    /\ LoopFree
    /\ \E id \in MonIds, conf \in MonConfs :
         LET slots == IF SlotsOf(id) # {} THEN SlotsOf(id) ELSE SlotsOf(0)
             s     == Least(slots)
         IN  /\ slots # {}
             /\ monCfg[s] # [id |-> id, conf |-> conf]
             /\ monGen[s] < MaxSets
             /\ monCfg' = [monCfg EXCEPT ![s] = [id |-> id, conf |-> conf]]
             /\ monRun' = [monRun EXCEPT ![s] = ResetRun(s)]
             /\ monGen' = [monGen EXCEPT ![s] = @ + 1]
    /\ UNCHANGED <<netVars, clientVars>>

\* monitors_on_clear, and a set without a host: the slot is freed, its run
\* state stays as it is.
MonOnClear ==
    /\ LoopFree
    /\ \E id \in MonIds :
         /\ SlotsOf(id) # {}
         /\ monCfg' = [monCfg EXCEPT ![Least(SlotsOf(id))].id = 0]
    /\ UNCHANGED <<netVars, clientVars, monRun, monGen>>

\* monitors_update, a slot whose probe is due: none is queued while one is
\* awaited, nor into a full queue.
MonProbe ==
    /\ LoopFree
    /\ \E s \in Slots :
         /\ monCfg[s].id # 0 /\ ~monRun[s].awaiting
         /\ Room(TRUE)
         /\ Submit(TRUE, [src |-> "mon", ref |-> s, id |-> monCfg[s].id, gen |-> monGen[s]])
         /\ monRun' = [monRun EXCEPT ![s].awaiting = TRUE]
    /\ UNCHANGED <<clientVars, monCfg, monGen>>

AtMost(n, limit) == IF n < limit THEN n ELSE limit

\* The hysteresis of monitors_on_net_result.
Judged(run, ok) ==
    LET cok   == IF ok THEN AtMost(run.cok + 1, OK_N) ELSE 0
        cfail == IF ok THEN 0 ELSE AtMost(run.cfail + 1, FAIL_N)
    IN  [state |-> IF run.state # "down" /\ cfail >= FAIL_N THEN "down"
                   ELSE IF run.state # "up" /\ cok >= OK_N THEN "up"
                   ELSE run.state,
         cfail |-> cfail, cok |-> cok, awaiting |-> FALSE]

\* monitors_on_net_result: only the id is compared.  A deferred probe counts
\* neither way.
MonOnResult ==
    /\ Dispatched("mon")
    /\ LET s == nr.job.tag.ref
       IN  monRun' = IF monCfg[s].id # nr.job.tag.id THEN monRun
                     ELSE IF nr.outcome = "deferred" THEN [monRun EXCEPT ![s].awaiting = FALSE]
                     ELSE [monRun EXCEPT ![s] = Judged(@, nr.outcome = "ok")]
    /\ Done
    /\ UNCHANGED <<netVars, monCfg, monGen>>

MonNext == MonOnSet \/ MonOnClear \/ MonProbe \/ MonOnResult

-----------------------------------------------------------------------------
ProbesOf(s) == {j \in Present : /\ j.tag.src = "mon" /\ j.tag.ref = s
                                /\ j.tag.id = monCfg[s].id}

\* A slot never waits for nothing: no timer clears `awaiting`, so the flag of a
\* configured slot must be backed by a probe whose result will clear it, however
\* the slot was set, cleared and reused meanwhile.
MonAwaitingBacked ==
    \A s \in Slots : monCfg[s].id # 0 /\ monRun[s].awaiting => ProbesOf(s) # {}

\* A slot whose configuration never changed has at most one probe in the worker
\* (monitors.cpp:38, "do not queue a second one"; a change of the configuration
\* forgets the probe under way, and then there may be two).
MonOneProbeUnchanged ==
    \A s \in Slots : monGen[s] = 1 => Cardinality(ProbesOf(s)) <= 1
=============================================================================
