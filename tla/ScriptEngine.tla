---------------------------- MODULE ScriptEngine ----------------------------
(***************************************************************************)
(* src/src/script_engine.cpp, with the network steps of script_actions.cpp *)
(* on the worker of NetWorker.                                             *)
(*                                                                         *)
(* A script is a sequence of steps.  A network step is queued on the       *)
(* worker's lo queue and suspends its script in an "await"; the result, or *)
(* NET_AWAIT_TIMEOUT_MS, resumes it behind the step.  Scripts are replaced *)
(* while their jobs are in the worker, so an await is matched by a token   *)
(* the job carries, and every reload forgets all awaits.                   *)
(*                                                                         *)
(* What decides whether a step fires (cooldown, condition, duration) is    *)
(* abstracted: at each run any of the steps may.                           *)
(***************************************************************************)
EXTENDS NetClient

CONSTANTS ScriptIds,
          Programs,       \* sequences of "net" and "local" steps
          DsLists,        \* what tasks_update brings: sequences of scripts
          UsLists,        \* what NVS can hold: sequences of user scripts
          MAX_SCRIPTS,    \* awaits, and scripts that can be loaded
          MAX_STEPS,
          MaxTokens       \* bound: network steps launched in a behaviour

Scripts == [id : ScriptIds, prog : Programs]
Ids(list) == {list[i].id : i \in 1 .. Len(list)}

\* The backend and the user's page send scripts of distinct ids.
ASSUME ScriptAssumption ==
    /\ MAX_SCRIPTS \in Nat \ {0} /\ MAX_STEPS \in Nat \ {0} /\ MaxTokens \in Nat
    /\ \A p \in Programs : p \in Seq({"net", "local"}) /\ Len(p) <= MAX_STEPS
    /\ DsLists \subseteq Seq(Scripts) /\ UsLists \subseteq Seq(Scripts)
    /\ \A d \in DsLists, u \in UsLists :
         /\ Len(d) + Len(u) <= MAX_SCRIPTS
         /\ Cardinality(Ids(d) \cup Ids(u)) = Len(d) + Len(u)

VARIABLES
    scDs, scUs,   \* g_scripts: the backend's scripts, then the user's
    scNvs,        \* the user's scripts in NVS
    scAwaits,     \* g_awaits
    scSeq,        \* g_await_seq
    scResumed     \* history: how often the await of a token resumed its script

scVars == <<scDs, scUs, scNvs, scAwaits, scSeq, scResumed>>
engineVars == <<netVars, clientVars, scVars>>

Places  == 1 .. MAX_SCRIPTS
Tokens  == 1 .. MaxTokens
Steps   == 1 .. MAX_STEPS
ScTags  == [src : {"script"}, token : Tokens, id : ScriptIds, step : Steps]

ASSUME ScTagsAssumption == ScTags \subseteq Tags

\* due: NET_AWAIT_TIMEOUT_MS have passed.  late: since_ms lies behind the
\* "now" that the pass in progress compares it with.
NoAwait == [token |-> 0]
Awaits  == [token : Tokens, id : ScriptIds, step : Steps, due : BOOLEAN, late : BOOLEAN]

ScInit ==
    /\ scDs = <<>> /\ scUs = <<>> /\ scNvs \in UsLists
    /\ scAwaits = [i \in Places |-> NoAwait]
    /\ scSeq = 0
    /\ scResumed = [t \in Tokens |-> 0]

\* Scripts that parse_script left with steps.
Active(list) == {list[i] : i \in {k \in 1 .. Len(list) : list[k].prog # <<>>}}
Loaded == Active(scDs) \cup Active(scUs)

Awaiting(aw, id) == \E i \in Places : aw[i] # NoAwait /\ aw[i].id = id

-----------------------------------------------------------------------------
(* Running a script. *)

\* Faulty variant of FreePlace: the last free await is taken.
FreePlaceLast(aw) == CHOOSE i \in Places : aw[i] = NoAwait
                                        /\ \A k \in i + 1 .. MAX_SCRIPTS : aw[k] # NoAwait

\* script_engine_register_await takes the first.
FreePlace(aw) == CHOOSE i \in Places : aw[i] = NoAwait
                                    /\ \A k \in 1 .. i - 1 : aw[k] # NoAwait

\* Faulty variant of LaunchFails: a refused job leaves its await behind.
LaunchFailsKeepAwait(aw, s, k) ==
    /\ ~Room(FALSE)
    /\ scSeq' = scSeq + 1
    /\ scAwaits' = [aw EXCEPT ![FreePlace(aw)] =
                      [token |-> scSeq + 1, id |-> s.id, step |-> k, due |-> FALSE,
                       late |-> filling # 0]]
    /\ UNCHANGED netVars

\* q_ping, q_probe, q_fetch, q_webhook when the queue is full: the await is
\* cancelled, only its token is spent.
LaunchFails(aw, s, k) ==
    /\ ~Room(FALSE)
    /\ scSeq' = scSeq + 1
    /\ scAwaits' = aw
    /\ UNCHANGED netVars

\* The same four when the worker takes the job.
Launch(aw, s, k) ==
    /\ Room(FALSE)
    /\ Submit(FALSE, [src |-> "script", token |-> scSeq + 1, id |-> s.id, step |-> k])
    /\ scSeq' = scSeq + 1
    /\ scAwaits' = [aw EXCEPT ![FreePlace(aw)] =
                      [token |-> scSeq + 1, id |-> s.id, step |-> k, due |-> FALSE,
                       late |-> filling # 0]]

\* run_steps from a step on, with the awaits aw: the first network step that is
\* queued ends the run.  A run that goes on past one the worker refused is
\* covered by two runs.
RunSteps(aw, s, from) ==
    \/ \E k \in from .. Len(s.prog) :
         /\ s.prog[k] = "net" /\ scSeq < MaxTokens
         /\ ~Awaiting(aw, s.id) /\ \E i \in Places : aw[i] = NoAwait
         /\ Launch(aw, s, k) \/ LaunchFails(aw, s, k)
    \/ scAwaits' = aw /\ UNCHANGED <<netVars, scSeq>>

\* script_engine_run_by_id, for any script that is found; the tick does the same
\* for one script of the backend after the other.
ScRun ==
    /\ LoopFree
    /\ \E s \in Loaded :
         /\ ~Awaiting(scAwaits, s.id)
         /\ RunSteps(scAwaits, s, 1)
    /\ UNCHANGED <<clientVars, scDs, scUs, scNvs, scResumed>>

\* Faulty variant of Resume: the await stays active.
ResumeKeepAwait(i) ==
    LET a == scAwaits[i]
    IN  /\ scResumed' = [scResumed EXCEPT ![a.token] = @ + 1]
        /\ IF \E s \in Loaded : s.id = a.id
           THEN \E s \in Loaded : s.id = a.id /\ RunSteps(scAwaits, s, a.step + 1)
           ELSE UNCHANGED <<netVars, scAwaits, scSeq>>

\* The await in place i is over and its script runs on, if it is still loaded.
Resume(i) ==
    LET a  == scAwaits[i]
        aw == [scAwaits EXCEPT ![i] = NoAwait]
    IN  /\ scResumed' = [scResumed EXCEPT ![a.token] = @ + 1]
        /\ IF \E s \in Loaded : s.id = a.id
           THEN \E s \in Loaded : s.id = a.id /\ RunSteps(aw, s, a.step + 1)
           ELSE scAwaits' = aw /\ UNCHANGED <<netVars, scSeq>>

Matches(a, tag) == a # NoAwait /\ a.token = tag.token

\* script_engine_on_net_result: a result nobody awaits is dropped.
ScOnResult ==
    /\ Dispatched("script")
    /\ IF \E i \in Places : Matches(scAwaits[i], nr.job.tag)
       THEN \E i \in Places : Matches(scAwaits[i], nr.job.tag) /\ Resume(i)
       ELSE UNCHANGED <<netVars, scAwaits, scSeq, scResumed>>
    /\ Done
    /\ UNCHANGED <<scDs, scUs, scNvs>>

-----------------------------------------------------------------------------
(* awaits_check_timeouts: one pass over the awaits, comparing with the     *)
(* clock read when it began.  A pass over no awaits is left out.           *)

AwaitGetsDue ==
    /\ \E i \in Places :
         /\ scAwaits[i] # NoAwait /\ ~scAwaits[i].due
         /\ scAwaits' = [scAwaits EXCEPT ![i].due = TRUE]
    /\ UNCHANGED <<netVars, clientVars, scDs, scUs, scNvs, scSeq, scResumed>>

PassBegin ==
    /\ LoopFree
    /\ \E i \in Places : scAwaits[i] # NoAwait
    /\ filling' = 1
    /\ scAwaits' = [i \in Places |-> IF scAwaits[i] = NoAwait THEN NoAwait
                                     ELSE [scAwaits[i] EXCEPT !.late = FALSE]]
    /\ UNCHANGED <<netVars, nr, scDs, scUs, scNvs, scSeq, scResumed>>

\* now - since_ms >= NET_AWAIT_TIMEOUT_MS, in unsigned arithmetic: a since_ms
\* behind "now" makes the difference huge.
TimedOut(a) == a # NoAwait /\ (a.due \/ a.late)

PassPlace ==
    /\ filling # 0
    /\ filling' = IF filling = MAX_SCRIPTS THEN 0 ELSE filling + 1
    /\ IF TimedOut(scAwaits[filling]) THEN Resume(filling)
       ELSE UNCHANGED <<netVars, scAwaits, scSeq, scResumed>>
    /\ UNCHANGED <<nr, scDs, scUs, scNvs>>

-----------------------------------------------------------------------------
(* Loading. *)

NoAwaits == [i \in Places |-> NoAwait]

\* awaits_clear_all, as both loads call it.
AfterLoad == NoAwaits

\* script_engine_load_user, given the backend's scripts and the awaits that
\* precede it.  It leaves everything as it is if there is no memory.
LoadUser(ds, aw, nvs) ==
    /\ scDs' = ds
    /\ \/ scUs' = nvs /\ scAwaits' = AfterLoad
       \/ ds \o nvs # <<>> /\ UNCHANGED scUs /\ scAwaits' = aw

\* on_tasks_update: script_engine_load, which may find no memory, then
\* script_engine_load_user.
ScTasksUpdate ==
    /\ LoopFree
    /\ \E d \in DsLists :
         \/ LoadUser(d, AfterLoad, scNvs)
         \/ d \o scUs # <<>> /\ LoadUser(scDs, scAwaits, scNvs)
    /\ UNCHANGED <<netVars, clientVars, scNvs, scSeq, scResumed>>

\* handle_scripts_post, handle_scripts_delete.
ScUserChange ==
    /\ LoopFree
    /\ scNvs' \in UsLists
    /\ LoadUser(scDs, scAwaits, scNvs')
    /\ UNCHANGED <<netVars, clientVars, scSeq, scResumed>>

\* script_engine_clear.  Without memory the scripts stay, but not their awaits.
ScClear ==
    /\ LoopFree
    /\ scAwaits' = NoAwaits
    /\ \/ scDs' = <<>>
       \/ scUs # <<>> /\ UNCHANGED scDs
    /\ UNCHANGED <<netVars, clientVars, scUs, scNvs, scSeq, scResumed>>

-----------------------------------------------------------------------------
EngineStep == ScRun \/ ScOnResult \/ PassBegin \/ PassPlace
              \/ ScTasksUpdate \/ ScUserChange \/ ScClear

EngineNext ==
    \/ WorkerNext /\ UNCHANGED <<clientVars, scVars>>
    \/ Take /\ UNCHANGED scVars
    \/ EngineStep \/ AwaitGetsDue

EngineInit == NetInit /\ ClientInit /\ ScInit
EngineSpec == EngineInit /\ [][EngineNext]_engineVars

-----------------------------------------------------------------------------
EngineTypeOK ==
    /\ scDs \in DsLists \cup {<<>>} /\ scUs \in UsLists \cup {<<>>} /\ scNvs \in UsLists
    /\ scAwaits \in [Places -> Awaits \cup {NoAwait}]
    /\ scSeq \in 0 .. MaxTokens
    /\ filling \in 0 .. MAX_SCRIPTS
    /\ nr \in Results \cup {NoResult}

ActivePlaces == {i \in Places : scAwaits[i] # NoAwait}

JobsCarrying(a) == {j \in Present : j.tag.token = a.token}

\* A suspended script is waiting for a job that really is under way: exactly one
\* job carries its token, and it is the job of the very script and step.  No
\* queue that is full, no reload and no late result leaves an await without job.
ScAwaitBacked ==
    \A i \in ActivePlaces :
        /\ Cardinality(JobsCarrying(scAwaits[i])) = 1
        /\ \A j \in JobsCarrying(scAwaits[i]) : /\ j.tag.id = scAwaits[i].id
                                          /\ j.tag.step = scAwaits[i].step

\* Whoever resumes a script finds it as it was suspended: its await names a
\* network step of the program that is loaded now, and two awaits never name
\* the same script -- so there is a free await for any script that runs.
ScAwaitFits ==
    /\ \A i \in ActivePlaces : \E s \in Loaded :
         /\ s.id = scAwaits[i].id
         /\ scAwaits[i].step <= Len(s.prog) /\ s.prog[scAwaits[i].step] = "net"
    /\ \A i, k \in ActivePlaces : scAwaits[i].id = scAwaits[k].id => i = k

\* What the engine believes of its awaits: the types and both of the above.
ScConsistent == EngineTypeOK /\ ScAwaitBacked /\ ScAwaitFits

\* The step that follows a network step is reached once: by the result or by
\* the timeout, never by both.
ScResumedOnce == \A t \in Tokens : scResumed[t] <= 1

\* An await that a timeout pass makes lies behind the place the pass has come
\* to.  Ahead of it, the unsigned difference would time it out at once.
ScFreshKept ==
    \A i \in ActivePlaces : filling # 0 /\ scAwaits[i].late => i < filling

\* script_engine.cpp:273 "a lost or delayed result must not hang the script":
\* every await ends, even if the worker never answers again.
ScNeverHangs ==
    \A t \in Tokens : (\E i \in Places : scAwaits[i].token = t)
                         ~> (\A i \in Places : scAwaits[i].token # t)
=============================================================================
