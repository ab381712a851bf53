--------------------------- MODULE MCLoopClients ---------------------------
(* Small instances of the two clients of the worker that wait for what they  *)
(* asked for and must not wait for ever: the scripts and the WebSocket        *)
(* watchdog.  Each behaviour is one "part"; the other client stands still.    *)
(* A lo queue of one place, so that both find it full; two moments.           *)
EXTENDS ScriptEngine, WsWatchdog

VARIABLE part

MCPrograms == {<<"net", "net">>, <<"local", "net">>, <<>>}
MCA == [id |-> "a", prog |-> <<"net", "net">>]
MCB == [id |-> "b", prog |-> <<"local", "net">>]
MCU == [id |-> "u", prog |-> <<"net", "net">>]
MCEmpty == [id |-> "a", prog |-> <<>>]
MCDsLists == {<<MCA, MCB>>, <<MCEmpty>>}
MCUsLists == {<<MCU>>}
MCTags == ScTags \cup WdTags
MCJobs == [tag : MCTags, n : {1}]
MCKind == [j \in MCJobs |-> "probe"]

MCInit ==
    /\ NetInit /\ ClientInit /\ ScInit /\ WdInit
    /\ part \in {"scripts", "watchdog"}

\* A script takes one result like another: one outcome will do.
MCNext ==
    /\ UNCHANGED part
    /\ \/ part = "scripts" /\ EngineNext /\ UNCHANGED wdVars
          /\ (out' = NoResult \/ out'.outcome = "ok")
       \/ part = "watchdog" /\ WdNext /\ UNCHANGED scVars

\* The loop goes round and the clock runs: between two of its ticks the loop
\* dispatches only so many results.  Nothing is assumed of the worker.
MCSpec ==
    /\ MCInit /\ [][MCNext]_<<engineVars, wdVars, part>>
    /\ WF_engineVars(PassBegin) /\ WF_engineVars(PassPlace)
    /\ WF_engineVars(ScOnResult) /\ WF_engineVars(AwaitGetsDue)
    /\ WF_nodeVars(part = "watchdog" /\ Time) /\ SF_nodeVars(part = "watchdog" /\ Tick)
    /\ SF_nodeVars(Prophylactic)
    /\ WF_nodeVars(WdOnResult) /\ WF_nodeVars(OthersAnswered)

\* Neither client waits for ever, even if the worker never answers again: a
\* script's await ends, a hung session's watchdog restarts the node.
NothingHangs == ScNeverHangs /\ WdHeals
=============================================================================
