------------------------------ MODULE DataFlow ------------------------------
(***************************************************************************)
(* The way of the data through the node: DataSender fed by the HTTP        *)
(* handlers, the measurements, the scripts and the entities of remote      *)
(* nodes, the last stored under the prefix SubscriptionMap gives.  loop()  *)
(* runs one handler at a time and waits for NVS, so nothing happens while  *)
(* the map is being saved but the power failing.                           *)
(***************************************************************************)
EXTENDS DataSender, SubscriptionMap

CONSTANTS
    HttpIds,        \* ids posted on the local network
    ScriptIds,      \* ids scripts store under
    RemoteKeys      \* names remote nodes send

\* POST /data knows no prefixes of the user's, the ids of a script fit
\* (MAX_ENTITY_LEN), and "sub" stands for a reserved prefix (sub_map_set).
ASSUME FlowAssumption ==
    /\ HttpIds \subseteq [pfx : Reserved \cup {"bare"}, key : Keys]
    /\ ScriptIds \subseteq {id \in Ids : IdCut[id] = id}
    /\ SubPrefixes \subseteq UserPrefixes \ Reserved /\ RemoteKeys \subseteq Keys

dfVars == <<dsVars, subVars>>

Free == saving = << >>

Posted(id, val) == Free /\ handle_data_post(id, val) /\ UNCHANGED subVars
PostedMany(items) == Free /\ handle_data_batch(items) /\ UNCHANGED subVars
Measured(val) ==
    Free /\ entity_pushed(Id("mon", BasicsKey), val) /\ UNCHANGED subVars
ScriptStored(id, val) == Free /\ entity_pushed(id, val) /\ UNCHANGED subVars
ScanAnswered(ok, val) ==
    Free /\ data_sender_on_net_result(ok, val) /\ UNCHANGED subVars
SessionReady(names) == Free /\ on_identified(names) /\ UNCHANGED subVars
ScriptsReplaced == Free /\ ScriptsReset /\ UNCHANGED subVars
Ticked(val, queued, taken) ==
    Free /\ data_sender_tick(val, queued, taken) /\ UNCHANGED subVars
Time == Free /\ TimePasses /\ UNCHANGED subVars
Link(l) == LinkChanges(l) /\ UNCHANGED subVars
Aired == UplinkDone /\ UNCHANGED subVars

\* The sender's prefix in front of every name.
push_remote_entities(from, data) ==
    /\ Free
    /\ LET Stored(d) == Write(Id(sub_map_get(from), d.key), d.value)
       IN TakeItems([i \in DOMAIN data |-> Stored(data[i])], FALSE)
    /\ UNCHANGED subVars

Subscribed(t, p) == sub_map_set(t, p) /\ UNCHANGED dsVars
Saved == FieldSaved /\ UNCHANGED dsVars

\* The power fails: what is in RAM is gone.
Restarted(val) ==
    /\ sub_map_init
    /\ store' = entity_push(entity_store_init, << >>, Id("mon", BasicsKey), val, 0)
    /\ written' = [id \in {Id("mon", BasicsKey)} |-> val]
    /\ native' = << >> /\ now' = 0 /\ since' = SinceBoot
    /\ g_pending_send' = FALSE /\ link' = "none" /\ uplink' = FALSE
    /\ scanning' = 0 /\ unsent' = {}

DfInit == DsInit /\ SubInit

\* What the rest of the node and the world do: "ids" are the ids written,
\* "vals" their values, "names" the natives the backend lists.
Fed(ids, vals, names) ==
    \/ \E id \in HttpIds \cap ids, v \in vals : Posted(id, v)
    \/ \E i1, i2 \in HttpIds \cap ids, v \in vals :
          i1 # i2 /\ PostedMany(<<Write(i1, v), Write(i2, v)>>)
    \/ \E id \in ScriptIds \cap ids, v \in vals : ScriptStored(id, v)
    \/ SessionReady(names)
    \/ ScriptsReplaced

LinkMoves(links) == \E l \in links : Link(l)

Served(vals) ==
    \/ \E v \in vals, q, t \in BOOLEAN : Ticked(v, q, t)
    \/ \E ok \in BOOLEAN, v \in vals : ScanAnswered(ok, v)
    \/ \E v \in vals : Measured(v)
    \/ Time
    \/ Aired

Remote(keys, vals) ==
    \/ \E t \in Targets, k \in RemoteKeys \cap keys, v \in vals :
          push_remote_entities(t, <<[key |-> k, value |-> v]>>)
    \/ \E t \in Targets, p \in SubPrefixes : Subscribed(t, p)
    \/ Saved
    \/ \E v \in vals : Restarted(v)

\* Everything at once, posts, lists of natives and messages of any length.
DfNext ==
    \/ Fed(Ids, Values, << >>)
    \/ \E items \in Seq([id : HttpIds, value : Values]) : PostedMany(items)
    \/ \E names \in Seq(Keys) : SessionReady(names)
    \/ LinkMoves(Links)
    \/ Served(Values)
    \/ \E t \in Targets, data \in Seq([key : RemoteKeys, value : Values]) :
          push_remote_entities(t, data)
    \/ Remote(Keys, Values)
DfSpec == DfInit /\ [][DfNext]_dfVars

\* Time passes, the radio empties its outbox, and loop() comes round far more
\* often than anything falls due: what is due after the ping gets its pass.
DfFairness ==
    /\ WF_dfVars(Time)
    /\ WF_dfVars(Aired)
    /\ WF_dfVars(Due("ping") /\ \E v \in Values : Ticked(v, FALSE, FALSE))
    /\ SF_dfVars(~Due("ping") /\ BatchDue /\ \E v \in Values : Ticked(v, FALSE, TRUE))
    /\ SF_dfVars(~Due("ping") /\ ~BatchDue /\ \E v \in Values : Ticked(v, FALSE, FALSE))

\* entity_store.cpp:156-165: but for a restart, a table loses an entity only to
\* expiry or, when it is full, to a new one; and then no entity that stays
\* untouched carries an older stamp (but one of this very second, or from
\* before the wrap).
LostOnlyOldest == [][(\E v \in Values : Restarted(v)) \/ OnlyOldestLost]_dfVars
=============================================================================
