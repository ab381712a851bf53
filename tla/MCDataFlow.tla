----------------------------- MODULE MCDataFlow -----------------------------
(* Small instance of DataFlow.  Each behaviour is one "part" of the traffic:
   its ids, its values and its links; the state space is the sum of the parts
   and not their product. *)
EXTENDS DataFlow

VARIABLE part

MCHttpIds == {Id("pub", "a"), Id("bare", "b"), Id("bare", "c"), Id("own", "a")}
MCScriptIds == {Id("tmp", "a"), Id("tmp", "b"), Id("tmp", "c"), Id("bare", "a"),
                Id("mon", "a"), Id("mon", "b")}

\* "long" is cut to "cut" behind every prefix, the value 3 to 2.
MCIdCut == [id \in Ids |-> IF id.key = "long" THEN Id(id.pfx, "cut") ELSE id]
MCValueCut == [val \in Values |-> IF val = 3 THEN 2 ELSE val]

Part(ids, vals, names, links) ==
    [ids |-> ids, vals |-> vals, names |-> names, links |-> links]

Parts ==
    [tables |-> Part({Id("pub", "a"), Id("bare", "b"), Id("bare", "c")}, {1},
                     <<"a", "b", "c">>, {"wifi"}),
     links  |-> Part({Id("pub", "a"), Id("own", "a")}, {1}, <<"a">>, Links),
     rings  |-> Part({Id("tmp", "a"), Id("tmp", "b"), Id("tmp", "c")}, {1, 3}, << >>, {}),
     mon    |-> Part({Id("mon", "a"), Id("mon", "b")}, {1, 2}, << >>, {}),
     remote |-> Part({}, {1}, << >>, {}),
     long   |-> Part({}, {1, 3}, << >>, {})]

MCInit ==
    /\ part \in DOMAIN Parts
    /\ DfInit
    /\ \A id \in DOMAIN written : written[id] \in Parts[part].vals
MCNext ==
    /\ UNCHANGED part
    /\ \/ Fed(Parts[part].ids, Parts[part].vals, Parts[part].names)
       \/ LinkMoves(Parts[part].links)
       \/ part = "tables" /\ (Served(Parts[part].vals) /\ UNCHANGED scanning)
       \/ part = "links" /\ Served(Parts[part].vals)
       \/ part = "remote" /\ Remote({"a"}, Parts[part].vals)
       \/ part = "long" /\ (Remote(RemoteKeys, Parts[part].vals) /\ UNCHANGED subVars)
       \/ part = "mon" /\ Time
MCSpec == MCInit /\ [][MCNext]_<<dfVars, part>>
          /\ DfFairness
=============================================================================
