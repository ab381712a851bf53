--------------------------- MODULE SubscriptionMap ---------------------------
(***************************************************************************)
(* Under which prefix the data of a remote node is stored                  *)
(* (src/src/subscription_map.cpp): a ring of SUB_MAP_MAX entries, each     *)
(* saved to NVS field by field after every change.  Power may fail between *)
(* two fields; sub_map_init then reads what is there.                      *)
(***************************************************************************)
EXTENDS Naturals, Sequences, FiniteSets

CONSTANTS
    Targets,       \* device ids
    SubPrefixes,   \* prefixes a user may choose; "sub" is the default
    SUB_MAP_MAX

ASSUME SubAssumption ==
    SUB_MAP_MAX \in Nat \ {0} /\ "sub" \in SubPrefixes /\ "" \notin Targets

VARIABLES
    map,        \* _map, _head and _count in RAM
    nvs,        \* the same fields as NVS holds them
    saving,     \* fields nvsSave has still to write
    setting,    \* history: the target being saved
    chosen      \* history: the prefix chosen for each target saved in full

subVars == <<map, nvs, saving, setting, chosen>>

Slots == 0 .. SUB_MAP_MAX - 1
Empty == [target |-> [i \in Slots |-> ""], prefix |-> [i \in Slots |-> ""],
          head |-> 0, count |-> 0]

\* Faulty variant of find_slot: the search stops where the ring will write next.
find_slotBelowHead(t) == {i \in 0 .. map.head - 1 : map.target[i] = t}

find_slot(t) == {i \in Slots : map.target[i] = t}

\* nvsSave's order: head, count, then target and prefix of every slot.
nvsSave == <<<<"head", 0>>, <<"count", 0>>>> \o
    [n \in 1 .. 2 * SUB_MAP_MAX |->
        <<IF n % 2 = 1 THEN "target" ELSE "prefix", (n - 1) \div 2>>]

Field(m, f) == IF f[1] \in {"head", "count"} THEN m[f[1]] ELSE m[f[1]][f[2]]
Put(m, f, v) ==
    IF f[1] \in {"head", "count"} THEN [m EXCEPT ![f[1]] = v]
    ELSE [m EXCEPT ![f[1]][f[2]] = v]

sub_map_set(t, p) ==
    /\ saving = << >>
    /\ LET known == find_slot(t) # {}
           slot == IF known THEN CHOOSE i \in find_slot(t) : TRUE ELSE map.head
       IN /\ map' = [target |-> [map.target EXCEPT ![slot] = t],
                     prefix |-> [map.prefix EXCEPT ![slot] = p],
                     head   |-> IF known THEN map.head ELSE (map.head + 1) % SUB_MAP_MAX,
                     count  |-> IF known \/ map.count = SUB_MAP_MAX THEN map.count
                                ELSE map.count + 1]
          /\ chosen' = [x \in (DOMAIN chosen \ {map.target[slot]}) \cup {t} |->
                           IF x = t THEN p ELSE chosen[x]]
    /\ saving' = nvsSave
    /\ setting' = t
    /\ UNCHANGED nvs

\* One putInt or putString; loop() goes on when all are written.
FieldSaved ==
    /\ saving # << >>
    /\ nvs' = Put(nvs, Head(saving), Field(map, Head(saving)))
    /\ saving' = Tail(saving)
    /\ UNCHANGED <<map, setting, chosen>>

\* Power fails; sub_map_init reads NVS.  Nothing is promised for the entry
\* whose save was cut short.
sub_map_init ==
    /\ map' = nvs
    /\ saving' = << >>
    /\ chosen' = [t \in DOMAIN chosen \ (IF saving = << >> THEN {} ELSE {setting})
                    |-> chosen[t]]
    /\ UNCHANGED <<nvs, setting>>

\* The prefix sub_map_get finds for a sender, "sub" if it finds none.
sub_map_get(t) ==
    IF find_slot(t) = {} THEN "sub"
    ELSE map.prefix[CHOOSE i \in find_slot(t) : \A j \in find_slot(t) : i <= j]

SubInit ==
    /\ map = Empty /\ nvs = Empty
    /\ saving = << >>
    /\ setting = ""
    /\ chosen = << >>

\* subscription_map.cpp:57-72: a sender has one entry at most, and the prefix
\* chosen for it stays its prefix, through overwriting of the oldest entry,
\* and through power failures in the middle of saving another one.
SubPrefixKept ==
    /\ \A t \in Targets : Cardinality(find_slot(t)) <= 1
    /\ \A t \in DOMAIN chosen : find_slot(t) # {} /\ sub_map_get(t) = chosen[t]
=============================================================================
