---------------------------- MODULE EntityStore ----------------------------
(***************************************************************************)
(* The entity store (src/src/entity_store.cpp; the nRF52840 port carries   *)
(* the same text): three tables (pub, mon, own), two rings (tmp, pool) and *)
(* the list of native names the backend sells.  Every handler that writes  *)
(* runs in loop(), so the store is a value and a handler a function on it. *)
(*                                                                         *)
(* An entity id is a prefix and a key; the prefix picks the buffer.  Time  *)
(* is millis()/1000, an unsigned count that comes back to 0 at SEC_WRAP.   *)
(***************************************************************************)
EXTENDS Naturals, Sequences, FiniteSets

CONSTANTS
    Keys,              \* names without a prefix
    Values,            \* what an entity can be set to
    UserPrefixes,      \* what the user may put before remote data ("sub", ...)
    ENTITY_PUB_MAX, ENTITY_MON_MAX, ENTITY_OWN_MAX,
    ENTITY_TMP_MAX, ENTITY_POOL_MAX,
    NATIVE_MAX,        \* room in the list of native names
    OWN_TTL_S, PUB_TTL_S,
    SEC_WRAP,          \* millis()/1000 counts 0 .. SEC_WRAP - 1
    IdCut,             \* what DataEntry has room for of an id: 35 characters
    ValueCut           \* and of a value: 39

ASSUME StoreAssumption ==
    /\ {ENTITY_PUB_MAX, ENTITY_MON_MAX, ENTITY_OWN_MAX,
        ENTITY_TMP_MAX, ENTITY_POOL_MAX, NATIVE_MAX, SEC_WRAP} \subseteq Nat \ {0}
    /\ {OWN_TTL_S, PUB_TTL_S} \subseteq Nat

\* "bare" is an id without a prefix, which scripts may store under; "" comes
\* of a subscription whose save was cut short between target and prefix.
EntityPrefixes == {"pub", "mon", "own", "tmp", "bare", ""} \cup UserPrefixes
Id(p, k) == [pfx |-> p, key |-> k]
Ids == [pfx : EntityPrefixes, key : Keys]

\* A prefix is shorter than 16 characters and survives the cut.
ASSUME CutAssumption ==
    /\ IdCut \in [Ids -> Ids] /\ ValueCut \in [Values -> Values]
    /\ \A id \in Ids : IdCut[id].pfx = id.pfx /\ IdCut[IdCut[id]] = IdCut[id]

\* DataEntry without the unit.
Entry == [id : Ids, value : Values, last_updated : 0 .. SEC_WRAP - 1]
fill_entry(id, val, sec) ==
    [id |-> IdCut[id], value |-> ValueCut[val], last_updated |-> sec]

\* The prefixes with a buffer of their own; the rest goes to the pool.
Reserved == {"pub", "mon", "own", "tmp"}

-----------------------------------------------------------------------------
(* Tables. *)

find_in(buf, id) == {i \in DOMAIN buf : buf[i].id = id}
First(hits) == CHOOSE i \in hits : \A j \in hits : i <= j

\* Faulty variant of Oldest: the comparison turned round.
Youngest(buf) ==
    CHOOSE i \in DOMAIN buf : \A j \in DOMAIN buf : buf[i].last_updated >= buf[j].last_updated

\* The scan from 0 with "<": the first of the smallest stamps.
Oldest(buf) ==
    CHOOSE i \in DOMAIN buf :
        \A j \in DOMAIN buf : \/ buf[i].last_updated < buf[j].last_updated
                              \/ buf[i].last_updated = buf[j].last_updated /\ i <= j

\* Update in place, else append, else write over the oldest.  Searched for is
\* the whole id, whatever e has room for.
TableWrite(buf, max, id, e) ==
    IF find_in(buf, id) # {} THEN [buf EXCEPT ![First(find_in(buf, id))] = e]
    ELSE IF Len(buf) < max THEN Append(buf, e)
    ELSE [buf EXCEPT ![Oldest(buf)] = e]

\* An entry stamped after "now" (the count came round) has age 0.
Age(e, now_s) == IF now_s >= e.last_updated THEN now_s - e.last_updated ELSE 0

\* The loop of the two prunes: what is kept moves up, w is what has been
\* written when r entries have been read.
Compacted(buf, kept) ==
    LET w[r \in 0 .. Len(buf)] ==
            IF r = 0 THEN << >>
            ELSE IF r \in kept THEN Append(w[r - 1], buf[r]) ELSE w[r - 1]
    IN w[Len(buf)]

\* entity_pub_prune and entity_own_prune.
Prune(buf, ttl_s, now_s) ==
    IF ttl_s = 0 THEN buf
    ELSE Compacted(buf, {r \in DOMAIN buf : Age(buf[r], now_s) <= ttl_s})

-----------------------------------------------------------------------------
(* Rings.  An entry that is written again keeps its place. *)

Ring(max) == [slot : [0 .. max - 1 -> Entry \cup {<< >>}],
              head : 0 .. max - 1, count : 0 .. max]
EmptyRing(max) == [slot |-> [i \in 0 .. max - 1 |-> << >>], head |-> 0, count |-> 0]

\* Where the i-th oldest entry is.
ring_index(head, count, i, max) == (((head + max * 2) - count) + i) % max

\* The entries from the oldest on.
RingSeq(r, max) ==
    [i \in 1 .. r.count |-> r.slot[ring_index(r.head, r.count, i - 1, max)]]

\* Faulty variant of RingWrite: every write takes a new place.
RingWriteAnew(r, max, id, e) ==
    [slot  |-> [r.slot EXCEPT ![r.head] = e],
     head  |-> (r.head + 1) % max,
     count |-> IF r.count < max THEN r.count + 1 ELSE max]

RingWrite(r, max, id, e) ==
    LET hits == find_in(RingSeq(r, max), id)
    IN IF hits # {}
       THEN [r EXCEPT !.slot[ring_index(r.head, r.count, First(hits) - 1, max)] = e]
       ELSE [slot  |-> [r.slot EXCEPT ![r.head] = e],
             head  |-> (r.head + 1) % max,
             count |-> IF r.count < max THEN r.count + 1 ELSE max]

-----------------------------------------------------------------------------
(* The store. *)

entity_store_init ==
    [pub |-> << >>, mon |-> << >>, own |-> << >>,
     tmp |-> EmptyRing(ENTITY_TMP_MAX), pool |-> EmptyRing(ENTITY_POOL_MAX)]

entity_tmp_clear(st) == [st EXCEPT !.tmp = EmptyRing(ENTITY_TMP_MAX)]
entity_own_prune(st, now_s) == [st EXCEPT !.own = Prune(@, OWN_TTL_S, now_s)]
entity_pub_prune(st, now_s) == [st EXCEPT !.pub = Prune(@, PUB_TTL_S, now_s)]

entity_is_native(native, k) == \E i \in DOMAIN native : native[i] = k

\* The list keeps what came first; a full list drops the rest.
entity_load_native(native, k) ==
    IF Len(native) >= NATIVE_MAX \/ entity_is_native(native, k) THEN native
    ELSE Append(native, k)

\* A pub.* id that is not native is refused once the list is known.
Blocked(native, id) ==
    id.pfx = "pub" /\ native # << >> /\ ~entity_is_native(native, id.key)

entity_push(st, native, id, val, now_s) ==
    LET e == fill_entry(id, val, now_s)
    IN CASE Blocked(native, id) -> st
         [] id.pfx = "pub" /\ ~Blocked(native, id) ->
                [st EXCEPT !.pub = TableWrite(@, ENTITY_PUB_MAX, id, e)]
         [] id.pfx = "mon" -> [st EXCEPT !.mon = TableWrite(@, ENTITY_MON_MAX, id, e)]
         [] id.pfx = "own" -> [st EXCEPT !.own = TableWrite(@, ENTITY_OWN_MAX, id, e)]
         [] id.pfx = "tmp" -> [st EXCEPT !.tmp = RingWrite(@, ENTITY_TMP_MAX, id, e)]
         [] OTHER          -> [st EXCEPT !.pool = RingWrite(@, ENTITY_POOL_MAX, id, e)]

\* What entity_get and entity_count walk over, in order.
entity_get(st) == st.pub \o st.own \o RingSeq(st.pool, ENTITY_POOL_MAX)

\* The order find_entry searches in, the tables before the rings.
Searched(st) ==
    st.pub \o st.mon \o st.own \o RingSeq(st.tmp, ENTITY_TMP_MAX)
        \o RingSeq(st.pool, ENTITY_POOL_MAX)

FirstOf(s, id) ==
    LET hits == find_in(s, id)
    IN IF hits = {} THEN {} ELSE {s[First(hits)]}

\* The entity as scripts and templates read it: {} or the entry, with the
\* old name pub.x still leading to mon.x.
find_entry(st, id) ==
    LET direct == FirstOf(Searched(st), id)
    IN IF direct = {} /\ id.pfx = "pub" THEN FirstOf(st.mon, IdCut[Id("mon", id.key)])
       ELSE direct

\* A name from outside gets its prefix: pub. for a native, else own.  The
\* callers' buffer has the size of an entry's.
entity_classify(native, id) ==
    IdCut[IF id.pfx # "bare" THEN id
          ELSE Id(IF entity_is_native(native, id.key) THEN "pub" ELSE "own", id.key)]

-----------------------------------------------------------------------------
(* What the buffers look like. *)

StoreShape(st) ==
    /\ st.pub \in Seq(Entry) /\ Len(st.pub) <= ENTITY_PUB_MAX
    /\ st.mon \in Seq(Entry) /\ Len(st.mon) <= ENTITY_MON_MAX
    /\ st.own \in Seq(Entry) /\ Len(st.own) <= ENTITY_OWN_MAX
    /\ st.tmp \in Ring(ENTITY_TMP_MAX)
    /\ st.pool \in Ring(ENTITY_POOL_MAX)

\* Ids as long as an entry has room for, that a longer one can be cut down to
\* in the pool; what goes to the other buffers is short or cut beforehand.
Doubtful ==
    {id \in Ids : id.pfx \notin Reserved /\ \E long \in Ids \ {id} : IdCut[long] = id}

OnceIn(s) == \A i, j \in DOMAIN s : s[i].id = s[j].id => i = j
OnceBut(several, s) ==
    \A i, j \in DOMAIN s : s[i].id = s[j].id => i = j \/ s[i].id \in several
=============================================================================
