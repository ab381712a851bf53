-------------------------- MODULE NodeLivesProofs --------------------------
(***************************************************************************)
(* What NodeLives says of a device's two lives, proved for all versions,   *)
(* networks, commands, timers and bounds: wherever the power fails, the    *)
(* next start finds a whole image and one that has worked; an identity is  *)
(* lost by a factory reset only; a command is carried out as it came.      *)
(*                                                                         *)
(* The proofs go by what the loop has still to do (todo): which writes may *)
(* be left in which mode, and in which order.                              *)
(***************************************************************************)
EXTENDS NodeLives, TLAPS

(***************************************************************************)
(* The inductive invariant.                                                *)
(***************************************************************************)
FlashOps == {"erase", "commit", "rollback"}
BleOps == {"authok", "pending", "free", "tail"}

MarksDeleted(w) == w.op = "put" /\ w.key = "deleted" /\ w.val
ClearsIdentity(w) == w.op = "clear" /\ w.key = "sensmos"

\* What may be left to do: a BLE command's steps in BLE mode; the flash is
\* written by the image it was started from, and a new one only by an image that
\* has had a session; the identity goes when somebody asked for that.
Allowed(w) ==
    /\ w.op \in BleOps => mode = "ble"
    /\ w.op \in FlashOps => mode = "node" /\ bootSlot = slot
    /\ w.op \in {"erase", "commit"} => Running \in proven
    /\ ClearsIdentity(w) => asked

WorkAllowed == (mode = "off" => Idle) /\ \A w \in ToSet(todo) : Allowed(w)

\* In which order: once the slot to boot from has changed the flash is not
\* touched again, and the restart follows; it follows at once on the mark of a
\* deleted node.
EndsInRestart(q) == q # << >> /\ q[Len(q)].op = "restart"
Ordered(q) ==
    /\ q \in Seq(Works)
    /\ \A i \in 1 .. Len(q) :
          /\ q[i].op \in {"commit", "rollback"} =>
                /\ i < Len(q) /\ EndsInRestart(q)
                /\ \A k \in i + 1 .. Len(q) : q[k].op \notin FlashOps
          /\ MarksDeleted(q[i]) => i + 1 = Len(q) /\ EndsInRestart(q)
          /\ q[i].op = "connect" => i = Len(q)

\* The image that runs is the one to boot from, or the restart is coming.
SlotKnown ==
    /\ mode \in {"setup", "ble"} => bootSlot = slot
    /\ mode = "node" /\ bootSlot # slot => EndsInRestart(todo)

SessionProves == ws => mode = "node" /\ Running \in proven

RestartFirst == todo # << >> /\ todo[1].op = "restart"
DeletedRestarts == mode = "node" /\ nv.deleted => RestartFirst

StoreTyped ==
    /\ nv \in Nvs
    /\ flash \in [1..2 -> Versions \cup {Torn}] /\ bootSlot \in 1..2 /\ slot \in 1..2
    /\ mode \in {"off", "setup", "node", "ble"}
    /\ proven \subseteq Versions /\ asked \in BOOLEAN

Work == WorkAllowed /\ Ordered(todo) /\ DeletedRestarts
Slots == SlotKnown /\ SessionProves /\ AProvenImage

\* The mailbox is closed from the end of a write to the end of the command.
MailKept ==
    /\ writing \in Commands \cup {None} /\ buf \in Commands \cup {None, Torn}
    /\ inHand \in Commands \cup {None}
    /\ full => writing = None /\ buf \in Commands
    /\ inHand # None => full /\ buf = inHand

TimesTyped ==
    /\ up \in 0..MaxMinutes + 1 /\ lost \in Nat /\ down \in Nat
    /\ rounds \in 0..TRUST_MAX_ROUNDS /\ upsets \in 0..MaxUpsets

WorldTyped ==
    router \in BOOLEAN /\ backend \in BOOLEAN /\ radio \in BOOLEAN /\ cut \in BOOLEAN
LinkTyped == wifi \in BOOLEAN /\ fallback \in BOOLEAN /\ ws \in BOOLEAN
GuardTyped == wdg \in [active: BOOLEAN, confirmed: BOOLEAN] /\ armed \in BOOLEAN
BleTyped ==
    /\ app \in BOOLEAN /\ adv \in BOOLEAN /\ auth \in BOOLEAN /\ full \in BOOLEAN
    /\ wifiPending \in BOOLEAN

FlagsTyped == WorldTyped /\ LinkTyped /\ GuardTyped /\ BleTyped

LivesInv == StoreTyped /\ Work /\ Slots /\ MailKept /\ TimesTyped /\ FlagsTyped

------------------------------------------------------------------------------
(* Sequences of work.                                                      *)

\* Work that stands anywhere.
Plain(w) == w.op \notin {"commit", "rollback", "connect"} /\ ~MarksDeleted(w)

\* Work that is allowed in every state.
Harmless(w) == Plain(w) /\ w.op \notin BleOps \cup FlashOps /\ ~ClearsIdentity(w)

LEMMA Elements ==
  ASSUME NEW S, NEW a \in S, NEW b \in S, NEW c \in S, NEW d \in S
  PROVE  /\ << >> \in Seq(S) /\ ToSet(<< >>) = {}
         /\ <<a>> \in Seq(S) /\ ToSet(<<a>>) = {a}
         /\ <<a, b>> \in Seq(S) /\ ToSet(<<a, b>>) = {a, b}
         /\ <<a, b, c>> \in Seq(S) /\ ToSet(<<a, b, c>>) = {a, b, c}
         /\ <<a, b, c, d>> \in Seq(S) /\ ToSet(<<a, b, c, d>>) = {a, b, c, d}
BY DEF ToSet

LEMMA Concatenated ==
  ASSUME NEW S, NEW p \in Seq(S), NEW q \in Seq(S)
  PROVE  p \o q \in Seq(S) /\ ToSet(p \o q) = ToSet(p) \cup ToSet(q)
<1>1. /\ p \o q \in Seq(S) /\ Len(p \o q) = Len(p) + Len(q)
      /\ \A i \in 1 .. Len(p) : (p \o q)[i] = p[i]
      /\ \A i \in 1 .. Len(q) : (p \o q)[Len(p) + i] = q[i]
  OBVIOUS
<1>2. Len(p) \in Nat /\ Len(q) \in Nat
  OBVIOUS
<1>3. ASSUME NEW i \in 1 .. Len(p) + Len(q)
      PROVE  i \in 1 .. Len(p) \/ \E k \in 1 .. Len(q) : i = Len(p) + k
  <2>1. CASE i <= Len(p)
    BY <2>1, <1>2
  <2>2. CASE i > Len(p)
    <3>1. i - Len(p) \in 1 .. Len(q) /\ i = Len(p) + (i - Len(p))
      BY <2>2, <1>2, <1>3
    <3> QED
      BY <3>1
  <2> QED
    BY <2>1, <2>2, <1>2, <1>3
<1>4. ToSet(p \o q) \subseteq ToSet(p) \cup ToSet(q)
  <2> SUFFICES ASSUME NEW i \in 1 .. Len(p) + Len(q)
               PROVE  (p \o q)[i] \in ToSet(p) \cup ToSet(q)
    BY <1>1 DEF ToSet
  <2> QED
    BY <1>1, <1>3 DEF ToSet
<1>5. ToSet(p) \cup ToSet(q) \subseteq ToSet(p \o q)
  <2>1. \A i \in 1 .. Len(p) : i \in 1 .. Len(p \o q)
    BY <1>1, <1>2
  <2>2. \A i \in 1 .. Len(q) : Len(p) + i \in 1 .. Len(p \o q)
    BY <1>1, <1>2
  <2> QED
    <3>1. ASSUME NEW i \in 1 .. Len(p) PROVE p[i] \in ToSet(p \o q)
      <4>1. (p \o q)[i] = p[i] /\ i \in 1 .. Len(p \o q)
        BY <1>1, <2>1
      <4> QED
        BY <4>1 DEF ToSet
    <3>2. ASSUME NEW i \in 1 .. Len(q) PROVE q[i] \in ToSet(p \o q)
      <4>1. (p \o q)[Len(p) + i] = q[i] /\ Len(p) + i \in 1 .. Len(p \o q)
        BY <1>1, <2>2
      <4> QED
        BY <4>1 DEF ToSet
    <3>3. ASSUME NEW x \in ToSet(p) PROVE x \in ToSet(p \o q)
      <4>1. PICK i \in 1 .. Len(p) : x = p[i]
        BY DEF ToSet
      <4> QED
        BY <3>1, <4>1
    <3>4. ASSUME NEW x \in ToSet(q) PROVE x \in ToSet(p \o q)
      <4>1. PICK i \in 1 .. Len(q) : x = q[i]
        BY DEF ToSet
      <4> QED
        BY <3>2, <4>1
    <3> QED
      BY <3>3, <3>4
<1> QED
  BY <1>1, <1>4, <1>5

LEMMA PlainOrdered ==
  ASSUME NEW q \in Seq(Works), \A w \in ToSet(q) : Plain(w)
  PROVE  Ordered(q)
<1>1. \A i \in 1 .. Len(q) : Plain(q[i])
  BY DEF ToSet
<1> QED
  BY <1>1 DEF Ordered, Plain

\* What is left when the first piece of work is done.
LEMMA Rest ==
  ASSUME NEW q, Ordered(q), q # << >>
  PROVE  /\ Head(q) = q[1] /\ Head(q) \in Works /\ Head(q) \in ToSet(q)
         /\ Ordered(Tail(q)) /\ ToSet(Tail(q)) \subseteq ToSet(q)
         /\ EndsInRestart(q) /\ q[1].op # "restart" => EndsInRestart(Tail(q))
         /\ q[1].op = "connect" => Tail(q) = << >>
         /\ q[1].op \in {"commit", "rollback"} =>
               EndsInRestart(Tail(q)) /\ \A w \in ToSet(Tail(q)) : w.op \notin FlashOps
         /\ MarksDeleted(q[1]) => Tail(q) # << >> /\ Tail(q)[1].op = "restart"
<1> DEFINE t == Tail(q)
<1>1. q \in Seq(Works) /\ Len(q) \in Nat /\ Len(q) > 0
  BY DEF Ordered
<1>2. /\ t \in Seq(Works) /\ Len(t) = Len(q) - 1 /\ Len(t) \in Nat
      /\ \A i \in 1 .. Len(t) : t[i] = q[i + 1] /\ i + 1 \in 1 .. Len(q)
      /\ Head(q) = q[1] /\ 1 \in 1 .. Len(q)
  BY <1>1
<1> HIDE DEF t
<1>o. /\ \A i \in 1 .. Len(q) : q[i].op \in {"commit", "rollback"} =>
            /\ i < Len(q) /\ EndsInRestart(q)
            /\ \A k \in i + 1 .. Len(q) : q[k].op \notin FlashOps
      /\ \A i \in 1 .. Len(q) : MarksDeleted(q[i]) => i + 1 = Len(q) /\ EndsInRestart(q)
      /\ \A i \in 1 .. Len(q) : q[i].op = "connect" => i = Len(q)
  BY DEF Ordered
<1>e. \A r : r \in Seq(Works) /\ Len(r) > 0 => r # << >>
  OBVIOUS
<1>3. Head(q) = q[1] /\ Head(q) \in Works /\ Head(q) \in ToSet(q)
  BY <1>1, <1>2 DEF ToSet
<1>4. ToSet(t) \subseteq ToSet(q)
  BY <1>1, <1>2 DEF ToSet
<1>5. EndsInRestart(q) /\ q[1].op # "restart" => EndsInRestart(t)
  <2> SUFFICES ASSUME EndsInRestart(q), q[1].op # "restart" PROVE EndsInRestart(t)
    OBVIOUS
  <2>1. Len(q) > 1
    BY <1>1 DEF EndsInRestart
  <2>2. Len(t) \in 1 .. Len(t) /\ Len(t) + 1 = Len(q) /\ t # << >>
    BY <2>1, <1>1, <1>2
  <2>3. t[Len(t)] = q[Len(q)]
    BY <2>2, <1>2
  <2> QED
    BY <2>2, <2>3 DEF EndsInRestart
<1>6. ASSUME EndsInRestart(q), Len(t) > 0 PROVE EndsInRestart(t)
  <2>1. Len(t) \in 1 .. Len(t) /\ Len(t) + 1 = Len(q) /\ t # << >>
    BY <1>6, <1>1, <1>2, <1>e
  <2> QED
    BY <2>1, <1>2, <1>6 DEF EndsInRestart
<1>7. Ordered(t)
  <2> SUFFICES ASSUME NEW i \in 1 .. Len(t)
               PROVE  /\ t[i].op \in {"commit", "rollback"} =>
                            /\ i < Len(t) /\ EndsInRestart(t)
                            /\ \A k \in i + 1 .. Len(t) : t[k].op \notin FlashOps
                      /\ MarksDeleted(t[i]) => i + 1 = Len(t) /\ EndsInRestart(t)
                      /\ t[i].op = "connect" => i = Len(t)
    BY <1>2 DEF Ordered
  <2>1. t[i] = q[i + 1] /\ i + 1 \in 1 .. Len(q) /\ Len(t) > 0 /\ i \in Nat
    BY <1>2
  <2>2. ASSUME t[i].op \in {"commit", "rollback"}
        PROVE  /\ i < Len(t) /\ EndsInRestart(t)
               /\ \A k \in i + 1 .. Len(t) : t[k].op \notin FlashOps
    <3>1. /\ i + 1 < Len(q) /\ EndsInRestart(q)
          /\ \A k \in i + 2 .. Len(q) : q[k].op \notin FlashOps
      BY <2>1, <2>2 DEF Ordered
    <3>2. \A k \in i + 1 .. Len(t) : t[k] = q[k + 1] /\ k + 1 \in i + 2 .. Len(q)
      BY <2>1, <1>2
    <3> QED
      BY <3>1, <3>2, <2>1, <1>2, <1>6
  <2>3. ASSUME MarksDeleted(t[i]) PROVE i + 1 = Len(t) /\ EndsInRestart(t)
    <3>1. i + 2 = Len(q) /\ EndsInRestart(q)
      BY <2>1, <2>3 DEF Ordered
    <3> QED
      BY <3>1, <2>1, <1>2, <1>6
  <2>4. ASSUME t[i].op = "connect" PROVE i = Len(t)
    BY <2>1, <2>4, <1>2, <1>o
  <2> QED
    BY <2>2, <2>3, <2>4
<1>8. q[1].op = "connect" => t = << >>
  <2>1. q[1].op = "connect" => Len(t) = 0
    BY <1>1, <1>2, <1>o
  <2>2. Len(t) = 0 => t = << >>
    BY <1>2
  <2> QED
    BY <2>1, <2>2
<1>9. ASSUME q[1].op \in {"commit", "rollback"}
      PROVE  EndsInRestart(t) /\ \A w \in ToSet(t) : w.op \notin FlashOps
  <2>1. 1 < Len(q) /\ EndsInRestart(q) /\ \A k \in 2 .. Len(q) : q[k].op \notin FlashOps
    BY <1>1, <1>2, <1>9, <1>o
  <2>2. \A i \in 1 .. Len(t) : t[i].op \notin FlashOps
    BY <2>1, <1>2
  <2> QED
    BY <2>1, <2>2, <1>2, <1>6 DEF ToSet
<1>10. ASSUME MarksDeleted(q[1]) PROVE t # << >> /\ t[1].op = "restart"
  <2>1. 2 = Len(q) /\ EndsInRestart(q)
    BY <1>2, <1>10, <1>o
  <2>2. q[2].op = "restart"
    BY <2>1 DEF EndsInRestart
  <2>3. Len(t) = 1 /\ t[1] = q[2]
    BY <2>1, <1>2
  <2> QED
    BY <2>2, <2>3, <1>2, <1>e
<1> QED
  BY <1>3, <1>4, <1>5, <1>7, <1>8, <1>9, <1>10 DEF t

LEMMA WorksAre ==
  /\ Put("key", "k") \in Works /\ Harmless(Put("key", "k"))
  /\ Put("pub", "k") \in Works /\ Harmless(Put("pub", "k"))
  /\ Put("force", TRUE) \in Works /\ Harmless(Put("force", TRUE))
  /\ \A b \in BOOLEAN : Put("owner", b) \in Works /\ Harmless(Put("owner", b))
  /\ \A b \in BOOLEAN : Put("confirmed", b) \in Works /\ Harmless(Put("confirmed", b))
  /\ Put("deleted", FALSE) \in Works /\ Harmless(Put("deleted", FALSE))
  /\ \A s \in Ssids \cup {"home"} : Put("ssid", s) \in Works /\ Harmless(Put("ssid", s))
  /\ \A v \in Versions \cup {None} : Put("pending", v) \in Works /\ Harmless(Put("pending", v))
  /\ Put("pin", "pin") \in Works /\ Harmless(Put("pin", "pin"))
  /\ Put("idOvr", "id") \in Works /\ Harmless(Put("idOvr", "id"))
  /\ Put("wallet", "blob") \in Works /\ Harmless(Put("wallet", "blob"))
  /\ Clear("sensmos_wifi") \in Works /\ Harmless(Clear("sensmos_wifi"))
  /\ Restart \in Works /\ Harmless(Restart)
BY DEF Works, Puts, Clears, Namespace, Put, Clear, Do, Restart, Harmless, Plain,
       MarksDeleted, ClearsIdentity, BleOps, FlashOps

LEMMA StepsAre ==
  /\ Clear("sensmos") \in Works /\ Plain(Clear("sensmos"))
  /\ \A x \in BleOps : Do(x) \in Works /\ Plain(Do(x))
  /\ Do("connect") \in Works /\ Do("rollback") \in Works /\ Put("deleted", TRUE) \in Works
  /\ Image("erase", Torn) \in Works /\ Plain(Image("erase", Torn))
  /\ \A v \in Versions : Image("commit", v) \in Works
BY DEF Works, Puts, Clears, Images, Namespace, Put, Clear, Do, Image, Plain,
       MarksDeleted, BleOps

------------------------------------------------------------------------------
(* Steps.                                                                  *)

\* Writes to NVS keep its types; each loses only what it is for.
LEMMA WriteKeeps ==
  ASSUME nv \in Nvs, NEW w \in Works, w.op \in {"put", "clear"}
  PROVE  /\ Written(w) \in Nvs
         /\ Written(w).deleted => nv.deleted \/ MarksDeleted(w)
         /\ nv.key # None /\ Written(w).key = None => ClearsIdentity(w)
         /\ nv.wallet # None => Written(w).wallet # None
<1>1. CASE w.op = "put"
  <2>1. Written(w) = [nv EXCEPT ![w.key] = w.val] /\ w \in Puts
    BY <1>1 DEF Written, Works, Puts, Clears, Images, Put, Clear, Do, Image
  <2>2. CASE w.key \in {"key", "pub"} /\ w.val = "k"
    BY <2>1, <2>2 DEF Nvs, Saved, None
  <2>3. CASE w.key \in {"owner", "confirmed", "force"} /\ w.val \in BOOLEAN
    BY <2>1, <2>3 DEF Nvs, Saved, None
  <2>4. CASE w.key = "deleted" /\ w.val \in BOOLEAN
    BY <2>1, <2>4, <1>1 DEF Nvs, Saved, None, MarksDeleted
  <2>5. CASE w.key = "ssid" /\ w.val \in Ssids \cup {"home"}
    BY <2>1, <2>5 DEF Nvs, Saved, None
  <2>6. CASE w.key = "pending" /\ w.val \in Versions \cup {None}
    BY <2>1, <2>6 DEF Nvs, Saved, None
  <2>7. CASE w \in {Put("pin", "pin"), Put("idOvr", "id"), Put("wallet", "blob")}
    BY <2>1, <2>7 DEF Nvs, Saved, None, Put
  <2> QED
    BY <2>1, <2>2, <2>3, <2>4, <2>5, <2>6, <2>7 DEF Puts
<1>2. CASE w.op = "clear"
  <2>1. Written(w) = [f \in DOMAIN nv |-> IF f \in Namespace[w.key] THEN Blank[f] ELSE nv[f]]
    BY <1>2 DEF Written
  <2>2. w.key \in {"sensmos", "sensmos_wifi"}
    BY <1>2 DEF Works, Puts, Clears, Images, Put, Clear, Do, Image, Namespace
  <2>3. CASE w.key = "sensmos"
    <3>1. /\ DOMAIN nv = {"key", "pub", "owner", "confirmed", "deleted", "force", "pin",
                         "idOvr", "ssid", "pending", "wallet"}
          /\ Namespace[w.key] = {"key", "pub", "owner", "confirmed", "deleted", "force", "pin",
                                 "idOvr"}
      BY <2>3 DEF Nvs, Namespace
    <3>2. Written(w) = [key |-> None, pub |-> None, owner |-> FALSE, confirmed |-> FALSE,
                        deleted |-> FALSE, force |-> FALSE, pin |-> None, idOvr |-> None,
                        ssid |-> nv.ssid, pending |-> nv.pending, wallet |-> nv.wallet]
      BY <2>1, <3>1 DEF Blank
    <3>3. Written(w) \in Nvs
      <4>1. nv.ssid \in Ssids \cup {"home", None} /\ nv.pending \in Versions \cup {None}
            /\ nv.wallet \in Saved
        BY DEF Nvs
      <4>2. None \in Saved /\ FALSE \in BOOLEAN
        BY DEF Saved
      <4> QED
        BY <3>2, <4>1, <4>2, SMTT(20) DEF Nvs
    <3>4. ~Written(w).deleted /\ Written(w).wallet = nv.wallet
      BY <3>2
    <3> QED
      <4>1. ClearsIdentity(w)
        BY <2>3, <1>2 DEF ClearsIdentity
      <4> QED
        BY <3>3, <3>4, <4>1
  <2>4. CASE w.key = "sensmos_wifi"
    BY <2>1, <2>4, <1>2 DEF Nvs, Saved, None, Namespace, Blank
  <2> QED
    BY <2>2, <2>3, <2>4
<1> QED
  BY <1>1, <1>2

Core == StoreTyped /\ Work /\ Slots

\* Images, modes and marks stay.
Same == UNCHANGED <<nv, flash, bootSlot, slot, mode>>

\* A session may end, or begin and prove its version.
ProofKept ==
    /\ proven \subseteq proven' /\ proven' \subseteq Versions
    /\ ws' => ws \/ (mode = "node" /\ Running \in proven')

AskedKept == asked' \in BOOLEAN /\ (asked /\ mode # "off" => asked')

\* A handler that begins its work.
LEMMA Begun ==
  ASSUME Core, Idle, mode # "off", Same, ProofKept, AskedKept,
         Ordered(todo'), \A w \in ToSet(todo') : Allowed(w)'
  PROVE  Core'
<1>1. StoreTyped'
  BY DEF Core, StoreTyped, Same, ProofKept, AskedKept
<1>2. Work'
  <2>1. ~(mode = "node" /\ nv.deleted)
    BY DEF Core, Work, DeletedRestarts, RestartFirst, Idle
  <2>2. WorkAllowed'
    BY DEF WorkAllowed, Same
  <2> QED
    BY <2>1, <2>2 DEF Work, DeletedRestarts, Same
<1>3. Slots'
  <2>1. SlotKnown'
    BY DEF Core, Slots, SlotKnown, Same, Idle, EndsInRestart
  <2>2. SessionProves'
    BY DEF Core, Slots, SessionProves, Same, ProofKept, Running
  <2>3. AProvenImage'
    BY DEF Core, Slots, AProvenImage, Same, ProofKept
  <2> QED
    BY <2>1, <2>2, <2>3 DEF Slots
<1> QED
  BY <1>1, <1>2, <1>3 DEF Core

\* A step that leaves the work as it is.
LEMMA Quiet ==
  ASSUME Core, Same, UNCHANGED todo, ProofKept, AskedKept
  PROVE  Core'
<1>1. StoreTyped'
  BY DEF Core, StoreTyped, Same, ProofKept, AskedKept
<1>2. Work'
  <2>1. WorkAllowed'
    <3>1. CASE mode = "off"
      <4>1. ToSet(todo') = {} /\ todo' = << >>
        BY <3>1 DEF Core, Work, WorkAllowed, Idle, ToSet
      <4> QED
        BY <4>1 DEF WorkAllowed, Idle
    <3>2. CASE mode # "off"
      BY <3>2 DEF Core, Work, WorkAllowed, Allowed, Same, ProofKept, AskedKept, Running
    <3> QED
      BY <3>1, <3>2
  <2> QED
    BY <2>1 DEF Core, Work, DeletedRestarts, RestartFirst, Same
<1>3. Slots'
  <2>1. SlotKnown'
    BY DEF Core, Slots, SlotKnown, Same, EndsInRestart
  <2>2. SessionProves'
    BY DEF Core, Slots, SessionProves, Same, ProofKept, Running
  <2>3. AProvenImage'
    BY DEF Core, Slots, AProvenImage, Same, ProofKept
  <2> QED
    BY <2>1, <2>2, <2>3 DEF Slots
<1> QED
  BY <1>1, <1>2, <1>3 DEF Core

\* Restarts and power failures.
LEMMA WentDown ==
  ASSUME Core, Down, UNCHANGED <<nv, flash, bootSlot, slot, proven>>, asked' \in BOOLEAN
  PROVE  Core'
<1>1. mode' = "off" /\ todo' = << >> /\ ws' = FALSE
  BY DEF Down
<1>2. StoreTyped'
  BY <1>1 DEF Core, StoreTyped
<1>3. << >> \in Seq(Works) /\ ToSet(<< >>) = {}
  BY DEF ToSet
<1>4. Work'
  BY <1>1, <1>3, PlainOrdered DEF Work, WorkAllowed, DeletedRestarts, Idle
<1>5. Slots'
  BY <1>1 DEF Core, Slots, SlotKnown, SessionProves, AProvenImage
<1> QED
  BY <1>2, <1>4, <1>5 DEF Core

LEMMA HarmlessWork ==
  ASSUME NEW q \in Seq(Works), \A w \in ToSet(q) : Harmless(w)
  PROVE  Ordered(q) /\ \A w \in ToSet(q) : Allowed(w)'
<1>1. \A w \in ToSet(q) : Plain(w)
  BY DEF Harmless
<1>2. \A w \in ToSet(q) : Allowed(w)'
  BY DEF Harmless, Allowed, BleOps, FlashOps
<1> QED
  BY <1>1, <1>2, PlainOrdered

\* The next piece of work is done and nothing it leads to has changed.
LEMMA NextDone ==
  ASSUME Core, ~Idle, todo[1].op # "restart", todo' = Tail(todo),
         UNCHANGED <<mode, flash, bootSlot, slot, proven, ws>>, AskedKept
  PROVE  WorkAllowed' /\ Ordered(todo)' /\ Slots'
<1>1. todo # << >> /\ Ordered(todo)
  BY DEF Core, Work, Idle
<1>2. Ordered(todo')
  BY <1>1, Rest
<1>3. WorkAllowed'
  <2>1. ToSet(todo') \subseteq ToSet(todo)
    BY <1>1, Rest
  <2> QED
    BY <2>1 DEF Core, Work, WorkAllowed, Allowed, AskedKept, Running
<1>4. Slots'
  <2>1. EndsInRestart(todo) => EndsInRestart(todo')
    BY <1>1, Rest
  <2>2. SlotKnown'
    BY <2>1 DEF Core, Slots, SlotKnown
  <2> QED
    BY <2>2 DEF Core, Slots, SessionProves, AProvenImage, Running
<1> QED
  BY <1>2, <1>3, <1>4

LEMMA WriteStep ==
  ASSUME Core, WriteNext, AskedKept
  PROVE  Core'
<1>1. todo # << >> /\ Ordered(todo) /\ todo[1] = Head(todo)
  BY Rest DEF Core, Work, WriteNext, Idle
<1>2. /\ Head(todo) \in Works /\ Head(todo).op \in {"put", "clear"} /\ nv' = Written(Head(todo))
      /\ todo' = Tail(todo) /\ UNCHANGED <<mode, flash, bootSlot, slot, proven, ws>>
  BY <1>1, Rest DEF WriteNext, linkVars
<1>3. WorkAllowed' /\ Ordered(todo)' /\ Slots'
  BY <1>1, <1>2, NextDone DEF Idle
<1>4. nv \in Nvs
  BY DEF Core, StoreTyped
<1>5. nv' \in Nvs /\ (nv'.deleted => nv.deleted \/ MarksDeleted(Head(todo)))
  BY <1>2, <1>4, WriteKeeps
<1>6. StoreTyped'
  BY <1>2, <1>5 DEF Core, StoreTyped, AskedKept
<1>7. DeletedRestarts'
  <2>1. MarksDeleted(Head(todo)) => RestartFirst'
    BY <1>1, <1>2, Rest DEF RestartFirst
  <2>2. ~(mode = "node" /\ nv.deleted)
    BY <1>1, <1>2 DEF Core, Work, DeletedRestarts, RestartFirst
  <2> QED
    BY <2>1, <2>2, <1>2, <1>5 DEF DeletedRestarts
<1> QED
  BY <1>3, <1>6, <1>7 DEF Core, Work

LEMMA ImagesAre ==
  \A w \in Works : w.op \in {"erase", "commit"} =>
      (w.op = "erase" /\ w.val = Torn) \/ (w.op = "commit" /\ w.val \in Versions)
<1> SUFFICES ASSUME NEW w \in Works, w.op \in {"erase", "commit"}
             PROVE  (w.op = "erase" /\ w.val = Torn) \/ (w.op = "commit" /\ w.val \in Versions)
  OBVIOUS
<1>1. w \notin Puts
  BY DEF Puts, Put
<1>2. w \notin Clears
  BY DEF Clears, Clear
<1>3. w \in Images
  BY <1>1, <1>2 DEF Works, Do
<1>4. w = Image("erase", Torn) \/ \E v \in Versions : w = Image("commit", v)
  BY <1>3 DEF Images
<1>5. CASE w = Image("erase", Torn)
  BY <1>5 DEF Image
<1>6. CASE \E v \in Versions : w = Image("commit", v)
  BY <1>6 DEF Image
<1> QED
  BY <1>4, <1>5, <1>6

\* The flash is written by an image that has had a session, into the other slot.
LEMMA FlashStep ==
  ASSUME Core, FlashNext, AskedKept
  PROVE  Core'
<1>1. todo # << >> /\ Ordered(todo) /\ todo[1] = Head(todo) /\ Head(todo) \in ToSet(todo)
      /\ Head(todo) \in Works
  BY Rest DEF Core, Work, FlashNext, Idle
<1> DEFINE w == Head(todo)
<1>2. /\ w.op \in {"erase", "commit"} /\ flash' = [flash EXCEPT ![Other] = w.val]
      /\ bootSlot' = IF w.op = "commit" THEN Other ELSE bootSlot
      /\ todo' = Tail(todo) /\ UNCHANGED <<nv, mode, slot, proven, ws>>
  BY DEF FlashNext, linkVars
<1>3. mode = "node" /\ bootSlot = slot /\ Running \in proven
  BY <1>1, <1>2 DEF Core, Work, WorkAllowed, Allowed, FlashOps
<1>4. (w.op = "erase" /\ w.val = Torn) \/ (w.op = "commit" /\ w.val \in Versions)
  BY <1>1, <1>2, ImagesAre
<1>5. flash \in [1..2 -> Versions \cup {Torn}] /\ slot \in 1..2 /\ Other \in 1..2 /\ Other # slot
  BY DEF Core, StoreTyped, Other
<1>6. StoreTyped'
  <2>1. flash' \in [1..2 -> Versions \cup {Torn}] /\ bootSlot' \in 1..2
    BY <1>2, <1>3, <1>4, <1>5
  <2> QED
    BY <2>1, <1>2 DEF Core, StoreTyped, AskedKept
<1>7. Running' = Running
  BY <1>2, <1>5 DEF Running
<1>8. Ordered(todo') /\ ToSet(todo') \subseteq ToSet(todo)
  BY <1>1, <1>2, Rest
<1>9. WorkAllowed'
  <2> SUFFICES ASSUME NEW x \in ToSet(todo') PROVE Allowed(x)'
    BY <1>2, <1>3 DEF WorkAllowed
  <2>1. Allowed(x)
    BY <1>8 DEF Core, Work, WorkAllowed
  <2>2. w.op = "commit" => x.op \notin FlashOps
    BY <1>1, <1>2, Rest
  <2> QED
    BY <2>1, <2>2, <1>2, <1>3, <1>7 DEF Allowed, AskedKept
<1>10. DeletedRestarts'
  BY <1>1, <1>2, <1>3 DEF Core, Work, DeletedRestarts, RestartFirst
<1>11. Slots'
  <2>1. w.op = "commit" => EndsInRestart(todo')
    BY <1>1, <1>2, Rest
  <2>2. SlotKnown'
    BY <2>1, <1>2, <1>3 DEF SlotKnown
  <2>3. SessionProves'
    BY <1>2, <1>3, <1>7 DEF SessionProves
  <2>4. AProvenImage'
    <3>1. flash'[slot] = Running /\ Running \in Versions
      BY <1>2, <1>3, <1>5 DEF Running, Core, StoreTyped
    <3>2. CASE w.op = "erase"
      BY <3>1, <3>2, <1>2, <1>3, <1>5, LifeAssumption DEF AProvenImage
    <3>3. CASE w.op = "commit"
      <4>1. bootSlot' = Other /\ flash'[Other] \in Versions /\ 3 - Other = slot
        BY <3>3, <1>2, <1>4, <1>5 DEF Other
      <4> QED
        BY <4>1, <3>1, <1>2, <1>3, <1>5, LifeAssumption DEF AProvenImage
    <3> QED
      BY <3>2, <3>3, <1>2
  <2> QED
    BY <2>2, <2>3, <2>4 DEF Slots
<1> QED
  BY <1>6, <1>8, <1>9, <1>10, <1>11 DEF Core, Work

LEMMA RollBackStep ==
  ASSUME Core, RollBackNext, AskedKept
  PROVE  Core'
<1>1. todo # << >> /\ Ordered(todo) /\ todo[1] = Head(todo) /\ Head(todo) \in ToSet(todo)
  BY Rest DEF Core, Work, RollBackNext, Idle
<1>2. Head(todo).op = "rollback" /\ UNCHANGED <<nv, flash, mode, slot, proven, ws>>
  BY DEF RollBackNext, linkVars
<1>3. mode = "node" /\ bootSlot = slot
  BY <1>1, <1>2 DEF Core, Work, WorkAllowed, Allowed, FlashOps
<1>4. slot \in 1..2 /\ Other \in 1..2 /\ Other # slot /\ 3 - Other = slot /\ 3 - slot = Other
  BY DEF Core, StoreTyped, Other
<1>5. DeletedRestarts'
  BY <1>1, <1>2, <1>3 DEF Core, Work, DeletedRestarts, RestartFirst
<1>6. CASE flash[Other] # Torn
  <2>1. bootSlot' = Other /\ todo' = Tail(todo)
    BY <1>6 DEF RollBackNext
  <2>2. StoreTyped'
    BY <2>1, <1>2, <1>4 DEF Core, StoreTyped, AskedKept
  <2>3. Ordered(todo') /\ ToSet(todo') \subseteq ToSet(todo) /\ EndsInRestart(todo')
        /\ \A x \in ToSet(todo') : x.op \notin FlashOps
    BY <1>1, <1>2, <2>1, Rest
  <2>4. WorkAllowed'
    BY <2>3, <1>2, <1>3 DEF Core, Work, WorkAllowed, Allowed, AskedKept, FlashOps
  <2>5. SlotKnown' /\ SessionProves'
    BY <2>1, <2>3, <1>2, <1>3 DEF Core, Slots, SlotKnown, SessionProves, Running
  <2>6. AProvenImage'
    BY <2>1, <1>2, <1>3, <1>4, <1>6 DEF Core, Slots, AProvenImage
  <2> QED
    BY <2>2, <2>3, <2>4, <2>5, <2>6, <1>5 DEF Core, Work, Slots
<1>7. CASE flash[Other] = Torn
  <2>1. bootSlot' = bootSlot /\ todo' = << >>
    BY <1>7 DEF RollBackNext
  <2>2. StoreTyped'
    BY <2>1, <1>2 DEF Core, StoreTyped, AskedKept
  <2>3. << >> \in Seq(Works) /\ ToSet(<< >>) = {}
    BY DEF ToSet
  <2>4. WorkAllowed' /\ Ordered(todo')
    BY <2>1, <2>3, <1>2, <1>3, HarmlessWork DEF WorkAllowed
  <2>5. Slots'
    BY <2>1, <1>2, <1>3 DEF Core, Slots, SlotKnown, SessionProves, AProvenImage, Running
  <2> QED
    BY <2>2, <2>4, <2>5, <1>5 DEF Core, Work
<1> QED
  BY <1>6, <1>7

\* The name that worked is saved.
LEMMA Corrected ==
  ASSUME NEW s, NEW fix \in Corrections(s)
  PROVE  fix \in Seq(Works) /\ \A w \in ToSet(fix) : Harmless(w)
<1>1. fix = << >> \/ fix = <<Put("ssid", "home")>>
  BY DEF Corrections
<1>2. Put("ssid", "home") \in Works /\ Harmless(Put("ssid", "home"))
  BY WorksAre
<1>3. <<Put("ssid", "home")>> \in Seq(Works) /\ ToSet(<<Put("ssid", "home")>>) = {Put("ssid", "home")}
      /\ << >> \in Seq(Works) /\ ToSet(<< >>) = {}
  BY <1>2, Elements
<1> QED
  BY <1>1, <1>2, <1>3

LEMMA ConnectStep ==
  ASSUME Core, ConnectNext, AskedKept
  PROVE  Core'
<1>1. todo # << >> /\ Ordered(todo) /\ todo[1] = Head(todo) /\ Tail(todo) = << >>
  BY Rest DEF Core, Work, ConnectNext, Idle
<1>2. /\ Head(todo).op = "connect" /\ UNCHANGED <<nv, flash, bootSlot, mode, slot, proven>>
      /\ ws' = FALSE
  BY DEF ConnectNext
<1>3. PICK fix \in Seq(Works) : todo' = fix \o Tail(todo) /\ \A w \in ToSet(fix) : Harmless(w)
  <2>1. \E fix \in Corrections(nv.ssid) \cup {<< >>} : todo' = fix \o Tail(todo)
    BY DEF ConnectNext
  <2> QED
    BY <2>1, Corrected, Elements DEF Corrections
<1>4. todo' = fix
  BY <1>1, <1>3
<1>5. Ordered(todo') /\ WorkAllowed'
  <2>1. mode' # "off"
    BY <1>1, <1>2 DEF Core, Work, WorkAllowed, Idle
  <2> QED
    BY <2>1, <1>3, <1>4, HarmlessWork DEF WorkAllowed
<1>6. ~EndsInRestart(todo)
  <2>1. todo \in Seq(Works) /\ 1 \in 1 .. Len(todo)
    BY <1>1 DEF Ordered
  <2>2. Len(todo) = 1
    BY <2>1, <1>1, <1>2 DEF Ordered
  <2> QED
    BY <2>2, <1>1, <1>2 DEF EndsInRestart
<1>7. StoreTyped'
  BY <1>2 DEF Core, StoreTyped, AskedKept
<1>8. DeletedRestarts'
  BY <1>1, <1>2 DEF Core, Work, DeletedRestarts, RestartFirst
<1>9. Slots'
  BY <1>2, <1>6 DEF Core, Slots, SlotKnown, SessionProves, AProvenImage
<1> QED
  BY <1>5, <1>7, <1>8, <1>9 DEF Core, Work

\* Short lists of harmless work.
LEMMA HarmlessLists ==
  ASSUME NEW a \in Works, Harmless(a), NEW b \in Works, Harmless(b),
         NEW c \in Works, Harmless(c), NEW d \in Works, Harmless(d)
  PROVE  /\ << >> \in Seq(Works) /\ \A w \in ToSet(<< >>) : Harmless(w)
         /\ <<a>> \in Seq(Works) /\ \A w \in ToSet(<<a>>) : Harmless(w)
         /\ <<a, b>> \in Seq(Works) /\ \A w \in ToSet(<<a, b>>) : Harmless(w)
         /\ <<a, b, c, d>> \in Seq(Works) /\ \A w \in ToSet(<<a, b, c, d>>) : Harmless(w)
<1>1. /\ << >> \in Seq(Works) /\ ToSet(<< >>) = {}
      /\ <<a>> \in Seq(Works) /\ ToSet(<<a>>) = {a}
      /\ <<a, b>> \in Seq(Works) /\ ToSet(<<a, b>>) = {a, b}
      /\ <<a, b, c, d>> \in Seq(Works) /\ ToSet(<<a, b, c, d>>) = {a, b, c, d}
  BY DEF ToSet
<1> QED
  BY <1>1

LEMMA HarmlessBegun ==
  ASSUME Core, Idle, mode # "off", Same, ProofKept, AskedKept,
         todo' \in Seq(Works), \A w \in ToSet(todo') : Harmless(w)
  PROVE  Core'
<1>1. Ordered(todo') /\ \A w \in ToSet(todo') : Allowed(w)'
  BY HarmlessWork
<1> QED
  BY <1>1, Begun

\* A mode that is entered without anything left to do but harmless writes.
LEMMA Entered ==
  ASSUME Core, mode \in {"off", "setup"}, mode' \in {"setup", "ble", "node"},
         nv' \in Nvs, mode' = "node" => ~nv'.deleted,
         todo' \in Seq(Works), \A w \in ToSet(todo') : Harmless(w),
         UNCHANGED <<flash, bootSlot, proven>>, slot' = bootSlot, ws' => ws, AskedKept
  PROVE  Core'
<1>1. Ordered(todo') /\ \A w \in ToSet(todo') : Allowed(w)'
  BY HarmlessWork
<1>2. StoreTyped'
  BY DEF Core, StoreTyped, AskedKept
<1>3. ~ws'
  BY DEF Core, Slots, SessionProves
<1>4. Slots'
  BY <1>3 DEF Core, Slots, SlotKnown, SessionProves, AProvenImage
<1> QED
  BY <1>1, <1>2, <1>4 DEF Core, Work, WorkAllowed, DeletedRestarts

LEMMA BootStep ==
  ASSUME Core, Boot, AskedKept
  PROVE  Core'
<1>1. nv \in Nvs /\ (mode = "setup" => bootSlot = slot)
  BY DEF Core, StoreTyped, Slots, SlotKnown
<1>2. CASE PowerOn
  <2>1. KeyPair \in Seq(Works) /\ \A w \in ToSet(KeyPair) : Harmless(w)
    BY WorksAre, HarmlessLists DEF KeyPair
  <2>2. /\ mode = "off" /\ mode' = "setup" /\ slot' = bootSlot /\ todo' = KeyPair
        /\ UNCHANGED <<nv, flash, bootSlot, ws, proven>>
    BY <1>2 DEF PowerOn, linkVars
  <2> QED
    BY <2>1, <2>2, <1>1, Entered
<1>3. CASE BootDeleted \/ BootForced \/ BootNew
  <2>1. /\ mode = "setup" /\ mode' = "ble" /\ todo' = << >>
        /\ UNCHANGED <<flash, bootSlot, slot, ws, proven>>
    BY <1>3 DEF BootDeleted, BootForced, BootNew, BleStart, Idle, linkVars
  <2>2. nv' \in Nvs
    BY <1>1, <1>3 DEF BootDeleted, BootForced, BootNew, Nvs
  <2>3. << >> \in Seq(Works) /\ \A w \in ToSet(<< >>) : Harmless(w)
    BY DEF ToSet
  <2> QED
    BY <2>1, <2>2, <2>3, <1>1, Entered
<1>4. CASE BootNode
  <2>1. /\ mode = "setup" /\ mode' = "node" /\ ~nv.deleted /\ ws' = FALSE
        /\ UNCHANGED <<nv, flash, bootSlot, slot, proven>>
    BY <1>4 DEF BootNode, BootWithWifi
  <2>2. PICK fix \in Corrections(nv.ssid) :
           todo' = fix \o (IF nv.pending \in {None, Running} THEN << >>
                           ELSE <<Put("pending", None)>>)
    BY <1>4 DEF BootNode, OtaInit
  <2>3. PICK q \in Seq(Works) : todo' = fix \o q /\ \A w \in ToSet(q) : Harmless(w)
    <3>1. /\ << >> \in Seq(Works) /\ \A w \in ToSet(<< >>) : Harmless(w)
          /\ <<Put("pending", None)>> \in Seq(Works)
          /\ \A w \in ToSet(<<Put("pending", None)>>) : Harmless(w)
      BY WorksAre, HarmlessLists
    <3> QED
      BY <3>1, <2>2
  <2>4. fix \in Seq(Works) /\ \A w \in ToSet(fix) : Harmless(w)
    BY Corrected
  <2>5. todo' \in Seq(Works) /\ \A w \in ToSet(todo') : Harmless(w)
    BY <2>3, <2>4, Concatenated
  <2> QED
    BY <2>1, <2>5, <1>1, Entered
<1>5. CASE BootWifiFailed
  <2>1. <<Put("force", TRUE), Restart>> \in Seq(Works)
        /\ \A w \in ToSet(<<Put("force", TRUE), Restart>>) : Harmless(w)
    BY WorksAre, HarmlessLists
  <2>2. /\ mode = "setup" /\ mode' = "setup" /\ todo' = <<Put("force", TRUE), Restart>>
        /\ UNCHANGED <<nv, flash, bootSlot, slot, ws, proven>>
    BY <1>5 DEF BootWifiFailed, BootWithWifi, linkVars
  <2> QED
    BY <2>1, <2>2, <1>1, Entered
<1> QED
  BY <1>2, <1>3, <1>4, <1>5 DEF Boot

\* Two works that are neither plain nor in plain company.
LEMMA SpecialLists ==
  /\ <<Put("deleted", TRUE), Restart>> \in Seq(Works)
  /\ Ordered(<<Put("deleted", TRUE), Restart>>)
  /\ Ordered(<<Put("pending", None), Do("rollback"), Restart>>)
  /\ \A v \in Versions :
        Ordered(<<Image("erase", Torn), Image("commit", v), Put("pending", v), Restart>>)
  /\ Ordered(<<Do("connect")>>)
<1>1. <<Put("deleted", TRUE), Restart>> \in Seq(Works)
      /\ Ordered(<<Put("deleted", TRUE), Restart>>)
  BY WorksAre, StepsAre DEF Ordered, EndsInRestart, MarksDeleted, FlashOps, Put, Do, Image, Restart
<1>2. Ordered(<<Put("pending", None), Do("rollback"), Restart>>)
  BY WorksAre, StepsAre DEF Ordered, EndsInRestart, MarksDeleted, FlashOps, Put, Do, Image, Restart
<1>3. ASSUME NEW v \in Versions
      PROVE  Ordered(<<Image("erase", Torn), Image("commit", v), Put("pending", v), Restart>>)
  BY WorksAre, StepsAre DEF Ordered, EndsInRestart, MarksDeleted, FlashOps, Put, Do, Image, Restart
<1>4. Ordered(<<Do("connect")>>)
  BY WorksAre, StepsAre DEF Ordered, EndsInRestart, MarksDeleted, FlashOps, Put, Do, Image, Restart
<1> QED
  BY <1>1, <1>2, <1>3, <1>4

LEMMA PlainFirst ==
  ASSUME NEW p \in Seq(Works), \A w \in ToSet(p) : Plain(w), NEW x \in Works, x.op = "connect"
  PROVE  Ordered(p \o <<x>>)
<1>1. /\ p \o <<x>> \in Seq(Works) /\ Len(p \o <<x>>) = Len(p) + 1 /\ Len(p) \in Nat
      /\ \A i \in 1 .. Len(p) : (p \o <<x>>)[i] = p[i]
      /\ (p \o <<x>>)[Len(p) + 1] = x
  OBVIOUS
<1> DEFINE q == p \o <<x>>
<1> HIDE DEF q
<1>2. \A i \in 1 .. Len(p) : Plain(p[i])
  BY DEF ToSet
<1>3. \A i \in 1 .. Len(q) : (i = Len(q) /\ q[i] = x) \/ (i \in 1 .. Len(p) /\ q[i] = p[i])
  BY <1>1 DEF q
<1>4. Ordered(q)
  BY <1>1, <1>2, <1>3 DEF Ordered, Plain, MarksDeleted, q
<1> QED
  BY <1>4 DEF q

------------------------------------------------------------------------------
(* Handlers: what they begin.                                              *)

LEMMA AskedStays ==
  ASSUME StoreTyped, Asked, mode # "off" => mode' # "off"
  PROVE  AskedKept
BY DEF StoreTyped, Asked, AskedKept

\* Handlers that begin harmless work.
LEMMA HarmlessHandlers ==
  ASSUME Core, AskedKept,
         \/ WatchdogTick \/ Identified \/ WifiReboot \/ OtaConfirmed
         \/ ButtonBle \/ HttpBleMode \/ HttpReboot \/ SerialUnregister \/ SerialDone
         \/ HttpNodeConfirm \/ WsReboot
  PROVE  Core'
<1>1. Idle /\ mode # "off"
  BY DEF WatchdogTick, Identified, WifiReboot, OtaConfirmed, ButtonBle, HttpBleMode, HttpReboot,
         SerialUnregister, SerialDone, HttpNodeConfirm, WsReboot, InNode, Console
<1>2. Same
  BY DEF WatchdogTick, Identified, WifiReboot, OtaConfirmed, ButtonBle, HttpBleMode, HttpReboot,
         SerialUnregister, SerialDone, HttpNodeConfirm, WsReboot, Begin, Same
<1>3. ProofKept
  <2>1. proven \subseteq Versions
    BY DEF Core, StoreTyped
  <2>2. CASE Identified
    <3>1. proven' = proven \cup {Running} /\ mode = "node" /\ Running \in Versions
      BY <2>2, LifeAssumption DEF Identified, InNode
    <3> QED
      BY <3>1, <2>1 DEF ProofKept
  <2>3. CASE ~Identified
    <3>1. UNCHANGED <<proven, ws>>
      BY <2>3 DEF WatchdogTick, WifiReboot, OtaConfirmed, ButtonBle, HttpBleMode, HttpReboot,
         SerialUnregister, SerialDone, HttpNodeConfirm, WsReboot, Begin, linkVars
    <3> QED
      BY <3>1, <2>1 DEF ProofKept
  <2> QED
    BY <2>2, <2>3
<1>4. \E a, b, c, d \in Works :
         /\ Harmless(a) /\ Harmless(b) /\ Harmless(c) /\ Harmless(d)
         /\ todo' \in {<< >>, <<a>>, <<a, b>>, <<a, b, c, d>>}
  <2>1. CASE WatchdogTick
    BY <2>1, WorksAre DEF WatchdogTick, Begin
  <2>2. CASE Identified \/ HttpNodeConfirm
    BY <2>2, WorksAre DEF Identified, HttpNodeConfirm, WatchdogConfirm
  <2>3. CASE WifiReboot \/ HttpReboot \/ SerialDone \/ WsReboot
    BY <2>3, WorksAre DEF WifiReboot, HttpReboot, SerialDone, WsReboot, Begin
  <2>4. CASE OtaConfirmed
    BY <2>4, WorksAre DEF OtaConfirmed
  <2>5. CASE ButtonBle \/ HttpBleMode
    BY <2>5, WorksAre DEF ButtonBle, HttpBleMode, Begin
  <2>6. CASE SerialUnregister
    BY <2>6, WorksAre DEF SerialUnregister, Begin
  <2> QED
    BY <2>1, <2>2, <2>3, <2>4, <2>5, <2>6
<1>5. todo' \in Seq(Works) /\ \A w \in ToSet(todo') : Harmless(w)
  BY <1>4, HarmlessLists
<1> QED
  BY <1>1, <1>2, <1>3, <1>5, HarmlessBegun

LEMMA WifiSaveWork ==
  ASSUME NEW s \in Ssids
  PROVE  /\ WifiSaveConfig(s) \in Seq(Works)
         /\ \A w \in ToSet(WifiSaveConfig(s)) : Harmless(w)
BY WorksAre, HarmlessLists DEF WifiSaveConfig

LEMMA ResetWork ==
  /\ FactoryReset \in Seq(Works) /\ FactoryReset # << >> /\ Last(FactoryReset) = Restart
  /\ \A w \in ToSet(FactoryReset) : Plain(w) /\ (Harmless(w) \/ w = Clear("sensmos"))
<1>1. /\ Clear("sensmos") \in Works /\ Clear("sensmos_wifi") \in Works /\ Restart \in Works
      /\ Plain(Clear("sensmos")) /\ Harmless(Clear("sensmos_wifi")) /\ Harmless(Restart)
  BY WorksAre, StepsAre
<1>2. FactoryReset \in Seq(Works)
      /\ ToSet(FactoryReset) = {Clear("sensmos"), Clear("sensmos_wifi"), Restart}
  BY <1>1 DEF ToSet, FactoryReset
<1>3. FactoryReset # << >> /\ Last(FactoryReset) = Restart
  BY DEF FactoryReset, Last
<1> QED
  BY <1>1, <1>2, <1>3 DEF Harmless

\* Allowed once somebody has asked for the reset.
LEMMA ResetAllowed ==
  ASSUME asked'
  PROVE  \A w \in ToSet(FactoryReset) : Allowed(w)'
BY ResetWork DEF Harmless, Allowed, BleOps, FlashOps, Clear

LEMMA BeginSame ==
  ASSUME NEW q, Begin(q), Core
  PROVE  Same /\ ProofKept /\ todo' = q
BY DEF Begin, Same, ProofKept, Core, StoreTyped, linkVars

LEMMA ResetHandlers ==
  ASSUME Core, ButtonReset \/ HttpReset \/ SerialReset, asked' = TRUE
  PROVE  Core'
<1>1. Idle /\ mode # "off" /\ Begin(FactoryReset) /\ AskedKept
  BY DEF ButtonReset, HttpReset, SerialReset, InNode, Console, AskedKept
<1>2. Same /\ ProofKept /\ todo' = FactoryReset
  BY <1>1, BeginSame
<1>3. Ordered(FactoryReset)
  BY ResetWork, PlainOrdered
<1> QED
  BY <1>1, <1>2, <1>3, ResetAllowed, Begun

LEMMA WsDeletedStep ==
  ASSUME Core, WsDeleted, AskedKept
  PROVE  Core'
<1> DEFINE m == Put("deleted", TRUE)
           q == <<m, Restart>>
<1>1. Idle /\ mode # "off" /\ Begin(q)
  BY DEF WsDeleted, InNode
<1>2. Same /\ ProofKept /\ todo' = q
  BY <1>1, BeginSame
<1>3. ToSet(q) = {m, Restart}
  <2> HIDE DEF m
  <2> QED
    BY DEF ToSet
<1>4. \A w \in ToSet(q) : Allowed(w)'
  BY <1>3 DEF Put, Restart, Do, Allowed, BleOps, FlashOps, ClearsIdentity
<1> QED
  BY <1>1, <1>2, <1>4, SpecialLists, Begun

LEMMA SetWifiStep ==
  ASSUME Core, AskedKept, NEW s \in Ssids, SerialSetWifi(s)
  PROVE  Core'
<1> DEFINE q == WifiSaveConfig(s) \o <<Do("connect")>>
<1>1. Idle /\ mode # "off" /\ Begin(q)
  BY DEF SerialSetWifi, Console
<1>2. Same /\ ProofKept /\ todo' = q
  BY <1>1, BeginSame
<1>3. <<Do("connect")>> \in Seq(Works) /\ ToSet(<<Do("connect")>>) = {Do("connect")}
      /\ Do("connect") \in Works /\ Do("connect").op = "connect"
  BY StepsAre DEF ToSet, Do
<1>4. Ordered(q)
  BY <1>3, WifiSaveWork, PlainFirst DEF Harmless
<1>5. ToSet(q) = ToSet(WifiSaveConfig(s)) \cup {Do("connect")}
  <2>1. WifiSaveConfig(s) \in Seq(Works) /\ <<Do("connect")>> \in Seq(Works)
    BY <1>3, WifiSaveWork
  <2>2. ToSet(q) = ToSet(WifiSaveConfig(s)) \cup ToSet(<<Do("connect")>>)
    BY <2>1, Concatenated
  <2> QED
    BY <2>2, <1>3
<1>6. \A w \in ToSet(q) : Allowed(w)'
  <2>1. \A w \in ToSet(WifiSaveConfig(s)) : Allowed(w)'
    BY WifiSaveWork, HarmlessWork
  <2>2. Allowed(Do("connect"))'
    BY DEF Allowed, Do, BleOps, FlashOps, ClearsIdentity
  <2> QED
    BY <2>1, <2>2, <1>5
<1> QED
  BY <1>1, <1>2, <1>4, <1>6, Begun

\* An update: the session has proved the image that takes it.
LEMMA OtaHandleStep ==
  ASSUME Core, AskedKept, NEW v \in Versions, OtaHandle(v)
  PROVE  Core'
<1> DEFINE q == <<Image("erase", Torn)>>
           r == <<Image("erase", Torn), Image("commit", v), Put("pending", v), Restart>>
<1>1. Idle /\ mode = "node" /\ ws /\ (Begin(q) \/ Begin(r))
  BY DEF OtaHandle, InNode
<1>2. Same /\ ProofKept /\ (todo' = q \/ todo' = r)
  BY <1>1, BeginSame
<1>3. Image("erase", Torn) \in Works /\ Plain(Image("erase", Torn))
  BY StepsAre
<1>4. q \in Seq(Works) /\ ToSet(q) = {Image("erase", Torn)}
      /\ ToSet(r) = {Image("erase", Torn), Image("commit", v), Put("pending", v), Restart}
  BY <1>3 DEF ToSet
<1>5. Ordered(q) /\ Ordered(r)
  BY <1>3, <1>4, SpecialLists, PlainOrdered
<1>6. mode' = "node" /\ bootSlot' = slot' /\ Running' \in proven'
  <2>1. bootSlot = slot
    BY <1>1 DEF Core, Slots, SlotKnown, Idle, EndsInRestart
  <2>2. Running \in proven
    BY <1>1 DEF Core, Slots, SessionProves
  <2> QED
    BY <2>1, <2>2, <1>1, <1>2 DEF Same, ProofKept, Running
<1>7. \A w \in ToSet(q) \cup ToSet(r) : Allowed(w)'
  <2>1. \A w : w.op \in {"erase", "commit", "put", "restart"} => Allowed(w)'
    BY <1>6 DEF Allowed, BleOps, ClearsIdentity
  <2>2. \A w \in ToSet(q) \cup ToSet(r) : w.op \in {"erase", "commit", "put", "restart"}
    BY <1>4 DEF Image, Put, Restart, Do
  <2> QED
    BY <2>1, <2>2
<1> QED
  BY <1>1, <1>2, <1>5, <1>7, Begun

LEMMA OtaTimeoutStep ==
  ASSUME Core, AskedKept, OtaTimeout
  PROVE  Core'
<1> DEFINE q == <<Put("pending", None), Do("rollback"), Restart>>
<1>1. Idle /\ mode = "node" /\ todo' = q /\ Same /\ ProofKept
  <2>1. UNCHANGED <<proven, ws>>
    BY DEF OtaTimeout, linkVars
  <2> QED
    BY <2>1 DEF OtaTimeout, InNode, Same, ProofKept, Core, StoreTyped
<1>2. ToSet(q) = {Put("pending", None), Do("rollback"), Restart}
  BY DEF ToSet
<1>3. mode' = "node" /\ bootSlot' = slot'
  BY <1>1 DEF Core, Slots, SlotKnown, Idle, EndsInRestart, Same
<1>4. \A w \in ToSet(q) : Allowed(w)'
  <2>1. \A w : w.op \in {"rollback", "put", "restart"} => Allowed(w)'
    BY <1>3 DEF Allowed, BleOps, ClearsIdentity
  <2>2. \A w \in ToSet(q) : w.op \in {"rollback", "put", "restart"}
    BY <1>2 DEF Put, Restart, Do
  <2> QED
    BY <2>1, <2>2
<1> QED
  BY <1>1, <1>4, SpecialLists, Begun

------------------------------------------------------------------------------
(* The BLE life.                                                           *)

\* A command's work, and the freeing of the mailbox after it.
LEMMA CarryStep ==
  ASSUME Core, AskedKept, mode = "ble", Idle,
         NEW work \in Seq(Works), \A w \in ToSet(work) : Plain(w) /\ Allowed(w)',
         Carry(work)
  PROVE  Core'
<1>1. Same /\ ProofKept
  BY DEF Carry, Same, ProofKept, Core, StoreTyped, linkVars
<1>2. Do("free") \in Works /\ Plain(Do("free"))
  BY StepsAre DEF BleOps
<1>3. Allowed(Do("free"))'
  BY <1>1 DEF Same, Allowed, Do, BleOps, FlashOps, ClearsIdentity
<1>4. PICK q \in Seq(Works) : todo' = work \o q /\ \A w \in ToSet(q) : Plain(w) /\ Allowed(w)'
  <2>1. << >> \in Seq(Works) /\ ToSet(<< >>) = {}
    BY DEF ToSet
  <2>2. <<Do("free")>> \in Seq(Works) /\ ToSet(<<Do("free")>>) = {Do("free")}
    BY <1>2 DEF ToSet
  <2>3. todo' = work \o << >> \/ todo' = work \o <<Do("free")>>
    BY DEF Carry
  <2> QED
    BY <2>1, <2>2, <2>3, <1>2, <1>3
<1>5. todo' \in Seq(Works) /\ ToSet(todo') = ToSet(work) \cup ToSet(q)
  BY <1>4, Concatenated
<1>6. Ordered(todo')
  BY <1>4, <1>5, PlainOrdered
<1> QED
  BY <1>1, <1>4, <1>5, <1>6, Begun

\* Each command's work.
BleWork(work) ==
    /\ work \in Seq(Works)
    /\ \A w \in ToSet(work) : Harmless(w) \/ w \in {Do("authok"), Do("pending")}

LEMMA BleWorkAllowed ==
  ASSUME NEW work, BleWork(work), mode' = "ble"
  PROVE  \A w \in ToSet(work) : Plain(w) /\ Allowed(w)'
<1>1. \A w : Harmless(w) => Plain(w) /\ Allowed(w)'
  BY DEF Harmless, Allowed, BleOps, FlashOps
<1>2. \A w \in {Do("authok"), Do("pending")} : Plain(w) /\ Allowed(w)'
  BY DEF Plain, MarksDeleted, Allowed, Do, BleOps, FlashOps, ClearsIdentity
<1> QED
  BY <1>1, <1>2 DEF BleWork

LEMMA BleWorks ==
  /\ BleWork(<< >>) /\ BleWork(<<Do("authok")>>) /\ BleWork(<<Do("pending")>>)
  /\ BleWork(<<Put("pin", "pin")>>) /\ BleWork(<<Put("idOvr", "id")>>)
  /\ BleWork(<<Put("wallet", "blob")>>)
  /\ BleWork(<<Put("owner", TRUE), Do("pending")>>)
<1>1. ASSUME NEW w \in Works, Harmless(w) \/ w \in {Do("authok"), Do("pending")}
      PROVE  BleWork(<<w>>)
  <2>1. <<w>> \in Seq(Works) /\ ToSet(<<w>>) = {w}
    BY DEF ToSet
  <2> QED
    BY <2>1, <1>1 DEF BleWork
<1>2. BleWork(<< >>)
  BY DEF BleWork, ToSet
<1>3. Do("authok") \in Works /\ Do("pending") \in Works
  BY StepsAre DEF BleOps
<1>4. BleWork(<<Put("owner", TRUE), Do("pending")>>)
  <2> DEFINE o == Put("owner", TRUE)
  <2>1. o \in Works /\ Harmless(o)
    BY WorksAre
  <2> HIDE DEF o
  <2>2. <<o, Do("pending")>> \in Seq(Works) /\ ToSet(<<o, Do("pending")>>) = {o, Do("pending")}
    BY <2>1, <1>3 DEF ToSet
  <2> QED
    BY <2>1, <2>2 DEF BleWork, o
<1>5. BleWork(<<Do("authok")>>) /\ BleWork(<<Do("pending")>>)
  BY <1>1, <1>3
<1>6. BleWork(<<Put("pin", "pin")>>)
  BY <1>1, WorksAre
<1>7. BleWork(<<Put("idOvr", "id")>>)
  BY <1>1, WorksAre
<1>8. BleWork(<<Put("wallet", "blob")>>)
  BY <1>1, WorksAre
<1> QED
  BY <1>2, <1>4, <1>5, <1>6, <1>7, <1>8

LEMMA BleWorkJoined ==
  ASSUME NEW p, NEW q, BleWork(p), BleWork(q)
  PROVE  BleWork(p \o q)
<1>1. p \in Seq(Works) /\ q \in Seq(Works)
  BY DEF BleWork
<1>2. p \o q \in Seq(Works) /\ ToSet(p \o q) = ToSet(p) \cup ToSet(q)
  BY <1>1, Concatenated
<1> QED
  BY <1>2 DEF BleWork

\* Every command but the factory reset carries work of BLE mode.
LEMMA CommandWork ==
  ASSUME CmdRefused \/ CmdAuth \/ CmdSetDeviceId \/ CmdRegister \/ CmdTrustRound \/ CmdTrustSign
         \/ CmdWalletRead \/ CmdWalletBackup \/ CmdWifiSet
  PROVE  \E work : BleWork(work) /\ Carry(work)
<1>1. CASE CmdRefused \/ CmdWalletRead \/ CmdTrustRound
  BY <1>1, BleWorks DEF CmdRefused, CmdWalletRead, CmdTrustRound
<1>2. CASE CmdAuth
  <2> DEFINE p == IF nv.pin = None THEN <<Put("pin", "pin")>> ELSE << >>
  <2>1. BleWork(p)
    BY BleWorks
  <2>2. BleWork(p \o <<Do("authok")>>)
    BY <2>1, BleWorks, BleWorkJoined
  <2>3. Carry(p \o <<Do("authok")>>)
    BY <1>2 DEF CmdAuth
  <2> QED
    BY <2>2, <2>3
<1>3. CASE CmdSetDeviceId
  BY <1>3, BleWorks DEF CmdSetDeviceId
<1>4. CASE CmdRegister
  <2>1. PICK s \in Ssids : Carry(WifiSaveConfig(s) \o <<Put("owner", TRUE), Do("pending")>>)
    BY <1>4 DEF CmdRegister
  <2>2. BleWork(WifiSaveConfig(s))
    BY WifiSaveWork DEF BleWork
  <2>3. BleWork(WifiSaveConfig(s) \o <<Put("owner", TRUE), Do("pending")>>)
    BY <2>2, BleWorks, BleWorkJoined
  <2> QED
    BY <2>1, <2>3
<1>5. CASE CmdTrustSign
  BY <1>5, BleWorks DEF CmdTrustSign
<1>6. CASE CmdWalletBackup
  BY <1>6, BleWorks DEF CmdWalletBackup
<1>7. CASE CmdWifiSet
  <2>1. PICK s \in Ssids : Carry(WifiSaveConfig(s) \o <<Do("pending")>>)
    BY <1>7 DEF CmdWifiSet
  <2>2. BleWork(WifiSaveConfig(s))
    BY WifiSaveWork DEF BleWork
  <2>3. BleWork(WifiSaveConfig(s) \o <<Do("pending")>>)
    BY <2>2, BleWorks, BleWorkJoined
  <2> QED
    BY <2>1, <2>3
<1> QED
  BY <1>1, <1>2, <1>3, <1>4, <1>5, <1>6, <1>7

LEMMA BleHandleStep ==
  ASSUME Core, BleHandle, Asked
  PROVE  Core'
<1>1. mode = "ble" /\ Idle
  BY DEF BleHandle
<1>2. CASE CmdFactoryReset
  <2>1. Carry(FactoryReset) /\ inHand' = "factory_reset" /\ mode' = "ble"
    BY <1>1, <1>2 DEF CmdFactoryReset, Carry
  <2>2. asked' = TRUE
    BY <2>1 DEF Asked
  <2>3. AskedKept
    BY <2>2 DEF AskedKept
  <2>4. \A w \in ToSet(FactoryReset) : Plain(w) /\ Allowed(w)'
    BY <2>2, ResetWork, ResetAllowed
  <2> QED
    BY <2>1, <2>3, <2>4, <1>1, ResetWork, CarryStep
<1>3. CASE ~CmdFactoryReset
  <2>1. PICK work : BleWork(work) /\ Carry(work)
    BY <1>3, CommandWork DEF BleHandle
  <2>2. mode' = "ble"
    BY <2>1, <1>1 DEF Carry
  <2>3. AskedKept
    BY <2>2, AskedStays DEF Core
  <2>4. work \in Seq(Works) /\ \A w \in ToSet(work) : Plain(w) /\ Allowed(w)'
    BY <2>1, <2>2, BleWorkAllowed DEF BleWork
  <2> QED
    BY <2>1, <2>3, <2>4, <1>1, CarryStep
<1> QED
  BY <1>2, <1>3

\* What BLE mode has begun is replaced; there are no images in the making.
LEMMA BleReplaced ==
  ASSUME Core, AskedKept, mode = "ble", Same, UNCHANGED <<proven, ws>>,
         Ordered(todo'), \A w \in ToSet(todo') : Allowed(w)'
  PROVE  Core'
<1>1. StoreTyped'
  BY DEF Core, StoreTyped, Same, AskedKept
<1>2. WorkAllowed' /\ DeletedRestarts'
  BY DEF WorkAllowed, DeletedRestarts, Same
<1>3. Slots'
  BY DEF Core, Slots, SlotKnown, SessionProves, AProvenImage, Same, Running
<1> QED
  BY <1>1, <1>2, <1>3 DEF Core, Work

LEMMA BleNextStep ==
  ASSUME Core, BleNext, AskedKept
  PROVE  Core'
<1>1. todo # << >> /\ Ordered(todo) /\ todo[1] = Head(todo) /\ Head(todo) \in ToSet(todo)
  BY Rest DEF Core, Work, BleNext, Idle
<1>2. mode = "ble" /\ todo[1].op # "restart"
  BY <1>1 DEF Core, Work, WorkAllowed, Allowed, BleNext, BleOps
<1>3. Same /\ UNCHANGED <<proven, ws>>
  BY DEF BleNext, Same, linkVars
<1>4. CASE Head(todo).op = "free"
  <2>1. todo' = <<Do("tail")>> /\ Do("tail") \in Works /\ Plain(Do("tail"))
    BY <1>4, StepsAre DEF BleNext, BleOps
  <2>2. todo' \in Seq(Works) /\ ToSet(todo') = {Do("tail")}
    BY <2>1 DEF ToSet
  <2>3. Allowed(Do("tail"))'
    BY <1>2, <1>3 DEF Allowed, Same, Do, BleOps, FlashOps, ClearsIdentity
  <2> QED
    BY <2>1, <2>2, <2>3, <1>2, <1>3, PlainOrdered, BleReplaced
<1>5. CASE Head(todo).op # "free"
  <2>1. todo' = Tail(todo)
    BY <1>5 DEF BleNext
  <2>2. WorkAllowed' /\ Ordered(todo') /\ Slots'
    BY <2>1, <1>1, <1>2, <1>3, NextDone DEF Same, Idle
  <2>3. StoreTyped' /\ DeletedRestarts'
    BY <1>2, <1>3 DEF Core, StoreTyped, DeletedRestarts, Same, AskedKept
  <2> QED
    BY <2>2, <2>3 DEF Core, Work
<1> QED
  BY <1>4, <1>5

LEMMA BleTailStep ==
  ASSUME Core, BleTail, AskedKept
  PROVE  Core'
<1>1. mode = "ble" /\ Same /\ UNCHANGED <<proven, ws>> /\ (todo' = <<Restart>> \/ todo' = << >>)
  BY DEF BleTail, Same, linkVars
<1>2. todo' \in Seq(Works) /\ \A w \in ToSet(todo') : Harmless(w)
  BY <1>1, WorksAre, HarmlessLists
<1> QED
  BY <1>1, <1>2, HarmlessWork, BleReplaced

------------------------------------------------------------------------------
(* Together.                                                               *)

\* Steps of time, world and link.
LEMMA QuietSteps ==
  ASSUME Core, AskedKept,
         \/ SessionLost \/ LinkNoticed \/ LossNoticed \/ FallbackTick \/ MinutePasses
         \/ RouterBack \/ RouterFails \/ BackendMoves
         \/ WriteEnds \/ AppLeaves \/ AppConnects \/ \E c \in Commands : WriteBegins(c)
  PROVE  Core'
<1>1. Same /\ UNCHANGED <<todo, proven>> /\ (ws' => ws)
  BY DEF SessionLost, LinkNoticed, LossNoticed, FallbackTick, MinutePasses, Tick, RouterBack,
         RouterFails, BackendMoves, WriteEnds, AppLeaves, AppConnects, WriteBegins,
         Same, bootVars, linkVars, lifeVars
<1>2. ProofKept
  BY <1>1 DEF ProofKept, Core, StoreTyped
<1> QED
  BY <1>1, <1>2, Quiet

LEMMA WritesStep ==
  ASSUME Core, Writes, Asked
  PROVE  Core'
<1>1. CASE RestartNext
  <2>1. asked' \in BOOLEAN
    BY DEF Core, StoreTyped, Asked
  <2>2. UNCHANGED <<nv, flash, bootSlot, slot, proven>> /\ Down
    BY <1>1 DEF RestartNext
  <2> QED
    BY <2>1, <2>2, WentDown
<1>2. CASE WriteNext \/ FlashNext \/ RollBackNext \/ ConnectNext
  <2>1. mode' = mode /\ mode # "off"
    BY <1>2 DEF WriteNext, FlashNext, RollBackNext, ConnectNext, Core, Work, WorkAllowed
  <2>2. AskedKept
    BY <2>1, AskedStays DEF Core
  <2> QED
    BY <2>2, <1>2, WriteStep, FlashStep, RollBackStep, ConnectStep
<1> QED
  BY <1>1, <1>2 DEF Writes

\* The steps of the device's life, which lose what BLE mode keeps in RAM when
\* the device goes down, and those of BLE mode.
PeopleSteps ==
    \/ ButtonBle \/ HttpBleMode \/ HttpReboot \/ SerialUnregister \/ SerialDone
    \/ (\E s \in Ssids : SerialSetWifi(s)) \/ HttpNodeConfirm
ResetSteps == ButtonReset \/ HttpReset \/ SerialReset
LifeSteps ==
    \/ Boot \/ Writes \/ NodeTasks \/ MinutePasses \/ RouterBack \/ PowerFails \/ PeopleSteps
    \/ RouterFails \/ BackendMoves \/ WsDeleted \/ WsReboot
    \/ \E v \in Versions : OtaHandle(v)
MailSteps == WriteEnds \/ AppLeaves \/ \E c \in Commands : WriteBegins(c)

LEMMA StepsOf ==
  ASSUME LivesNext
  PROVE  /\ upsets' = upsets \/ (upsets < MaxUpsets /\ upsets' = upsets + 1)
         /\ \/ Asked /\ LifeSteps /\ BleKeeps
            \/ Asked /\ (BleLoop \/ MailSteps)
            \/ asked' = TRUE /\ ResetSteps /\ BleKeeps
            \/ UNCHANGED asked /\ AppConnects
<1>1. CASE Device
  BY <1>1 DEF Device, ByItself, InLife, InBle, LifeSteps
<1>2. CASE Clock \/ Calm
  BY <1>2 DEF Clock, Calm, ByItself, InLife, InBle, LifeSteps, MailSteps
<1>3. CASE Power \/ People \/ Confirms
  BY <1>3 DEF Power, People, Confirms, Upset, InLife, LifeSteps, PeopleSteps
<1>4. CASE Resets
  BY <1>4 DEF Resets, Upset, ResetSteps
<1>5. CASE Network \/ Owner \/ Updates
  BY <1>5 DEF Network, Owner, Updates, Upset, InLife, LifeSteps
<1>6. CASE Connects \/ Sends
  BY <1>6 DEF Connects, Sends, Upset, InBle, MailSteps
<1> QED
  BY <1>1, <1>2, <1>3, <1>4, <1>5, <1>6 DEF LivesNext

\* Only going down forgets who asked for what.
LEMMA CoreStep ==
  ASSUME Core, LivesNext
  PROVE  Core'
<1>1. CASE ResetSteps /\ asked' = TRUE
  BY <1>1, ResetHandlers DEF ResetSteps
<1>2. CASE AppConnects /\ UNCHANGED asked
  <2>1. AskedKept
    BY <1>2 DEF AskedKept, Core, StoreTyped
  <2> QED
    BY <2>1, <1>2, QuietSteps
<1>3. CASE Asked /\ (Boot \/ NodeTasks \/ MinutePasses \/ PeopleSteps)
  <2>1. mode' # "off"
    BY <1>3 DEF Boot, PowerOn, BootDeleted, BootForced, BootNew, BootNode, BootWifiFailed, BleStart,
                BootWithWifi, NodeTasks, WatchdogTick, Identified, SessionLost, LinkNoticed, LossNoticed,
                FallbackTick, WifiReboot, OtaConfirmed, OtaTimeout, MinutePasses, Tick, PeopleSteps,
                ButtonBle, HttpBleMode, HttpReboot, SerialUnregister, SerialDone, SerialSetWifi,
                HttpNodeConfirm, InNode, Console, Begin, bootVars
  <2>2. AskedKept
    BY <2>1, <1>3, AskedStays DEF Core
  <2> QED
    BY <2>2, <1>3, BootStep, QuietSteps, HarmlessHandlers, OtaTimeoutStep, SetWifiStep
       DEF NodeTasks, PeopleSteps
<1>4. CASE Asked /\ Writes
  BY <1>4, WritesStep
<1>5. CASE Asked /\ PowerFails
  <2>1. UNCHANGED <<nv, flash, bootSlot, slot, proven>> /\ Down /\ asked' \in BOOLEAN
    BY <1>5 DEF PowerFails, Core, StoreTyped, Asked
  <2> QED
    BY <2>1, WentDown
<1>6. CASE Asked /\ (RouterBack \/ RouterFails \/ BackendMoves \/ MailSteps \/ BleNext \/ BleTail
                     \/ WsDeleted \/ WsReboot \/ \E v \in Versions : OtaHandle(v))
  <2>1. mode' = mode
    BY <1>6 DEF RouterBack, RouterFails, BackendMoves, MailSteps, WriteEnds, AppLeaves,
                WriteBegins, BleNext, BleTail, WsDeleted, WsReboot, OtaHandle, Begin, bootVars, lifeVars
  <2>2. AskedKept
    BY <2>1, <1>6, AskedStays DEF Core
  <2> QED
    BY <2>2, <1>6, QuietSteps, BleNextStep, BleTailStep, WsDeletedStep, HarmlessHandlers, OtaHandleStep
       DEF MailSteps
<1>7. CASE Asked /\ BleHandle
  BY <1>7, BleHandleStep
<1> QED
  BY <1>1, <1>2, <1>3, <1>4, <1>5, <1>6, <1>7, StepsOf DEF LifeSteps, BleLoop

------------------------------------------------------------------------------
(* The mailbox.                                                            *)

LEMMA CarryMail ==
  ASSUME MailKept, full, NEW work, Carry(work)
  PROVE  MailKept'
BY DEF MailKept, Carry, mailVars

LEMMA MailStep ==
  ASSUME MailKept, LivesNext
  PROVE  MailKept'
<1>1. CASE BleKeeps
  <2>1. CASE mode' = "off"
    BY <1>1, <2>1, BleAssumption DEF BleKeeps, BleLost, MailKept
  <2>2. CASE mode' # "off"
    BY <1>1, <2>2 DEF BleKeeps, bleVars, mailVars, MailKept
  <2> QED
    BY <2>1, <2>2
<1>2. CASE BleHandle
  <2>1. full /\ \E work : Carry(work)
    BY <1>2 DEF BleHandle, CmdRefused, CmdFactoryReset, CmdAuth, CmdSetDeviceId, CmdRegister,
                CmdTrustRound, CmdTrustSign, CmdWalletRead, CmdWalletBackup, CmdWifiSet
  <2> QED
    BY <2>1, CarryMail
<1>3. CASE BleNext
  BY <1>3 DEF BleNext, MailKept
<1>4. CASE BleTail
  BY <1>4 DEF BleTail, MailKept, mailVars
<1>5. CASE WriteEnds
  BY <1>5, BleAssumption DEF WriteEnds, MailKept
<1>6. CASE AppLeaves \/ AppConnects
  BY <1>6 DEF AppLeaves, AppConnects, MailKept, mailVars
<1>7. CASE \E c \in Commands : WriteBegins(c)
  BY <1>7, BleAssumption DEF WriteBegins, MailKept
<1> QED
  BY <1>1, <1>2, <1>3, <1>4, <1>5, <1>6, <1>7, StepsOf DEF BleLoop, MailSteps

------------------------------------------------------------------------------
(* Types of times and flags.                                               *)

LEMMA RoundsStep ==
  ASSUME rounds \in 0..TRUST_MAX_ROUNDS, LivesNext
  PROVE  rounds' \in 0..TRUST_MAX_ROUNDS
<1>2. CASE BleKeeps
  BY <1>2, BleAssumption DEF BleKeeps, BleLost, bleVars
<1>3. CASE BleHandle
  BY <1>3, BleAssumption
     DEF BleHandle, CmdRefused, CmdFactoryReset, CmdAuth, CmdSetDeviceId, CmdRegister,
         CmdTrustRound, CmdTrustSign, CmdWalletRead, CmdWalletBackup, CmdWifiSet, Carry
<1>4. CASE BleNext \/ BleTail \/ MailSteps \/ AppConnects
  BY <1>4 DEF BleNext, BleTail, MailSteps, WriteEnds, AppLeaves, AppConnects, WriteBegins
<1> QED
  BY <1>2, <1>3, <1>4, StepsOf DEF BleLoop

Timers == up \in 0..MaxMinutes + 1 /\ lost \in Nat /\ down \in Nat

LEMMA TimerStep ==
  ASSUME Timers, LifeSteps
  PROVE  Timers'
<1>1. CASE Boot
  <2>1. 0 \in 0..MaxMinutes + 1
    BY LivesAssumption
  <2>2. CASE PowerOn \/ BootWifiFailed
    BY <2>2 DEF PowerOn, BootWifiFailed, linkVars, Timers
  <2>3. CASE BootDeleted \/ BootForced \/ BootNew
    BY <2>1, <2>3 DEF BootDeleted, BootForced, BootNew, BleStart, linkVars, Timers
  <2>4. CASE BootNode
    BY <2>1, <2>4 DEF BootNode, Timers
  <2> QED
    BY <1>1, <2>2, <2>3, <2>4 DEF Boot
<1>2. CASE Writes
  <2>1. CASE RestartNext
    BY <2>1, LivesAssumption DEF RestartNext, Down, Timers
  <2>2. CASE WriteNext \/ FlashNext \/ RollBackNext \/ ConnectNext
    BY <2>2 DEF WriteNext, FlashNext, RollBackNext, ConnectNext, linkVars, Timers
  <2> QED
    BY <1>2, <2>1, <2>2 DEF Writes
<1>3. CASE WatchdogTick \/ WifiReboot \/ PeopleSteps \/ WsDeleted \/ WsReboot
           \/ \E v \in Versions : OtaHandle(v)
  BY <1>3 DEF WatchdogTick, WifiReboot, PeopleSteps, WsDeleted, WsReboot, OtaHandle, ButtonBle,
     HttpBleMode, HttpReboot, SerialUnregister, SerialDone, SerialSetWifi, HttpNodeConfirm, Begin,
     linkVars, Timers
<1>4. CASE Identified \/ SessionLost \/ LinkNoticed \/ LossNoticed \/ FallbackTick \/ OtaConfirmed \/ OtaTimeout
  BY <1>4 DEF Identified, SessionLost, LinkNoticed, LossNoticed, FallbackTick, OtaConfirmed, OtaTimeout,
     bootVars, linkVars, Timers
<1>5. CASE MinutePasses
  BY <1>5, LivesAssumption, LifeAssumption DEF MinutePasses, Tick, Minute, Timers
<1>6. CASE RouterBack \/ RouterFails \/ BackendMoves
  BY <1>6 DEF RouterBack, RouterFails, BackendMoves, bootVars, linkVars, Timers
<1>7. CASE PowerFails
  BY <1>7, LivesAssumption DEF PowerFails, Down, Timers
<1> QED
  BY <1>1, <1>2, <1>3, <1>4, <1>5, <1>6, <1>7 DEF LifeSteps, NodeTasks

LEMMA TimesStep ==
  ASSUME TimesTyped, LivesNext
  PROVE  TimesTyped'
<1>1. Timers
  BY DEF TimesTyped, Timers
<1>2. LifeSteps => Timers'
  BY <1>1, TimerStep
<1>3. ASSUME ResetSteps PROVE Timers'
  BY <1>1, <1>3 DEF ResetSteps, ButtonReset, HttpReset, SerialReset, Begin, linkVars, Timers
<1>4. ASSUME BleHandle PROVE Timers'
  BY <1>1, <1>4
     DEF BleHandle, CmdRefused, CmdFactoryReset, CmdAuth, CmdSetDeviceId, CmdRegister, Carry,
         CmdTrustRound, CmdTrustSign, CmdWalletRead, CmdWalletBackup, CmdWifiSet, linkVars, Timers
<1>5. ASSUME BleNext \/ BleTail \/ MailSteps \/ AppConnects PROVE Timers'
  BY <1>1, <1>5 DEF BleNext, BleTail, MailSteps, WriteEnds, AppLeaves, AppConnects, WriteBegins,
     bootVars, linkVars, lifeVars, Timers
<1>6. Timers'
  BY <1>2, <1>3, <1>4, <1>5, StepsOf DEF BleLoop
<1> QED
  <2>1. upsets' \in 0..MaxUpsets
    BY StepsOf, LivesAssumption DEF TimesTyped
  <2> QED
    BY <2>1, <1>6, RoundsStep DEF TimesTyped, Timers

LEMMA WorldStep ==
  ASSUME WorldTyped, LivesNext
  PROVE  WorldTyped'
<1>1. ASSUME UNCHANGED <<router, backend, radio, cut>> PROVE WorldTyped'
  BY <1>1 DEF WorldTyped
<1>2. CASE Boot
  BY <1>1, <1>2 DEF Boot, PowerOn, BootDeleted, BootForced, BootNew, BootNode, BootWifiFailed,
     BleStart, worldVars
<1>3. CASE Writes
  BY <1>1, <1>3 DEF Writes, WriteNext, RestartNext, FlashNext, RollBackNext, ConnectNext, worldVars
<1>4. CASE NodeTasks
  BY <1>1, <1>4 DEF NodeTasks, WatchdogTick, WifiReboot, Identified, SessionLost, LinkNoticed, LossNoticed,
     FallbackTick, OtaConfirmed, OtaTimeout, Begin, worldVars
<1>5. CASE PeopleSteps \/ ResetSteps \/ WsDeleted \/ WsReboot \/ \E v \in Versions : OtaHandle(v)
  BY <1>1, <1>5 DEF PeopleSteps, ResetSteps, ButtonReset, HttpReset, SerialReset, WsDeleted, WsReboot,
     OtaHandle, ButtonBle, HttpBleMode, HttpReboot, SerialUnregister, SerialDone, SerialSetWifi,
     HttpNodeConfirm, Begin, worldVars
<1>6. CASE MinutePasses
  BY <1>1, <1>6 DEF MinutePasses, Tick, worldVars
<1>7. CASE RouterBack
  BY <1>7 DEF RouterBack, WorldTyped
<1>8. CASE RouterFails
  BY <1>8 DEF RouterFails, WorldTyped
<1>9. CASE BackendMoves
  BY <1>9 DEF BackendMoves, WorldTyped
<1>10. CASE PowerFails
  BY <1>10 DEF PowerFails, WorldTyped, worldVars
<1>11. CASE BleHandle
  BY <1>1, <1>11
     DEF BleHandle, CmdRefused, CmdFactoryReset, CmdAuth, CmdSetDeviceId, CmdRegister, Carry,
         CmdTrustRound, CmdTrustSign, CmdWalletRead, CmdWalletBackup, CmdWifiSet, worldVars
<1>12. CASE BleNext \/ BleTail \/ MailSteps \/ AppConnects
  BY <1>1, <1>12 DEF BleNext, BleTail, MailSteps, WriteEnds, AppLeaves, AppConnects, WriteBegins,
     lifeVars, worldVars
<1> QED
  BY <1>2, <1>3, <1>4, <1>5, <1>6, <1>7, <1>8, <1>9, <1>10, <1>11, <1>12, StepsOf
     DEF LifeSteps, BleLoop

LEMMA LinkStep ==
  ASSUME LinkTyped, LivesNext
  PROVE  LinkTyped'
<1>1. ASSUME UNCHANGED <<wifi, fallback, ws>> PROVE LinkTyped'
  BY <1>1 DEF LinkTyped
<1>2. CASE PowerOn \/ BootDeleted \/ BootForced \/ BootNew \/ BootWifiFailed
  BY <1>1, <1>2 DEF PowerOn, BootDeleted, BootForced, BootNew, BootWifiFailed, BleStart, linkVars
<1>3. CASE BootNode
  BY <1>3 DEF BootNode, LinkTyped
<1>4. CASE WriteNext \/ FlashNext \/ RollBackNext
  BY <1>1, <1>4 DEF WriteNext, FlashNext, RollBackNext, linkVars
<1>5. CASE ConnectNext
  <2>1. wifi' \in BOOLEAN
    BY <1>5 DEF ConnectNext, LinkUp, Joined
  <2> QED
    BY <2>1, <1>5 DEF ConnectNext, LinkTyped
<1>6. CASE RestartNext \/ PowerFails
  BY <1>6 DEF RestartNext, PowerFails, Down, LinkTyped
<1>7. CASE WatchdogTick \/ WifiReboot \/ OtaConfirmed \/ OtaTimeout \/ MinutePasses
           \/ RouterBack \/ RouterFails \/ BackendMoves
  BY <1>1, <1>7 DEF WatchdogTick, WifiReboot, OtaConfirmed, OtaTimeout, MinutePasses, Tick, RouterBack,
     RouterFails, BackendMoves, Begin, linkVars
<1>8. CASE Identified \/ SessionLost \/ LinkNoticed \/ LossNoticed
  BY <1>8 DEF Identified, SessionLost, LinkNoticed, LossNoticed, LinkTyped
<1>9. CASE FallbackTick
  <2>1. fallback' \in BOOLEAN
    BY <1>9 DEF FallbackTick
  <2> QED
    BY <2>1, <1>9 DEF FallbackTick, LinkTyped
<1>10. CASE PeopleSteps \/ ResetSteps \/ WsDeleted \/ WsReboot \/ \E v \in Versions : OtaHandle(v)
  BY <1>1, <1>10 DEF PeopleSteps, ResetSteps, ButtonReset, HttpReset, SerialReset, WsDeleted, WsReboot,
     OtaHandle, ButtonBle, HttpBleMode, HttpReboot, SerialUnregister, SerialDone, SerialSetWifi,
     HttpNodeConfirm, Begin, linkVars
<1>11. CASE BleHandle
  BY <1>1, <1>11
     DEF BleHandle, CmdRefused, CmdFactoryReset, CmdAuth, CmdSetDeviceId, CmdRegister, Carry,
         CmdTrustRound, CmdTrustSign, CmdWalletRead, CmdWalletBackup, CmdWifiSet, linkVars
<1>12. CASE BleNext \/ BleTail \/ MailSteps \/ AppConnects
  BY <1>1, <1>12 DEF BleNext, BleTail, MailSteps, WriteEnds, AppLeaves, AppConnects, WriteBegins,
     lifeVars, linkVars
<1> QED
  BY <1>2, <1>3, <1>4, <1>5, <1>6, <1>7, <1>8, <1>9, <1>10, <1>11, <1>12, StepsOf
     DEF LifeSteps, Boot, Writes, NodeTasks, BleLoop

LEMMA GuardStep ==
  ASSUME GuardTyped, nv \in Nvs, LivesNext
  PROVE  GuardTyped'
<1>1. ASSUME UNCHANGED <<wdg, armed>> PROVE GuardTyped'
  BY <1>1 DEF GuardTyped
<1>2. CASE PowerOn \/ BootDeleted \/ BootForced \/ BootNew \/ BootWifiFailed
  BY <1>1, <1>2 DEF PowerOn, BootDeleted, BootForced, BootNew, BootWifiFailed, BleStart, guardVars
<1>3. CASE BootNode
  <2>1. nv.confirmed \in BOOLEAN
    BY DEF Nvs
  <2>2. wdg' = [active |-> ~nv.confirmed, confirmed |-> nv.confirmed]
        /\ armed' = (nv.pending # None /\ nv.pending = Running)
    BY <1>3 DEF BootNode, OtaInit, WatchdogStart
  <2>3. wdg' \in [active : BOOLEAN, confirmed : BOOLEAN]
    BY <2>1, <2>2
  <2>4. armed' \in BOOLEAN
    BY <2>2
  <2> QED
    BY <2>3, <2>4 DEF GuardTyped
<1>4. CASE WriteNext \/ FlashNext \/ RollBackNext \/ ConnectNext
  BY <1>1, <1>4 DEF WriteNext, FlashNext, RollBackNext, ConnectNext, guardVars
<1>5. CASE RestartNext \/ PowerFails
  <2>1. Down
    BY <1>5 DEF RestartNext, PowerFails
  <2>2. wdg' = [active |-> FALSE, confirmed |-> FALSE] /\ armed' = FALSE
    BY <2>1 DEF Down
  <2>3. wdg' \in [active : BOOLEAN, confirmed : BOOLEAN]
    BY <2>2
  <2> QED
    BY <2>2, <2>3 DEF GuardTyped
<1>6. CASE WatchdogTick \/ WifiReboot \/ SessionLost \/ LinkNoticed \/ LossNoticed \/ FallbackTick
           \/ MinutePasses \/ RouterBack \/ RouterFails \/ BackendMoves
  BY <1>1, <1>6 DEF WatchdogTick, WifiReboot, SessionLost, LinkNoticed, LossNoticed, FallbackTick,
     MinutePasses, Tick, RouterBack, RouterFails, BackendMoves, Begin, guardVars
<1>7. CASE Identified \/ HttpNodeConfirm
  BY <1>7 DEF Identified, HttpNodeConfirm, GuardTyped
<1>8. CASE OtaConfirmed \/ OtaTimeout
  BY <1>8 DEF OtaConfirmed, OtaTimeout, GuardTyped
<1>9. CASE ResetSteps \/ WsDeleted \/ WsReboot \/ (\E v \in Versions : OtaHandle(v))
           \/ ButtonBle \/ HttpBleMode \/ HttpReboot \/ SerialUnregister \/ SerialDone
           \/ (\E s \in Ssids : SerialSetWifi(s))
  BY <1>1, <1>9 DEF ResetSteps, ButtonReset, HttpReset, SerialReset, WsDeleted, WsReboot,
     OtaHandle, ButtonBle, HttpBleMode, HttpReboot, SerialUnregister, SerialDone, SerialSetWifi,
     Begin, guardVars
<1>10. CASE BleHandle
  BY <1>1, <1>10
     DEF BleHandle, CmdRefused, CmdFactoryReset, CmdAuth, CmdSetDeviceId, CmdRegister, Carry,
         CmdTrustRound, CmdTrustSign, CmdWalletRead, CmdWalletBackup, CmdWifiSet, guardVars
<1>11. CASE BleNext \/ BleTail \/ MailSteps \/ AppConnects
  BY <1>1, <1>11 DEF BleNext, BleTail, MailSteps, WriteEnds, AppLeaves, AppConnects, WriteBegins,
     lifeVars, guardVars
<1> QED
  BY <1>2, <1>3, <1>4, <1>5, <1>6, <1>7, <1>8, <1>9, <1>10, <1>11, StepsOf
     DEF LifeSteps, Boot, Writes, NodeTasks, PeopleSteps, BleLoop

LEMMA BleFlagStep ==
  ASSUME BleTyped, LivesNext
  PROVE  BleTyped'
<1>1. CASE BleKeeps
  <2>1. CASE mode' = "off"
    BY <1>1, <2>1 DEF BleKeeps, BleLost, BleTyped
  <2>2. CASE mode' # "off"
    BY <1>1, <2>2 DEF BleKeeps, bleVars, mailVars, BleTyped
  <2> QED
    BY <2>1, <2>2
<1>2. CASE BleHandle
  BY <1>2
     DEF BleHandle, CmdRefused, CmdFactoryReset, CmdAuth, CmdSetDeviceId, CmdRegister, Carry,
         CmdTrustRound, CmdTrustSign, CmdWalletRead, CmdWalletBackup, CmdWifiSet, mailVars, BleTyped
<1>3. CASE BleNext
  <2>1. auth' \in BOOLEAN /\ wifiPending' \in BOOLEAN
    BY <1>3 DEF BleNext
  <2>2. full' = full \/ full' = FALSE
    BY <1>3 DEF BleNext
  <2> QED
    BY <2>1, <2>2, <1>3 DEF BleNext, BleTyped
<1>4. CASE BleTail
  BY <1>4 DEF BleTail, mailVars, BleTyped
<1>5. CASE WriteEnds \/ AppConnects \/ \E c \in Commands : WriteBegins(c)
  BY <1>5 DEF WriteEnds, AppConnects, WriteBegins, mailVars, BleTyped
<1>6. CASE AppLeaves
  <2>1. adv' \in BOOLEAN
    BY <1>6 DEF AppLeaves
  <2> QED
    BY <2>1, <1>6 DEF AppLeaves, mailVars, BleTyped
<1> QED
  BY <1>1, <1>2, <1>3, <1>4, <1>5, <1>6, StepsOf DEF BleLoop, MailSteps

------------------------------------------------------------------------------
(* The theorems.                                                           *)

LEMMA LivesInitially ==
  ASSUME NEW saved \in Nvs, LivesInitWith(saved)
  PROVE  LivesInv
<1>1. /\ nv = saved /\ flash = [s \in 1..2 |-> IF s = 1 THEN Factory ELSE Torn]
      /\ bootSlot = 1 /\ slot = 1 /\ mode = "off" /\ todo = << >> /\ up = 0
      /\ router = TRUE /\ backend = TRUE /\ radio \in BOOLEAN
      /\ wifi = FALSE /\ lost = 0 /\ down = 0 /\ fallback = FALSE /\ ws = FALSE
      /\ wdg = [active |-> FALSE, confirmed |-> FALSE] /\ armed = FALSE
      /\ proven = {Factory} /\ cut = FALSE /\ upsets = 0 /\ asked = FALSE
  BY DEF LivesInitWith, LifeInitWith
<1>2. /\ app = FALSE /\ adv = TRUE /\ auth = FALSE
      /\ writing = None /\ buf = None /\ full = FALSE
      /\ inHand = None /\ rounds = 0 /\ wifiPending = FALSE
  BY DEF LivesInitWith, BleInit
<1>3. Factory \in Versions /\ Factory # Torn
  BY LifeAssumption
<1>4. StoreTyped
  <2>1. flash \in [1..2 -> Versions \cup {Torn}]
    BY <1>1, <1>3
  <2>2. nv \in Nvs /\ proven \subseteq Versions
    BY <1>1, <1>3
  <2>3. bootSlot \in 1..2 /\ slot \in 1..2
    BY <1>1
  <2>4. asked \in BOOLEAN /\ mode \in {"off", "setup", "node", "ble"}
    BY <1>1
  <2> QED
    BY <2>1, <2>2, <2>3, <2>4 DEF StoreTyped
<1>5. Work
  <2>1. << >> \in Seq(Works) /\ ToSet(<< >>) = {}
    BY DEF ToSet
  <2> QED
    BY <1>1, <2>1, PlainOrdered DEF Work, WorkAllowed, DeletedRestarts, Idle
<1>6. Slots
  <2>1. flash[1] = Factory /\ flash[3 - 1] = Torn
    BY <1>1
  <2>2. AProvenImage
    BY <1>1, <1>3, <2>1 DEF AProvenImage
  <2> QED
    BY <1>1, <2>2 DEF Slots, SlotKnown, SessionProves
<1>7. MailKept
  BY <1>2 DEF MailKept
<1>8. TimesTyped
  BY <1>1, <1>2, LivesAssumption, BleAssumption DEF TimesTyped
<1>9. FlagsTyped
  BY <1>1, <1>2 DEF FlagsTyped, WorldTyped, LinkTyped, GuardTyped, BleTyped
<1> QED
  BY <1>4, <1>5, <1>6, <1>7, <1>8, <1>9 DEF LivesInv

LEMMA LivesStep ==
  ASSUME LivesInv, [LivesNext]_livesVars
  PROVE  LivesInv'
<1>1. CASE LivesNext
  <2>1. Core'
    BY <1>1, CoreStep DEF LivesInv, Core
  <2>2. MailKept' /\ TimesTyped'
    BY <1>1, MailStep, TimesStep DEF LivesInv
  <2>3. WorldTyped' /\ LinkTyped' /\ BleTyped'
    BY <1>1, WorldStep, LinkStep, BleFlagStep DEF LivesInv, FlagsTyped
  <2>4. GuardTyped'
    BY <1>1, GuardStep DEF LivesInv, FlagsTyped, StoreTyped
  <2> QED
    BY <2>1, <2>2, <2>3, <2>4 DEF LivesInv, Core, FlagsTyped
<1>2. CASE UNCHANGED livesVars
  <2>1. Core'
    BY <1>2, Quiet DEF LivesInv, Core, livesVars, lifeVars, bootVars, linkVars, Same, ProofKept,
                       AskedKept, StoreTyped
  <2>2. MailKept'
    BY <1>2 DEF LivesInv, livesVars, bleVars, mailVars, MailKept
  <2>3. TimesTyped'
    BY <1>2 DEF LivesInv, livesVars, lifeVars, bootVars, linkVars, bleVars, TimesTyped
  <2>4. WorldTyped' /\ LinkTyped' /\ GuardTyped'
    BY <1>2 DEF LivesInv, FlagsTyped, livesVars, lifeVars, linkVars, guardVars, worldVars,
                WorldTyped, LinkTyped, GuardTyped
  <2>5. BleTyped'
    BY <1>2 DEF LivesInv, FlagsTyped, livesVars, bleVars, mailVars, BleTyped
  <2> QED
    BY <2>1, <2>2, <2>3, <2>4, <2>5 DEF LivesInv, Core, FlagsTyped
<1> QED
  BY <1>1, <1>2

\* The inductive invariant: what may be left to do in which mode, which image is
\* proven, and when the mailbox is closed (SENSMOS_Firmware.ino, ota.cpp,
\* ble_config.cpp).
THEOREM LivesInvariant == LivesSpec => []LivesInv
<1>1. (\E saved \in Nvs : LivesInitWith(saved)) => LivesInv
  BY LivesInitially
<1>2. LivesInv /\ [LivesNext]_livesVars => LivesInv'
  BY LivesStep
<1> QED
  BY <1>1, <1>2, PTL DEF LivesSpec

\* Wherever the power fails, there is an image to start from, and one that has
\* been online (ota.cpp:60-170, 190-205).
THEOREM ProvenImageStays == LivesSpec => []AProvenImage
<1>1. LivesInv => AProvenImage
  BY DEF LivesInv, Slots
<1> QED
  BY <1>1, LivesInvariant, PTL

\* Types, the mailbox, and a deleted node (ble_config.cpp:203-225, 655-660,
\* .ino:133-137, ws_client.cpp:367).
THEOREM LivesAlwaysConsistent == LivesSpec => []LivesConsistent
<1>1. LivesInv => LivesTypeOK
  <2> SUFFICES ASSUME LivesInv PROVE LivesTypeOK
    OBVIOUS
  <2>1. StoreTyped /\ todo \in Seq(Works) /\ MailKept /\ TimesTyped /\ FlagsTyped
    BY DEF LivesInv, Work, Ordered
  <2>2. {router, backend, radio, wifi, fallback, ws, armed, cut, app, adv, auth, full,
         wifiPending} \subseteq BOOLEAN
    BY <2>1 DEF FlagsTyped, WorldTyped, LinkTyped, GuardTyped, BleTyped
  <2>3. {writing, buf, inHand} \subseteq Commands \cup {None, Torn}
    BY <2>1 DEF MailKept
  <2>4. wdg \in [active : BOOLEAN, confirmed : BOOLEAN]
    BY <2>1 DEF FlagsTyped, GuardTyped
  <2> QED
    BY <2>1, <2>2, <2>3, <2>4 DEF LivesTypeOK, StoreTyped, TimesTyped
<1>2. LivesInv => MailWhole
  BY BleAssumption DEF LivesInv, MailKept, MailWhole
<1>3. LivesInv => DeletedStaysHome
  BY DEF LivesInv, Work, DeletedRestarts, RestartFirst, DeletedStaysHome, Idle
<1>4. LivesInv => LivesConsistent
  BY <1>1, <1>2, <1>3 DEF LivesConsistent
<1> QED
  BY <1>4, LivesInvariant, PTL

\* No step writes NVS but those of the loop.
LEMMA NvKept ==
  ASSUME LivesNext, nv' # nv
  PROVE  BootForced \/ WriteNext
<1>1. CASE LifeSteps
  BY <1>1 DEF LifeSteps, Boot, PowerOn, BootDeleted, BootNew, BootNode, BootWifiFailed,
     BleStart, Writes, RestartNext, FlashNext, RollBackNext, ConnectNext, NodeTasks, WatchdogTick,
     WifiReboot, Identified, SessionLost, LinkNoticed, LossNoticed, FallbackTick, OtaConfirmed, OtaTimeout,
     MinutePasses, Tick, RouterBack, RouterFails, BackendMoves, PowerFails, PeopleSteps, WsDeleted,
     WsReboot, OtaHandle, ButtonBle, HttpBleMode, HttpReboot, SerialUnregister, SerialDone, SerialSetWifi,
     HttpNodeConfirm, Begin, bootVars
<1>2. CASE ResetSteps
  BY <1>2 DEF ResetSteps, ButtonReset, HttpReset, SerialReset, Begin
<1>3. CASE BleHandle
  BY <1>3
     DEF BleHandle, CmdRefused, CmdFactoryReset, CmdAuth, CmdSetDeviceId, CmdRegister, Carry,
         CmdTrustRound, CmdTrustSign, CmdWalletRead, CmdWalletBackup, CmdWifiSet
<1>4. CASE BleNext \/ BleTail \/ MailSteps \/ AppConnects
  BY <1>4 DEF BleNext, BleTail, MailSteps, WriteEnds, AppLeaves, AppConnects, WriteBegins,
     lifeVars, bootVars
<1> QED
  BY <1>1, <1>2, <1>3, <1>4, StepsOf DEF BleLoop

\* A registration, an update, a deletion and a timed-out onboarding keep the
\* identity and the wallet's copy, with the power failing anywhere; the identity
\* goes with a factory reset somebody has asked for (ble_config.cpp:75-98,
\* .ino:48-88).
THEOREM IdentityNeverLost == LivesSpec => IdentityKept
<1> DEFINE Keeps == /\ nv.key # None /\ nv'.key = None => asked
                    /\ nv.wallet # None => nv'.wallet # None
<1>1. LivesInv /\ [LivesNext]_livesVars => [Keeps]_livesVars
  <2> SUFFICES ASSUME LivesInv, LivesNext PROVE Keeps
    OBVIOUS
  <2>1. CASE nv' = nv
    BY <2>1
  <2>2. CASE BootForced
    BY <2>2 DEF BootForced, LivesInv, StoreTyped, Nvs
  <2>3. CASE WriteNext
    <3>1. todo # << >> /\ Ordered(todo) /\ nv \in Nvs
      BY <2>3 DEF WriteNext, LivesInv, Work, StoreTyped, Idle
    <3>2. Head(todo) \in Works /\ Head(todo) \in ToSet(todo)
      BY <3>1, Rest
    <3>3. Head(todo).op \in {"put", "clear"} /\ nv' = Written(Head(todo))
      BY <2>3 DEF WriteNext
    <3>4. /\ nv.key # None /\ nv'.key = None => ClearsIdentity(Head(todo))
          /\ nv.wallet # None => nv'.wallet # None
      BY <3>1, <3>2, <3>3, WriteKeeps
    <3>5. ClearsIdentity(Head(todo)) => asked
      BY <3>2 DEF LivesInv, Work, WorkAllowed, Allowed
    <3> QED
      BY <3>4, <3>5
  <2> QED
    BY <2>1, <2>2, <2>3, NvKept
<1> QED
  BY <1>1, LivesInvariant, PTL DEF LivesSpec, IdentityKept
==============================================================================
