-------------------------- MODULE NrfNodeProofs --------------------------
(***************************************************************************)
(* Proofs about a node of the nRF52840 port, for all namespaces, keys and  *)
(* values that have the node's among them.  First the store alone          *)
(* (PrefsStore): its types, and that no order of calls and power failures  *)
(* loses a value outside the one window that Durable excepts.  Then the    *)
(* whole node (NrfNode): it calls the store as the store expects, between  *)
(* two handlers RAM is what the files say, and what it signs verifies.     *)
(***************************************************************************)
EXTENDS NrfNode, TLAPS

(***************************************************************************)
(* The inductive invariant.  A save is about to put its document in the    *)
(* place of the file: what the document holds, what the temp holds and     *)
(* that the file is gone by then have to be known for each of its steps.   *)
(***************************************************************************)
DocIsWanted == open # None => doc = want
SavesTheOpenOne == saving # "no" => open # None

TempIsWritten ==
    /\ saving = "close" => temp[open] = TornFile
    /\ saving \in {"unlink", "rename"} => temp[open] \in {Whole(doc), TornFile}

FileIsUnlinked == saving = "rename" => file[open] = Missing

PrefsInv ==
    /\ PrefsTypeOK
    /\ DocIsWanted
    /\ SavesTheOpenOne
    /\ TempIsWritten
    /\ FileIsUnlinked
    /\ Durable

USE DEF PrefsInv, DocIsWanted, SavesTheOpenOne, TempIsWritten, FileIsUnlinked

\* The three kinds of file, and what they read as.
LEMMA FileKinds ==
  /\ EmptyDoc \in Docs
  /\ Missing \in Files /\ TornFile \in Files
  /\ Missing.doc = EmptyDoc /\ TornFile.doc = EmptyDoc /\ TornFile.is # "whole"
  /\ \A d \in Docs : Whole(d) \in Files /\ Whole(d).doc = d /\ Whole(d).is = "whole"
BY DEF EmptyDoc, Docs, Files, Missing, TornFile, Whole

\* A document read from a file, and one the ledger holds, is a document.
LEMMA DocsRead ==
  ASSUME PrefsTypeOK, NEW n \in Namespaces
  PROVE  file[n].doc \in Docs /\ Settled(n) \in Docs
<1>1. file[n] \in Files /\ ledger[n] \in Docs
  BY DEF PrefsTypeOK
<1>2. file[n].doc \in Docs
  BY <1>1, FileKinds DEF Files
<1> QED BY <1>1, <1>2, FileKinds DEF Settled

LEMMA PrefsInvInit == ASSUME PrefsInit PROVE PrefsInv
<1>1. PrefsTypeOK
  BY FileKinds DEF PrefsInit, PrefsTypeOK
<1>2. Durable
  BY FileKinds DEF PrefsInit, Durable, Settled
<1> QED BY <1>1, <1>2 DEF PrefsInit

\* Opening a namespace finds what its ledger says.
LEMMA PrefsInvBegin ==
  ASSUME PrefsInv, NEW n \in Namespaces, PrefsBegin(n)
  PROVE  PrefsInv'
<1>1. open = None /\ saving = "no" /\ saving' = "no" /\ open' = n /\ file' = file
  BY DEF PrefsBegin
<1>2. file[n].doc = Settled(n) /\ Settled(n) \in Docs
  BY <1>1, DocsRead DEF Durable
<1>3. PrefsTypeOK'
  BY <1>1, <1>2, FileKinds DEF PrefsTypeOK, PrefsBegin
<1>4. Durable'
  <2> SUFFICES ASSUME NEW m \in Namespaces
               PROVE  file[m].doc = Settled(m)'
    BY <1>1 DEF Durable
  <2>1. file[m].doc = Settled(m)
    BY <1>1 DEF Durable
  <2>2. Settled(m)' = Settled(m)
    BY DEF PrefsBegin, PrefsTypeOK, Settled
  <2> QED BY <2>1, <2>2
<1> QED BY <1>1, <1>2, <1>3, <1>4 DEF PrefsBegin

\* A put and an end touch no file.
LEMMA PrefsInvPut ==
  ASSUME PrefsInv, NEW k \in PrefsKeys, NEW v \in PrefsValues \cup {None}, PrefsPut(k, v)
  PROVE  PrefsInv'
<1>1. open # None /\ saving = "no" /\ saving' = "open" /\ open' = open
  BY DEF PrefsPut
<1>2. doc' = want' /\ doc' \in Docs
  BY <1>1 DEF PrefsPut, PrefsTypeOK, Docs
<1>3. PrefsTypeOK'
  BY <1>1, <1>2 DEF PrefsTypeOK, PrefsPut, fsVars
<1>4. Durable'
  BY <1>1 DEF Durable, Settled, PrefsPut, fsVars
<1> QED BY <1>1, <1>2, <1>3, <1>4

LEMMA PrefsInvEnd == ASSUME PrefsInv, PrefsEnd PROVE PrefsInv'
<1>1. PrefsTypeOK'
  BY FileKinds DEF PrefsEnd, PrefsTypeOK, fsVars
<1>2. Durable'
  BY DEF PrefsEnd, Durable, Settled, fsVars
<1> QED BY <1>1, <1>2 DEF PrefsEnd

LEMMA PrefsInvClear == ASSUME PrefsInv, PrefsClear PROVE PrefsInv'
<1>1. open # None /\ open \in Namespaces /\ saving = "no" /\ UNCHANGED <<temp, open, saving>>
  BY DEF PrefsClear, PrefsTypeOK
<1>2. PrefsTypeOK'
  BY <1>1, FileKinds DEF PrefsClear, PrefsTypeOK
<1>3. Durable'
  <2> SUFFICES ASSUME NEW m \in Namespaces
               PROVE  file'[m].doc = Settled(m)'
    BY <1>1 DEF Durable
  <2>1. file[m].doc = Settled(m)
    BY <1>1 DEF Durable
  <2>2. CASE m = open
    BY <1>1, <2>2, FileKinds DEF PrefsClear, PrefsTypeOK, Settled
  <2>3. CASE m # open
    <3>1. file'[m] = file[m] /\ ledger'[m] = ledger[m] /\ (m \in gone' <=> m \in gone)
      BY <1>1, <2>3 DEF PrefsClear, PrefsTypeOK
    <3> QED BY <2>1, <3>1 DEF Settled
  <2> QED BY <2>2, <2>3
<1> QED BY <1>1, <1>2, <1>3 DEF PrefsClear

\* Up to the removal of the file, a save touches the temp only.
LEMMA PrefsInvSaves ==
  ASSUME PrefsInv, SaveOpens \/ SaveCloses \/ SaveRunsShort \/ SaveRefused
  PROVE  PrefsInv'
<1>1. /\ open \in Namespaces /\ open # None /\ doc \in Docs /\ saving \in {"open", "close"}
      /\ UNCHANGED <<file, open, doc, want, ledger, gone>>
  BY DEF SaveOpens, SaveCloses, SaveRunsShort, SaveRefused, fsVars, PrefsTypeOK
<1>2. Durable'
  BY <1>1 DEF Durable, Settled, SaveOpens, SaveCloses, SaveRunsShort, SaveRefused
<1>3. TempIsWritten' /\ PrefsTypeOK' /\ saving' # "rename"
  <2>1. CASE SaveOpens
    BY <1>1, <2>1, FileKinds DEF SaveOpens, PrefsTypeOK
  <2>2. CASE SaveCloses
    BY <1>1, <2>2, FileKinds DEF SaveCloses, PrefsTypeOK
  <2>3. CASE SaveRunsShort
    BY <1>1, <2>3 DEF SaveRunsShort, PrefsTypeOK, fsVars
  <2>4. CASE SaveRefused
    BY <1>1, <2>4, FileKinds DEF SaveRefused, PrefsTypeOK
  <2> QED BY <2>1, <2>2, <2>3, <2>4
<1> QED BY <1>1, <1>2, <1>3

LEMMA PrefsInvUnlinks == ASSUME PrefsInv, SaveUnlinks PROVE PrefsInv'
<1>1. /\ open \in Namespaces /\ saving = "unlink" /\ saving' = "rename"
      /\ UNCHANGED <<temp, open, doc, want, ledger, gone>>
  BY DEF SaveUnlinks, PrefsTypeOK
<1>2. file'[open] = Missing /\ \A m \in Namespaces \ {open} : file'[m] = file[m]
  BY <1>1 DEF SaveUnlinks, PrefsTypeOK
<1>3. PrefsTypeOK'
  BY <1>1, FileKinds DEF SaveUnlinks, PrefsTypeOK
<1>4. Durable'
  BY <1>1, <1>2 DEF Durable, Settled
<1> QED BY <1>1, <1>2, <1>3, <1>4

\* The temp takes the place of the file: either it is the whole document, or
\* the namespace is counted as lost.
LEMMA PrefsInvRenames == ASSUME PrefsInv, SaveRenames PROVE PrefsInv'
<1>1. /\ open \in Namespaces /\ open # None /\ doc = want /\ doc \in Docs /\ want \in Docs
      /\ saving = "rename" /\ saving' = "no" /\ UNCHANGED <<open, doc, want>>
  BY DEF SaveRenames, PrefsTypeOK
<1>2. temp[open] \in {Whole(doc), TornFile}
  BY <1>1
<1>3. PrefsTypeOK'
  BY <1>1, <1>2, FileKinds DEF SaveRenames, PrefsTypeOK
<1>4. Durable'
  <2> SUFFICES ASSUME NEW m \in Namespaces
               PROVE  file'[m].doc = Settled(m)'
    BY <1>1 DEF Durable
  <2>1. CASE m = open
    <3>1. file'[m] = temp[open] /\ ledger'[m] = doc
      BY <1>1, <2>1 DEF SaveRenames, PrefsTypeOK
    <3>2. CASE temp[open] = Whole(doc)
      <4>1. m \notin gone'
        BY <1>1, <2>1, <3>2, FileKinds DEF SaveRenames
      <4> QED BY <1>1, <3>1, <3>2, <4>1, FileKinds DEF Settled
    <3>3. CASE temp[open] = TornFile
      <4>1. m \in gone'
        BY <1>1, <2>1, <3>3, FileKinds DEF SaveRenames
      <4> QED BY <3>1, <3>3, <4>1, FileKinds DEF Settled
    <3> QED BY <1>2, <3>2, <3>3
  <2>2. CASE m # open
    <3>1. file'[m] = file[m] /\ ledger'[m] = ledger[m] /\ (m \in gone' <=> m \in gone)
      BY <1>1, <2>2 DEF SaveRenames, PrefsTypeOK
    <3> QED BY <1>1, <2>2, <3>1 DEF Durable, Settled
  <2> QED BY <2>1, <2>2
<1> QED BY <1>1, <1>3, <1>4

LEMMA PrefsInvNotRenamed == ASSUME PrefsInv, SaveNotRenamed PROVE PrefsInv'
<1>1. /\ open \in Namespaces /\ open # None /\ want \in Docs /\ file[open] = Missing
      /\ saving = "rename" /\ saving' = "no" /\ UNCHANGED <<file, open, doc, want>>
  BY DEF SaveNotRenamed, PrefsTypeOK
<1>2. PrefsTypeOK'
  BY <1>1, FileKinds DEF SaveNotRenamed, PrefsTypeOK
<1>3. Durable'
  <2> SUFFICES ASSUME NEW m \in Namespaces
               PROVE  file[m].doc = Settled(m)'
    BY <1>1 DEF Durable
  <2>1. CASE m = open
    BY <1>1, <2>1, FileKinds DEF SaveNotRenamed, Settled
  <2>2. CASE m # open
    <3>1. ledger'[m] = ledger[m] /\ (m \in gone' <=> m \in gone)
      BY <1>1, <2>2 DEF SaveNotRenamed, PrefsTypeOK
    <3> QED BY <1>1, <2>2, <3>1 DEF Durable, Settled
  <2> QED BY <2>1, <2>2
<1> QED BY <1>1, <1>2, <1>3

\* A power failure takes the namespace whose file is between its two names.
LEMMA PrefsInvLost == ASSUME PrefsInv, PrefsLost PROVE PrefsInv'
<1>1. open' = None /\ saving' = "no" /\ UNCHANGED <<file, temp, ledger>>
  BY DEF PrefsLost, fsVars
<1>2. PrefsTypeOK'
  BY <1>1, FileKinds DEF PrefsLost, PrefsTypeOK
<1>3. Durable'
  <2> SUFFICES ASSUME NEW m \in Namespaces
               PROVE  file[m].doc = Settled(m)'
    BY <1>1 DEF Durable
  <2>1. CASE saving = "rename" /\ m = open
    BY <1>1, <2>1, FileKinds DEF PrefsLost, Settled
  <2>2. CASE ~(saving = "rename" /\ m = open)
    <3>1. ledger'[m] = ledger[m] /\ (m \in gone' <=> m \in gone)
      BY <1>1, <2>2 DEF PrefsLost
    <3> QED BY <2>2, <3>1 DEF Durable, Settled
  <2> QED BY <2>1, <2>2
<1> QED BY <1>1, <1>2, <1>3

LEMMA PrefsInvNext == ASSUME PrefsInv, [PrefsNext]_prefsVars PROVE PrefsInv'
<1>1. CASE UNCHANGED prefsVars
  BY <1>1 DEF prefsVars, fsVars, ramDocVars, PrefsTypeOK, Durable, Settled
<1> QED
  BY <1>1, PrefsInvBegin, PrefsInvPut, PrefsInvEnd, PrefsInvClear, PrefsInvSaves,
     PrefsInvUnlinks, PrefsInvRenames, PrefsInvNotRenamed, PrefsInvLost
     DEF PrefsNext, SaveStep, SaveFault

\* Every reachable state of the store satisfies the inductive invariant.
THEOREM PrefsInvariant == PrefsSpec => []PrefsInv
<1>1. PrefsInit => PrefsInv
  BY PrefsInvInit
<1>2. PrefsInv /\ [PrefsNext]_prefsVars => PrefsInv'
  BY PrefsInvNext
<1> QED BY <1>1, <1>2, PTL DEF PrefsSpec

\* Files, document and ledger stay what they are (prefs_store.cpp:61-232).
THEOREM PrefsTypes == PrefsSpec => []PrefsTypeOK
<1>1. PrefsInv => PrefsTypeOK
  OBVIOUS
<1> QED BY <1>1, PrefsInvariant, PTL

\* A value that was saved is there until it is changed, whatever fails and
\* whenever, but for the namespace whose save is between unlink and rename
\* (prefs_store.cpp:74-106).
THEOREM PrefsDurable == PrefsSpec => []Durable
<1>1. PrefsInv => Durable
  OBVIOUS
<1> QED BY <1>1, PrefsInvariant, PTL

HIDE DEF PrefsInv, DocIsWanted, SavesTheOpenOne, TempIsWritten, FileIsUnlinked

------------------------------------------------------------------------------
(***************************************************************************)
(* The node: the inductive invariant.  It goes by what the loop has still  *)
(* to do.  A load that is pending has not happened; a put that is pending  *)
(* is of the value RAM has already; with neither pending, RAM and document *)
(* agree.                                                                  *)
(***************************************************************************)

\* Ids and regions are the only values of their keys.
Fits(k, v) ==
    /\ k = "id_ovr" => v \in {None, "id"}
    /\ k = "region" => v \in Regions \cup {None}
DocFits(d) == \A k \in PrefsKeys : Fits(k, d[k])
StoreFits == DocFits(doc) /\ \A n \in Namespaces : DocFits(file[n].doc) /\ DocFits(temp[n].doc)

Tasks == {"end", "keys", "token", "identity", "config", "mesh", "region", "run", "clear",
          "restart", "auth", "authok", "free"}
Works ==
    {Begin(n) : n \in Namespaces}
    \cup {w \in {Put(k, v) : k \in PrefsKeys, v \in PrefsValues \cup {None}} : Fits(w.arg, w.val)}
    \cup {Do(t) : t \in Tasks}

SensmosKeys == {"privkey", "pubkey", "api_token", "id_ovr", "pin", "owner", "backend_url"}
MeshKeys == {"enabled", "channel", "psk", "portnum", "region"}

\* The namespace that a piece of work finds open.
NsOf(w) ==
    IF w.op \in {"keys", "token", "identity", "config"} \/ (w.op = "put" /\ w.arg \in SensmosKeys)
    THEN "sensmos"
    ELSE IF w.op \in {"mesh", "region"} \/ (w.op = "put" /\ w.arg \in MeshKeys)
    THEN "sensmos_mesh"
    ELSE None

Follows(v, w) == NsOf(w) # None => v = Begin(NsOf(w)) \/ NsOf(v) = NsOf(w)

\* In which order the work is done: inside begin .. end of its namespace, the
\* keys before the id that is made from them, a clear before the restart.
Ordered(q) ==
    /\ q \in Seq(Works)
    /\ \A i \in 1 .. Len(q) :
          /\ i < Len(q) => Follows(q[i], q[i + 1])
          /\ q[i].op = "keys" => /\ \E j \in i + 1 .. Len(q) : q[j] = Do("identity")
                                 /\ \A j \in i + 1 .. Len(q) : q[j].op # "keys"
          /\ q[i].op = "clear" => \E j \in i + 1 .. Len(q) : q[j] = Restart
          /\ q[i].op = "auth" => i + 1 = Len(q) /\ q[i + 1] = Do("free")

Pending(w) == w \in ToSet(todo)

OpensFirst == todo # << >> /\ NsOf(todo[1]) # None => open = NsOf(todo[1])
OffIsEmpty == mode = "off" => todo = << >> /\ ram = Zero /\ open = None /\ saving = "no"
Work == Ordered(todo) /\ OpensFirst /\ OffIsEmpty

\* The file has what the document has, or the save is not over.
DocSaved ==
    ~failed => /\ open # None /\ saving = "no" => file[open].doc = doc
               /\ saving \in {"unlink", "rename"} => temp[open] = Whole(doc)

MirrorKeys == {"privkey", "pubkey", "id_ovr", "owner", "enabled", "channel", "psk", "portnum",
               "region"}
Home(k) == IF k \in MeshKeys THEN "sensmos_mesh" ELSE "sensmos"
Load(k) ==
    CASE k \in {"privkey", "pubkey"} -> Do("keys")
      [] k = "id_ovr" -> Do("identity")
      [] k = "owner" -> Do("config")
      [] k \in {"enabled", "channel", "psk", "portnum"} -> Do("mesh")
      [] k = "region" -> Do("region")

\* Globals r are what they would be with the value v loaded for the key k.
Mirrors(r, k, v) ==
    /\ k = "privkey" => r.priv = v
    /\ k = "pubkey" => r.pub = v
    /\ k = "id_ovr" => r.dev = Default(v, r.pub)
    /\ k = "owner" => r.owner = v
    /\ k = "enabled" => r.meshOn = (v # "off")
    /\ k = "channel" => r.mesh.channel = Default(v, MeshCfgDefault.channel)
    /\ k = "psk" => r.mesh.psk = Default(v, MeshCfgDefault.psk)
    /\ k = "portnum" => r.mesh.portnum = Default(v, MeshCfgDefault.portnum)
    /\ k = "region" => r.region = Default(v, RegionDefault)

PutsOf(q, k) == {w \in ToSet(q) : w.op = "put" /\ w.arg = k}
DocOf(n) == IF open = n THEN doc ELSE file[n].doc

Mirrored(k) ==
    /\ \A w \in PutsOf(todo, k) : Mirrors(ram, k, w.val)
    /\ PutsOf(todo, k) = {} => Mirrors(ram, k, DocOf(Home(k))[k])

RamMirrors ==
    mode # "off" /\ ~failed /\ ~Pending(Restart) =>
        \A k \in MirrorKeys : ~Pending(Load(k)) => Mirrored(k)
LoadsAlone == \A k \in MirrorKeys : Pending(Load(k)) => PutsOf(todo, k) = {}

\* The id is that of the key, once it is made, or the one the app gave.
IdOfKey ==
    /\ Pending(Do("keys")) => ram.priv = None
    /\ ram.priv # None /\ ~Pending(Do("identity")) => ram.dev \in {ram.pub, "id"}

Stored == PrefsValues \cup {None}
RamTyped ==
    ram \in [priv : Stored, pub : Stored, dev : Stored, owner : Stored,
             pin : Stored \cup {"123456"}, meshOn : BOOLEAN, mesh : MeshCfgs, region : Regions,
             synced : BOOLEAN, on : BOOLEAN, slot : Slots]
BatchTyped(q) ==
    q \in [batch : Seq([dev : Stored, owner : Stored, priv : Stored, pub : Stored]),
           frag : 0 .. NFrag - 1]
CoreTyped ==
    mode \in {"off", "setup", "run"} /\ radio \in BOOLEAN /\ RamTyped /\ failed \in BOOLEAN
NodeTyped ==
    /\ app \in BOOLEAN /\ auth \in BOOLEAN /\ full \in BOOLEAN /\ rounds \in 0 .. TRUST_MAX_ROUNDS
    /\ g_pending_send \in BOOLEAN /\ since \in [send : 0 .. FORCE_SEND_INTERVAL, health : 0 .. 1]
    /\ BatchTyped(up) /\ BatchTyped(mesh)

LoopInv == CoreTyped /\ Work /\ RamMirrors /\ LoadsAlone /\ IdOfKey
CoreInv == PrefsInv /\ StoreFits /\ DocSaved /\ LoopInv

NrfInv == CoreInv /\ NodeTyped /\ SlotWhole /\ SignsWhatItShould

------------------------------------------------------------------------------
(* Sequences of work.                                                      *)

\* Work that stands anywhere.
Plain(w) == w.op \notin {"keys", "clear", "auth"}

LEMMA PlainOrdered ==
  ASSUME NEW q \in Seq(Works), \A w \in ToSet(q) : Plain(w),
         \A i \in 1 .. Len(q) : i < Len(q) => Follows(q[i], q[i + 1])
  PROVE  Ordered(q)
<1>1. \A i \in 1 .. Len(q) : Plain(q[i])
  BY DEF ToSet
<1> QED
  BY <1>1 DEF Ordered, Plain

\* What is left when the first piece of work is done.
LEMMA Rest ==
  ASSUME NEW q, Ordered(q), q # << >>
  PROVE  /\ Head(q) = q[1] /\ Head(q) \in Works /\ Head(q) \in ToSet(q)
         /\ Ordered(Tail(q)) /\ ToSet(q) = ToSet(Tail(q)) \cup {Head(q)}
         /\ Tail(q) # << >> => Follows(q[1], Tail(q)[1])
         /\ q[1].op = "keys" => /\ Do("identity") \in ToSet(Tail(q))
                                /\ \A w \in ToSet(Tail(q)) : w.op # "keys"
         /\ q[1].op = "clear" => Restart \in ToSet(Tail(q))
         /\ q[1].op = "auth" => Tail(q) = <<Do("free")>>
<1> DEFINE t == Tail(q)
<1>1. q \in Seq(Works) /\ Len(q) \in Nat /\ Len(q) > 0
  BY DEF Ordered
<1>2. /\ t \in Seq(Works) /\ Len(t) = Len(q) - 1 /\ Len(t) \in Nat
      /\ \A i \in 1 .. Len(t) : t[i] = q[i + 1] /\ i + 1 \in 1 .. Len(q)
      /\ Head(q) = q[1] /\ 1 \in 1 .. Len(q)
  BY <1>1
<1> HIDE DEF t
<1>e. Len(t) = 0 => t = << >>
  BY <1>2
<1>o. /\ \A i \in 1 .. Len(q) : i < Len(q) => Follows(q[i], q[i + 1])
      /\ \A i \in 1 .. Len(q) : q[i].op = "keys" => /\ \E j \in i + 1 .. Len(q) : q[j] = Do("identity")
                                                    /\ \A j \in i + 1 .. Len(q) : q[j].op # "keys"
      /\ \A i \in 1 .. Len(q) : q[i].op = "clear" => \E j \in i + 1 .. Len(q) : q[j] = Restart
      /\ \A i \in 1 .. Len(q) : q[i].op = "auth" => i + 1 = Len(q) /\ q[i + 1] = Do("free")
  BY DEF Ordered
<1>3. Head(q) = q[1] /\ Head(q) \in Works /\ Head(q) \in ToSet(q)
  BY <1>1, <1>2 DEF ToSet
<1>4. ToSet(q) = ToSet(t) \cup {Head(q)}
  <2>1. ASSUME NEW w \in ToSet(q) PROVE w \in ToSet(t) \cup {Head(q)}
    <3>1. PICK i \in 1 .. Len(q) : w = q[i]
      BY DEF ToSet
    <3>2. CASE i = 1
      BY <3>1, <3>2, <1>2
    <3>3. CASE i # 1
      <4>1. i - 1 \in 1 .. Len(t) /\ (i - 1) + 1 = i
        BY <3>3, <1>1, <1>2
      <4>2. t[i - 1] = w
        BY <4>1, <3>1, <1>2
      <4> QED
        BY <4>1, <4>2 DEF ToSet
    <3> QED
      BY <3>2, <3>3
  <2>2. ToSet(t) \subseteq ToSet(q)
    BY <1>1, <1>2 DEF ToSet
  <2> QED
    BY <2>1, <2>2, <1>3
<1>5. ASSUME NEW i \in 1 .. Len(t), NEW j \in i + 2 .. Len(q)
      PROVE  j - 1 \in i + 1 .. Len(t) /\ t[j - 1] = q[j]
  <2>1. j - 1 \in 1 .. Len(t) /\ (j - 1) + 1 = j /\ j - 1 \in i + 1 .. Len(t)
    BY <1>1, <1>2
  <2> QED
    BY <2>1, <1>2
<1>6. Ordered(t)
  <2> SUFFICES ASSUME NEW i \in 1 .. Len(t)
               PROVE  /\ i < Len(t) => Follows(t[i], t[i + 1])
                      /\ t[i].op = "keys" => /\ \E j \in i + 1 .. Len(t) : t[j] = Do("identity")
                                             /\ \A j \in i + 1 .. Len(t) : t[j].op # "keys"
                      /\ t[i].op = "clear" => \E j \in i + 1 .. Len(t) : t[j] = Restart
                      /\ t[i].op = "auth" => i + 1 = Len(t) /\ t[i + 1] = Do("free")
    BY <1>2 DEF Ordered
  <2>1. t[i] = q[i + 1] /\ i + 1 \in 1 .. Len(q) /\ i \in Nat
    BY <1>2
  <2>2. ASSUME i < Len(t) PROVE Follows(t[i], t[i + 1])
    <3>1. i + 1 \in 1 .. Len(t) /\ i + 1 < Len(q)
      BY <2>2, <1>2, <2>1
    <3>2. t[i + 1] = q[(i + 1) + 1]
      BY <3>1, <1>2
    <3> QED
      BY <3>1, <3>2, <2>1, <1>o
  <2>3. ASSUME t[i].op = "keys"
        PROVE  /\ \E j \in i + 1 .. Len(t) : t[j] = Do("identity")
               /\ \A j \in i + 1 .. Len(t) : t[j].op # "keys"
    <3>1. /\ \E j \in (i + 1) + 1 .. Len(q) : q[j] = Do("identity")
          /\ \A j \in (i + 1) + 1 .. Len(q) : q[j].op # "keys"
      BY <2>1, <2>3, <1>o
    <3>2. PICK j \in i + 2 .. Len(q) : q[j] = Do("identity")
      BY <3>1, <2>1
    <3>3. \A k \in i + 1 .. Len(t) : k \in 1 .. Len(t) /\ k + 1 \in (i + 1) + 1 .. Len(q)
      BY <2>1, <1>2
    <3> QED
      BY <3>1, <3>2, <3>3, <1>5, <1>2
  <2>4. ASSUME t[i].op = "clear" PROVE \E j \in i + 1 .. Len(t) : t[j] = Restart
    <3>1. \E j \in (i + 1) + 1 .. Len(q) : q[j] = Restart
      BY <2>1, <2>4, <1>o
    <3>2. PICK j \in i + 2 .. Len(q) : q[j] = Restart
      BY <3>1, <2>1
    <3> QED
      BY <3>2, <1>5
  <2>5. ASSUME t[i].op = "auth" PROVE i + 1 = Len(t) /\ t[i + 1] = Do("free")
    <3>1. (i + 1) + 1 = Len(q) /\ q[(i + 1) + 1] = Do("free")
      BY <2>1, <2>5, <1>o
    <3>2. i + 1 = Len(t) /\ i + 1 \in 1 .. Len(t)
      BY <3>1, <1>2, <2>1
    <3> QED
      BY <3>1, <3>2, <1>2
  <2> QED
    BY <2>2, <2>3, <2>4, <2>5
<1>7. ASSUME t # << >> PROVE Follows(q[1], t[1])
  <2>1. 1 \in 1 .. Len(t) /\ 1 < Len(q)
    BY <1>7, <1>2, <1>e
  <2>2. t[1] = q[1 + 1]
    BY <2>1, <1>2
  <2> QED
    BY <2>1, <2>2, <1>2, <1>o
<1>8. ASSUME NEW j \in 2 .. Len(q) PROVE q[j] \in ToSet(t)
  <2>1. j - 1 \in 1 .. Len(t) /\ (j - 1) + 1 = j
    BY <1>1, <1>2
  <2>2. t[j - 1] = q[j]
    BY <2>1, <1>2
  <2> QED
    BY <2>1, <2>2 DEF ToSet
<1>9. ASSUME q[1].op = "keys"
      PROVE  Do("identity") \in ToSet(t) /\ \A w \in ToSet(t) : w.op # "keys"
  <2>1. /\ \E j \in 2 .. Len(q) : q[j] = Do("identity")
        /\ \A j \in 2 .. Len(q) : q[j].op # "keys"
    BY <1>2, <1>9, <1>o
  <2>2. \A i \in 1 .. Len(t) : i + 1 \in 2 .. Len(q)
    BY <1>2
  <2>3. \A i \in 1 .. Len(t) : t[i].op # "keys"
    BY <2>1, <2>2, <1>2
  <2> QED
    BY <2>1, <2>3, <1>8 DEF ToSet
<1>10. ASSUME q[1].op = "clear" PROVE Restart \in ToSet(t)
  <2>1. \E j \in 2 .. Len(q) : q[j] = Restart
    BY <1>2, <1>10, <1>o
  <2> QED
    BY <2>1, <1>8
<1>11. ASSUME q[1].op = "auth" PROVE t = <<Do("free")>>
  <2>1. 2 = Len(q) /\ q[2] = Do("free")
    BY <1>2, <1>11, <1>o
  <2>2. Len(t) = 1 /\ t[1] = Do("free")
    BY <2>1, <1>2
  <2> QED
    BY <2>2, <1>2
<1> QED
  BY <1>3, <1>4, <1>6, <1>7, <1>9, <1>10, <1>11 DEF t
LEMMA Concatenated ==
  ASSUME NEW S, NEW p \in Seq(S), NEW q \in Seq(S)
  PROVE  p \o q \in Seq(S) /\ ToSet(p \o q) = ToSet(p) \cup ToSet(q)
<1>1. /\ p \o q \in Seq(S) /\ Len(p \o q) = Len(p) + Len(q)
      /\ \A i \in 1 .. Len(p) : (p \o q)[i] = p[i]
      /\ \A i \in 1 .. Len(q) : (p \o q)[Len(p) + i] = q[i]
  OBVIOUS
<1>2. Len(p) \in Nat /\ Len(q) \in Nat
  OBVIOUS
<1>3. ASSUME NEW i \in 1 .. Len(p) + Len(q)
      PROVE  i \in 1 .. Len(p) \/ \E k \in 1 .. Len(q) : i = Len(p) + k
  <2>1. CASE i <= Len(p)
    BY <2>1, <1>2
  <2>2. CASE i > Len(p)
    <3>1. i - Len(p) \in 1 .. Len(q) /\ i = Len(p) + (i - Len(p))
      BY <2>2, <1>2, <1>3
    <3> QED
      BY <3>1
  <2> QED
    BY <2>1, <2>2, <1>2, <1>3
<1>4. ToSet(p \o q) \subseteq ToSet(p) \cup ToSet(q)
  <2> SUFFICES ASSUME NEW i \in 1 .. Len(p) + Len(q)
               PROVE  (p \o q)[i] \in ToSet(p) \cup ToSet(q)
    BY <1>1 DEF ToSet
  <2> QED
    BY <1>1, <1>3 DEF ToSet
<1>5. ToSet(p) \cup ToSet(q) \subseteq ToSet(p \o q)
  <2>1. \A i \in 1 .. Len(p) : i \in 1 .. Len(p \o q)
    BY <1>1, <1>2
  <2>2. \A i \in 1 .. Len(q) : Len(p) + i \in 1 .. Len(p \o q)
    BY <1>1, <1>2
  <2> QED
    <3>1. ASSUME NEW i \in 1 .. Len(p) PROVE p[i] \in ToSet(p \o q)
      <4>1. (p \o q)[i] = p[i] /\ i \in 1 .. Len(p \o q)
        BY <1>1, <2>1
      <4> QED
        BY <4>1 DEF ToSet
    <3>2. ASSUME NEW i \in 1 .. Len(q) PROVE q[i] \in ToSet(p \o q)
      <4>1. (p \o q)[Len(p) + i] = q[i] /\ Len(p) + i \in 1 .. Len(p \o q)
        BY <1>1, <2>2
      <4> QED
        BY <4>1 DEF ToSet
    <3>3. ASSUME NEW x \in ToSet(p) PROVE x \in ToSet(p \o q)
      <4>1. PICK i \in 1 .. Len(p) : x = p[i]
        BY DEF ToSet
      <4> QED
        BY <3>1, <4>1
    <3>4. ASSUME NEW x \in ToSet(q) PROVE x \in ToSet(p \o q)
      <4>1. PICK i \in 1 .. Len(q) : x = q[i]
        BY DEF ToSet
      <4> QED
        BY <3>2, <4>1
    <3> QED
      BY <3>3, <3>4
<1> QED
  BY <1>1, <1>4, <1>5

LEMMA Shown ==
  ASSUME NEW S, NEW a \in S, NEW b \in S, NEW c \in S
  PROVE  /\ << >> \in Seq(S) /\ ToSet(<< >>) = {}
         /\ <<a>> \in Seq(S) /\ ToSet(<<a>>) = {a}
         /\ <<a, b>> \in Seq(S) /\ ToSet(<<a, b>>) = {a, b}
         /\ <<a, b, c>> \in Seq(S) /\ ToSet(<<a, b, c>>) = {a, b, c}
BY DEF ToSet

LEMMA PairShown ==
  ASSUME NEW S, NEW a \in S, NEW b \in S
  PROVE  <<a, b>> \in Seq(S) /\ ToSet(<<a, b>>) = {a, b}
BY Shown

\* Two orderly sequences, the first with no command's end in it.
LEMMA Joined ==
  ASSUME NEW p, NEW q, Ordered(p), Ordered(q), \A w \in ToSet(p) : w.op # "auth",
         (\A w \in ToSet(p) : w.op # "keys") \/ (\A w \in ToSet(q) : w.op # "keys"),
         p # << >> /\ q # << >> => Follows(p[Len(p)], q[1])
  PROVE  Ordered(p \o q) /\ ToSet(p \o q) = ToSet(p) \cup ToSet(q)
<1> DEFINE r == p \o q
<1>1. p \in Seq(Works) /\ q \in Seq(Works) /\ Len(p) \in Nat /\ Len(q) \in Nat
  BY DEF Ordered
<1>2. /\ r \in Seq(Works) /\ Len(r) = Len(p) + Len(q)
      /\ \A i \in 1 .. Len(p) : r[i] = p[i]
      /\ \A i \in 1 .. Len(q) : r[Len(p) + i] = q[i]
  BY <1>1
<1>t. ToSet(r) = ToSet(p) \cup ToSet(q)
  BY <1>1, Concatenated
<1>e. (Len(p) > 0 => p # << >>) /\ (Len(q) > 0 => q # << >>)
  BY <1>1
<1> HIDE DEF r
<1>s. /\ \A j \in 1 .. Len(p) : j \in 1 .. Len(r) /\ r[j] = p[j] /\ p[j] \in ToSet(p)
      /\ \A j \in 1 .. Len(q) : /\ Len(p) + j \in 1 .. Len(r) /\ r[Len(p) + j] = q[j]
                                /\ q[j] \in ToSet(q)
  BY <1>1, <1>2 DEF ToSet
<1>3. ASSUME NEW i \in 1 .. Len(p)
      PROVE  /\ i < Len(r) => Follows(r[i], r[i + 1])
             /\ r[i].op = "keys" => /\ \E j \in i + 1 .. Len(r) : r[j] = Do("identity")
                                    /\ \A j \in i + 1 .. Len(r) : r[j].op # "keys"
             /\ r[i].op = "clear" => \E j \in i + 1 .. Len(r) : r[j] = Restart
             /\ r[i].op # "auth"
  <2>1. /\ r[i] = p[i] /\ i \in Nat /\ i <= Len(p)
    BY <1>1, <1>s
  <2>2. ASSUME i < Len(r) PROVE Follows(r[i], r[i + 1])
    <3>1. CASE i < Len(p)
      <4>1. i + 1 \in 1 .. Len(p) /\ Follows(p[i], p[i + 1])
        BY <3>1, <2>1, <1>1 DEF Ordered
      <4> QED
        BY <4>1, <2>1, <1>s
    <3>2. CASE i = Len(p)
      <4>1. 1 \in 1 .. Len(q) /\ Len(p) > 0
        BY <3>2, <2>1, <2>2, <1>1, <1>2
      <4>2. r[Len(p) + 1] = q[1] /\ Follows(p[Len(p)], q[1])
        BY <4>1, <1>s, <1>e, <1>1
      <4> QED
        BY <4>2, <3>2, <2>1
    <3> QED
      BY <3>1, <3>2, <2>1, <1>1
  <2>3. ASSUME r[i].op = "keys"
        PROVE  /\ \E j \in i + 1 .. Len(r) : r[j] = Do("identity")
               /\ \A j \in i + 1 .. Len(r) : r[j].op # "keys"
    <3>1. /\ \E j \in i + 1 .. Len(p) : p[j] = Do("identity")
          /\ \A j \in i + 1 .. Len(p) : p[j].op # "keys"
      BY <2>1, <2>3 DEF Ordered
    <3>2. PICK j \in i + 1 .. Len(p) : p[j] = Do("identity")
      BY <3>1
    <3>3. j \in i + 1 .. Len(r) /\ j \in 1 .. Len(p)
      BY <3>2, <2>1, <1>1, <1>2
    <3>4. ASSUME NEW k \in i + 1 .. Len(r) PROVE r[k].op # "keys"
      <4>1. CASE k <= Len(p)
        <5>1. k \in i + 1 .. Len(p) /\ k \in 1 .. Len(p)
          BY <4>1, <2>1, <1>1
        <5> QED
          BY <5>1, <3>1, <1>s
      <4>2. CASE k > Len(p)
        <5>1. k - Len(p) \in 1 .. Len(q) /\ Len(p) + (k - Len(p)) = k
          BY <4>2, <2>1, <1>1, <1>2
        <5>2. r[k] = q[k - Len(p)] /\ r[k] \in ToSet(q)
          BY <5>1, <1>s
        <5>3. p[i] \in ToSet(p) /\ p[i].op = "keys"
          BY <2>1, <2>3, <1>s
        <5> QED
          BY <5>2, <5>3
      <4> QED
        BY <4>1, <4>2, <2>1, <1>1
    <3> QED
      BY <3>2, <3>3, <3>4, <1>s
  <2>4. ASSUME r[i].op = "clear" PROVE \E j \in i + 1 .. Len(r) : r[j] = Restart
    <3>1. PICK j \in i + 1 .. Len(p) : p[j] = Restart
      BY <2>1, <2>4 DEF Ordered
    <3>2. j \in i + 1 .. Len(r) /\ j \in 1 .. Len(p)
      BY <3>1, <2>1, <1>1, <1>2
    <3> QED
      BY <3>1, <3>2, <1>s
  <2>5. r[i].op # "auth"
    BY <2>1, <1>s
  <2> QED
    BY <2>2, <2>3, <2>4, <2>5
<1>4. ASSUME NEW m \in 1 .. Len(q)
      PROVE  LET i == Len(p) + m
             IN  /\ i < Len(r) => Follows(r[i], r[i + 1])
                 /\ r[i].op = "keys" => /\ \E j \in i + 1 .. Len(r) : r[j] = Do("identity")
                                        /\ \A j \in i + 1 .. Len(r) : r[j].op # "keys"
                 /\ r[i].op = "clear" => \E j \in i + 1 .. Len(r) : r[j] = Restart
                 /\ r[i].op = "auth" => i + 1 = Len(r) /\ r[i + 1] = Do("free")
  <2> DEFINE i == Len(p) + m
  <2>1. r[i] = q[m] /\ m \in Nat /\ m <= Len(q) /\ i \in Nat
    BY <1>1, <1>s
  <2>2. ASSUME i < Len(r) PROVE Follows(r[i], r[i + 1])
    <3>1. m < Len(q) /\ m + 1 \in 1 .. Len(q) /\ Len(p) + (m + 1) = i + 1
      BY <2>1, <2>2, <1>1, <1>2
    <3>2. r[i + 1] = q[m + 1] /\ Follows(q[m], q[m + 1])
      BY <3>1, <1>s DEF Ordered
    <3> QED
      BY <3>2, <2>1
  <2>3. ASSUME r[i].op = "keys"
        PROVE  /\ \E j \in i + 1 .. Len(r) : r[j] = Do("identity")
               /\ \A j \in i + 1 .. Len(r) : r[j].op # "keys"
    <3>1. /\ \E j \in m + 1 .. Len(q) : q[j] = Do("identity")
          /\ \A j \in m + 1 .. Len(q) : q[j].op # "keys"
      BY <2>1, <2>3 DEF Ordered
    <3>2. PICK j \in m + 1 .. Len(q) : q[j] = Do("identity")
      BY <3>1
    <3>3. Len(p) + j \in i + 1 .. Len(r) /\ j \in 1 .. Len(q)
      BY <3>2, <2>1, <1>1, <1>2
    <3>4. ASSUME NEW k \in i + 1 .. Len(r) PROVE r[k].op # "keys"
      <4>1. k - Len(p) \in m + 1 .. Len(q) /\ k - Len(p) \in 1 .. Len(q) /\ Len(p) + (k - Len(p)) = k
        BY <2>1, <1>1, <1>2
      <4>2. r[k] = q[k - Len(p)]
        BY <4>1, <1>s
      <4> QED
        BY <4>1, <4>2, <3>1
    <3> QED
      BY <3>2, <3>3, <3>4, <1>s
  <2>4. ASSUME r[i].op = "clear" PROVE \E j \in i + 1 .. Len(r) : r[j] = Restart
    <3>1. PICK j \in m + 1 .. Len(q) : q[j] = Restart
      BY <2>1, <2>4 DEF Ordered
    <3>2. Len(p) + j \in i + 1 .. Len(r) /\ j \in 1 .. Len(q)
      BY <3>1, <2>1, <1>1, <1>2
    <3> QED
      BY <3>1, <3>2, <1>s
  <2>5. ASSUME r[i].op = "auth" PROVE i + 1 = Len(r) /\ r[i + 1] = Do("free")
    <3>1. m + 1 = Len(q) /\ q[m + 1] = Do("free")
      BY <2>1, <2>5 DEF Ordered
    <3>2. m + 1 \in 1 .. Len(q) /\ Len(p) + (m + 1) = i + 1
      BY <3>1, <2>1, <1>1
    <3> QED
      BY <3>1, <3>2, <1>s, <1>1, <1>2
  <2> QED
    BY <2>2, <2>3, <2>4, <2>5
<1>5. Ordered(r)
  <2> SUFFICES ASSUME NEW i \in 1 .. Len(r)
               PROVE  /\ i < Len(r) => Follows(r[i], r[i + 1])
                      /\ r[i].op = "keys" => /\ \E j \in i + 1 .. Len(r) : r[j] = Do("identity")
                                             /\ \A j \in i + 1 .. Len(r) : r[j].op # "keys"
                      /\ r[i].op = "clear" => \E j \in i + 1 .. Len(r) : r[j] = Restart
                      /\ r[i].op = "auth" => i + 1 = Len(r) /\ r[i + 1] = Do("free")
    BY <1>2 DEF Ordered
  <2>1. CASE i \in 1 .. Len(p)
    BY <2>1, <1>3
  <2>2. CASE i \notin 1 .. Len(p)
    <3>1. i - Len(p) \in 1 .. Len(q) /\ Len(p) + (i - Len(p)) = i
      BY <2>2, <1>1, <1>2
    <3> QED
      BY <3>1, <1>4
  <2> QED
    BY <2>1, <2>2
<1> QED
  BY <1>5, <1>t DEF r

------------------------------------------------------------------------------
(* What there is to do.                                                    *)

Bare(w) == w \in Works /\ Plain(w) /\ w.op # "identity" /\ w # Restart

\* Puts of sensmos, of sensmos_mesh, and of the other two.
LEMMA PutsAre ==
  /\ \A v \in Stored, k \in SensmosKeys \ {"id_ovr"} :
        Bare(Put(k, v)) /\ NsOf(Put(k, v)) = "sensmos"
  /\ Bare(Put("id_ovr", "id")) /\ NsOf(Put("id_ovr", "id")) = "sensmos"
  /\ \A v \in Stored, k \in {"enabled", "channel", "psk", "portnum"} :
        Bare(Put(k, v)) /\ NsOf(Put(k, v)) = "sensmos_mesh"
  /\ \A r \in Regions : Bare(Put("region", r)) /\ NsOf(Put("region", r)) = "sensmos_mesh"
  /\ \A v \in Stored, k \in {"blob", "addr"} : Bare(Put(k, v)) /\ NsOf(Put(k, v)) = None
  /\ \A k, v : Put(k, v).op = "put" /\ Put(k, v).arg = k /\ Put(k, v).val = v
<1>1. \A k, v : Put(k, v).op = "put" /\ Put(k, v).arg = k /\ Put(k, v).val = v /\ Put(k, v) # Restart
  BY DEF Put, Op, Restart, Do
<1>2. \A k \in PrefsKeys, v \in Stored : Fits(k, v) => Bare(Put(k, v))
  BY <1>1 DEF Works, Bare, Plain, Stored
<1>3. SensmosKeys \cup MeshKeys \cup {"blob", "addr"} \subseteq PrefsKeys
  BY NrfAssumption DEF SensmosKeys, MeshKeys
<1>4. "id" \in Stored /\ Regions \subseteq Stored
  BY NrfAssumption DEF Stored
<1>5. \A k \in PrefsKeys \ {"id_ovr", "region"}, v \in Stored : Fits(k, v)
  BY DEF Fits
<1>6. Fits("id_ovr", "id") /\ \A r \in Regions : Fits("region", r)
  BY DEF Fits
<1>7. /\ \A k \in SensmosKeys : \A v : NsOf(Put(k, v)) = "sensmos"
      /\ \A k \in MeshKeys : \A v : NsOf(Put(k, v)) = "sensmos_mesh"
      /\ \A k \in {"blob", "addr"} : \A v : NsOf(Put(k, v)) = None
  BY <1>1 DEF NsOf, SensmosKeys, MeshKeys
<1>8. "id_ovr" \in SensmosKeys /\ {"enabled", "channel", "psk", "portnum", "region"} \subseteq MeshKeys
      /\ (SensmosKeys \ {"id_ovr"}) \cap {"region", "id_ovr"} = {}
  BY DEF SensmosKeys, MeshKeys
<1>9. \A v \in Stored, k \in SensmosKeys \ {"id_ovr"} : Bare(Put(k, v)) /\ NsOf(Put(k, v)) = "sensmos"
  BY <1>2, <1>3, <1>5, <1>7, <1>8
<1>10. Bare(Put("id_ovr", "id")) /\ NsOf(Put("id_ovr", "id")) = "sensmos"
  BY <1>2, <1>3, <1>4, <1>6, <1>7, <1>8
<1>11. \A v \in Stored, k \in {"enabled", "channel", "psk", "portnum"} :
          Bare(Put(k, v)) /\ NsOf(Put(k, v)) = "sensmos_mesh"
  BY <1>2, <1>3, <1>5, <1>7, <1>8
<1>12. \A r \in Regions : Bare(Put("region", r)) /\ NsOf(Put("region", r)) = "sensmos_mesh"
  BY <1>2, <1>3, <1>4, <1>6, <1>7, <1>8
<1>13. \A v \in Stored, k \in {"blob", "addr"} : Bare(Put(k, v)) /\ NsOf(Put(k, v)) = None
  BY <1>2, <1>3, <1>5, <1>7
<1> QED
  BY <1>1, <1>9, <1>10, <1>11, <1>12, <1>13

LEMMA TasksAre ==
  /\ \A n \in Namespaces : Bare(Begin(n)) /\ NsOf(Begin(n)) = None
  /\ \A n : Begin(n).op = "begin" /\ Begin(n).arg = n
  /\ \A t \in Tasks : Do(t) \in Works
  /\ \A t : Do(t).op = t
  /\ \A t \in Tasks \ {"keys", "identity", "clear", "auth", "restart"} : Bare(Do(t))
  /\ \A t \in {"end", "run", "clear", "restart", "auth", "authok", "free"} : NsOf(Do(t)) = None
  /\ \A t \in {"keys", "token", "identity", "config"} : NsOf(Do(t)) = "sensmos"
  /\ \A t \in {"mesh", "region"} : NsOf(Do(t)) = "sensmos_mesh"
  /\ End = Do("end") /\ Restart = Do("restart") /\ Restart.op = "restart" /\ End.op = "end"
<1>1. /\ \A t : Do(t).op = t
      /\ \A n : Begin(n).op = "begin" /\ Begin(n).arg = n
      /\ End = Do("end") /\ Restart = Do("restart")
  BY DEF Do, Begin, Op, End, Restart
<1>2. \A n \in Namespaces : Bare(Begin(n)) /\ NsOf(Begin(n)) = None
  BY <1>1 DEF Bare, Works, Plain, NsOf
<1>3. \A t \in Tasks : Do(t) \in Works
  BY DEF Works
<1>4. \A t \in Tasks \ {"keys", "identity", "clear", "auth", "restart"} : Bare(Do(t))
  BY <1>1, <1>3 DEF Bare, Plain
<1>5. \A t \in {"end", "run", "clear", "restart", "auth", "authok", "free"} : NsOf(Do(t)) = None
  BY <1>1 DEF NsOf
<1>6. /\ \A t \in {"keys", "token", "identity", "config"} : NsOf(Do(t)) = "sensmos"
      /\ \A t \in {"mesh", "region"} : NsOf(Do(t)) = "sensmos_mesh"
  BY <1>1 DEF NsOf
<1> QED
  BY <1>1, <1>2, <1>3, <1>4, <1>5, <1>6

\* Bare work in one namespace, between begin and end.
LEMMA EditIs ==
  ASSUME NEW n \in Namespaces, NEW m \in {n, None}, NEW q \in Seq(Works), q # << >>,
         \A w \in ToSet(q) : Plain(w) /\ NsOf(w) = m
  PROVE  /\ Ordered(Edit(n, q)) /\ ToSet(Edit(n, q)) = {Begin(n), End} \cup ToSet(q)
         /\ Edit(n, q) # << >> /\ Edit(n, q)[1] = Begin(n)
<1>1. /\ <<Begin(n)>> \in Seq(Works) /\ ToSet(<<Begin(n)>>) = {Begin(n)}
      /\ <<End>> \in Seq(Works) /\ ToSet(<<End>>) = {End}
  <2>1. Begin(n) \in Works /\ End \in Works
    BY TasksAre DEF Bare, Tasks
  <2> QED
    BY <2>1, Shown
<1>2. \A i \in 1 .. Len(q) : q[i] \in ToSet(q)
  BY DEF ToSet
<1>3. Ordered(q)
  <2>1. \A i \in 1 .. Len(q) : i < Len(q) => i + 1 \in 1 .. Len(q)
    OBVIOUS
  <2>2. \A i \in 1 .. Len(q) : i < Len(q) => Follows(q[i], q[i + 1])
    BY <2>1, <1>2 DEF Follows
  <2> QED
    BY <2>2, PlainOrdered
<1>4. Ordered(<<Begin(n)>>) /\ Ordered(<<End>>)
  <2>1. Plain(Begin(n)) /\ Plain(End)
    BY TasksAre DEF Bare, Tasks
  <2> QED
    BY <2>1, <1>1 DEF Ordered, Plain
<1>5. Len(q) \in 1 .. Len(q) /\ 1 \in 1 .. Len(q)
  <2>1. Len(q) # 0 /\ Len(q) \in Nat
    OBVIOUS
  <2> QED
    BY <2>1
<1>6. Follows(Begin(n), q[1])
  BY <1>2, <1>5 DEF Follows
<1>7. Plain(Begin(n)) /\ \A w \in ToSet(q) : w.op \notin {"keys", "auth"}
  BY TasksAre DEF Bare, Plain
<1>8. Ordered(<<Begin(n)>> \o q) /\ ToSet(<<Begin(n)>> \o q) = {Begin(n)} \cup ToSet(q)
  <2>1. <<Begin(n)>>[Len(<<Begin(n)>>)] = Begin(n)
    OBVIOUS
  <2> QED
    BY <2>1, <1>1, <1>3, <1>4, <1>6, <1>7, Joined DEF Plain
<1>9. NsOf(End) = None /\ Plain(End)
  BY TasksAre DEF Bare, Tasks
<1>10. Ordered((<<Begin(n)>> \o q) \o <<End>>)
       /\ ToSet((<<Begin(n)>> \o q) \o <<End>>) = ({Begin(n)} \cup ToSet(q)) \cup {End}
  <2> DEFINE p == <<Begin(n)>> \o q
             e == <<End>>
  <2>1. \A w \in ToSet(p) : w.op # "keys" /\ w.op # "auth"
    BY <1>7, <1>8 DEF Plain
  <2>2. Follows(p[Len(p)], e[1])
    BY <1>9 DEF Follows
  <2>3. Ordered(p) /\ Ordered(e) /\ ToSet(p) = {Begin(n)} \cup ToSet(q) /\ ToSet(e) = {End}
    BY <1>1, <1>4, <1>8
  <2> HIDE DEF p, e
  <2>4. Ordered(p \o e) /\ ToSet(p \o e) = ToSet(p) \cup ToSet(e)
    BY <2>1, <2>2, <2>3, Joined
  <2> QED
    BY <2>3, <2>4 DEF p, e
<1>11. Edit(n, q) # << >> /\ Edit(n, q)[1] = Begin(n)
  <2>1. Len(Edit(n, q)) = Len(q) + 2 /\ Len(q) \in Nat
    BY <1>1 DEF Edit
  <2> QED
    BY <2>1, <1>1 DEF Edit
<1> QED
  BY <1>10, <1>11 DEF Edit

Loads == {"keys", "identity", "config", "mesh", "region"}

\* What a handler may leave to do: nothing of setup.
ListOK(q) ==
    /\ Ordered(q) /\ (q # << >> => NsOf(q[1]) = None)
    /\ \A w \in ToSet(q) : w.op \notin Loads

\* ... and the same with the slot freed in the end.
Carried(q) ==
    /\ ListOK(q) /\ ListOK(q \o <<Do("free")>>)
    /\ ToSet(q \o <<Do("free")>>) = ToSet(q) \cup {Do("free")}

LEMMA Ends ==
  /\ ListOK(<< >>) /\ ToSet(<< >>) = {}
  /\ \A t \in {"end", "free", "run", "restart", "authok"} :
        ListOK(<<Do(t)>>) /\ ToSet(<<Do(t)>>) = {Do(t)}
<1>1. ListOK(<< >>) /\ ToSet(<< >>) = {}
  BY DEF ListOK, Ordered, ToSet
<1>2. ASSUME NEW t \in {"end", "free", "run", "restart", "authok"}
      PROVE  ListOK(<<Do(t)>>) /\ ToSet(<<Do(t)>>) = {Do(t)}
  <2>1. Do(t) \in Works /\ Do(t).op = t /\ NsOf(Do(t)) = None
    BY TasksAre DEF Tasks
  <2>2. <<Do(t)>> \in Seq(Works) /\ ToSet(<<Do(t)>>) = {Do(t)}
    BY <2>1, Shown
  <2>3. Plain(Do(t)) /\ Len(<<Do(t)>>) = 1
    BY <2>1 DEF Plain
  <2>4. Ordered(<<Do(t)>>)
    <3>1. \A i \in 1 .. Len(<<Do(t)>>) : ~(i < Len(<<Do(t)>>))
      BY <2>3
    <3>2. \A w \in ToSet(<<Do(t)>>) : Plain(w)
      BY <2>2, <2>3
    <3> QED
      BY <2>2, <3>1, <3>2, PlainOrdered
  <2> QED
    BY <2>1, <2>2, <2>4 DEF ListOK, Loads
<1> QED
  BY <1>1, <1>2

LEMMA Freed ==
  ASSUME NEW q, ListOK(q), \A w \in ToSet(q) : w.op # "auth"
  PROVE  Carried(q)
<1> DEFINE e == <<Do("free")>>
<1>1. ListOK(e) /\ ToSet(e) = {Do("free")} /\ NsOf(e[1]) = None
  BY Ends, TasksAre
<1>2. q \in Seq(Works) /\ e \in Seq(Works)
  BY <1>1 DEF ListOK, Ordered
<1>3. Do("free").op = "free"
  BY TasksAre
<1>4. q # << >> => (q \o e)[1] = q[1]
  BY <1>2
<1>5. q = << >> => q \o e = e
  BY <1>2
<1> HIDE DEF e
<1>6. Ordered(q \o e) /\ ToSet(q \o e) = ToSet(q) \cup ToSet(e)
  <2>1. \A w \in ToSet(q) : w.op # "keys"
    BY DEF ListOK, Loads
  <2>2. q # << >> /\ e # << >> => Follows(q[Len(q)], e[1])
    BY <1>1 DEF Follows
  <2> QED
    BY <2>1, <2>2, <1>1, Joined DEF ListOK
<1>7. ListOK(q \o e)
  BY <1>1, <1>3, <1>4, <1>5, <1>6 DEF ListOK, Loads
<1> QED
  BY <1>1, <1>6, <1>7 DEF Carried, e

\* begin .. end around bare puts.
LEMMA EditCarried ==
  ASSUME NEW n \in Namespaces, NEW m \in {n, None}, NEW q \in Seq(Works), q # << >>,
         \A w \in ToSet(q) : Bare(w) /\ w.op = "put" /\ NsOf(w) = m
  PROVE  Carried(Edit(n, q)) /\ ToSet(Edit(n, q)) = {Begin(n), End} \cup ToSet(q)
<1>1. /\ Ordered(Edit(n, q)) /\ ToSet(Edit(n, q)) = {Begin(n), End} \cup ToSet(q)
      /\ Edit(n, q)[1] = Begin(n)
  BY EditIs DEF Bare
<1>2. Begin(n).op = "begin" /\ End.op = "end" /\ NsOf(Begin(n)) = None
  BY TasksAre
<1>3. \A w \in ToSet(Edit(n, q)) : w.op \in {"begin", "end", "put"}
  BY <1>1, <1>2
<1>4. \A w \in ToSet(Edit(n, q)) : w.op # "auth"
  BY <1>3
<1>5. ListOK(Edit(n, q))
  BY <1>1, <1>2, <1>3 DEF ListOK, Loads
<1> QED
  BY <1>1, <1>4, <1>5, Freed

LEMMA HomesAre == {"sensmos", "sensmos_mesh", "wallet_bak", "sensmos_test"} \subseteq Namespaces
BY NrfAssumption

LEMMA OnePut ==
  ASSUME NEW n \in Namespaces, NEW w, Bare(w), w.op = "put", NsOf(w) \in {n, None}
  PROVE  Carried(Edit(n, <<w>>)) /\ ToSet(Edit(n, <<w>>)) = {Begin(n), End, w}
<1> DEFINE q == <<w>>
<1>1. q \in Seq(Works) /\ ToSet(q) = {w} /\ q # << >>
  BY Shown DEF Bare
<1> HIDE DEF q
<1>2. Carried(Edit(n, q)) /\ ToSet(Edit(n, q)) = {Begin(n), End} \cup ToSet(q)
  BY <1>1, EditCarried
<1> QED
  BY <1>1, <1>2 DEF q

LEMMA TwoPuts ==
  ASSUME NEW n \in Namespaces, NEW v, NEW w, Bare(v), Bare(w), v.op = "put", w.op = "put",
         NsOf(v) \in {n, None}, NsOf(w) = NsOf(v)
  PROVE  Carried(Edit(n, <<v, w>>)) /\ ToSet(Edit(n, <<v, w>>)) = {Begin(n), End, v, w}
<1> DEFINE q == <<v, w>>
<1>1. q \in Seq(Works) /\ ToSet(q) = {v, w} /\ q # << >>
  BY Shown DEF Bare
<1> HIDE DEF q
<1>2. Carried(Edit(n, q)) /\ ToSet(Edit(n, q)) = {Begin(n), End} \cup ToSet(q)
  BY <1>1, EditCarried
<1> QED
  BY <1>1, <1>2 DEF q

\* The four writes of a configuration.
OnOff(on) == IF on THEN "on" ELSE "off"
MeshWrites(on, m) ==
    {Put("enabled", OnOff(on)), Put("channel", m.channel), Put("psk", m.psk), Put("portnum", m.portnum)}

LEMMA MeshPuts ==
  ASSUME NEW on \in BOOLEAN, NEW m \in MeshCfgs
  PROVE  /\ Carried(mesh_tx_configure(on, m))
         /\ ToSet(mesh_tx_configure(on, m)) = {Begin("sensmos_mesh"), End} \cup MeshWrites(on, m)
<1> DEFINE a == Put("enabled", OnOff(on))
           b == Put("channel", m.channel)
           c == Put("psk", m.psk)
           d == Put("portnum", m.portnum)
           q == <<a, b, c, d>>
<1>1. OnOff(on) \in Stored /\ {m.channel, m.psk, m.portnum} \subseteq Stored
  BY NrfAssumption DEF Stored, MeshCfgs, OnOff
<1>2. \A w \in {a, b, c, d} : Bare(w) /\ w.op = "put" /\ NsOf(w) = "sensmos_mesh"
  BY <1>1, PutsAre
<1>4. mesh_tx_configure(on, m) = Edit("sensmos_mesh", q) /\ MeshWrites(on, m) = {a, b, c, d}
  BY DEF mesh_tx_configure, MeshWrites, OnOff
<1> HIDE DEF a, b, c, d
<1>3. q \in Seq(Works) /\ q # << >> /\ ToSet(q) = {a, b, c, d}
  BY <1>2 DEF Bare, ToSet
<1> HIDE DEF q
<1>5. Carried(Edit("sensmos_mesh", q))
      /\ ToSet(Edit("sensmos_mesh", q)) = {Begin("sensmos_mesh"), End} \cup ToSet(q)
  BY <1>2, <1>3, HomesAre, EditCarried
<1> QED
  BY <1>3, <1>4, <1>5

\* A factory reset ends in a restart.
LEMMA ResetIs ==
  /\ ListOK(FactoryReset) /\ FactoryReset # << >> /\ Last(FactoryReset) = Restart
  /\ ToSet(FactoryReset) = {Begin("sensmos"), Do("clear"), End, Restart}
<1>1. FactoryReset = <<Begin("sensmos"), Do("clear"), End, Restart>>
  <2>1. ASSUME NEW S, NEW a \in S, NEW b \in S, NEW c \in S, NEW d \in S
        PROVE  ((<<a>> \o <<b>>) \o <<c>>) \o <<d>> = <<a, b, c, d>>
    <3> DEFINE p == ((<<a>> \o <<b>>) \o <<c>>) \o <<d>>
    <3>1. /\ p \in Seq(S) /\ Len(p) = 4
          /\ p[1] = a /\ p[2] = b /\ p[3] = c /\ p[4] = d
      OBVIOUS
    <3> HIDE DEF p
    <3>2. p = <<a, b, c, d>>
      BY <3>1
    <3> QED
      BY <3>2 DEF p
  <2>2. {Begin("sensmos"), Do("clear"), End, Restart} \subseteq Works
    BY HomesAre, TasksAre DEF Bare, Tasks
  <2> QED
    BY <2>1, <2>2 DEF FactoryReset, Edit
<1>2. /\ {Begin("sensmos"), Do("clear"), End, Restart} \subseteq Works
      /\ \A w \in {Begin("sensmos"), Do("clear"), End, Restart} :
            NsOf(w) = None /\ w.op \notin Loads \cup {"auth"}
      /\ Begin("sensmos").op # "clear" /\ End.op # "clear" /\ Restart.op # "clear"
  BY HomesAre, TasksAre DEF Bare, Plain, Tasks, Loads
<1> DEFINE a == Begin("sensmos")
           b == Do("clear")
<1> HIDE DEF a, b
<1>3. /\ Ordered(<<a, b, End, Restart>>)
      /\ ToSet(<<a, b, End, Restart>>) = {a, b, End, Restart}
  <2>1. {a, b, End, Restart} \subseteq Works /\ a.op # "clear" /\ End.op # "clear" /\ Restart.op # "clear"
        /\ \A w \in {a, b, End, Restart} : NsOf(w) = None /\ w.op \notin Loads \cup {"auth"}
    BY <1>2 DEF a, b
  <2>2. <<a, b, End, Restart>> \in Seq(Works) /\ ToSet(<<a, b, End, Restart>>) = {a, b, End, Restart}
    BY <2>1 DEF ToSet
  <2> QED
    BY <2>1, <2>2 DEF Ordered, Follows, Loads
<1>4. Last(<<a, b, End, Restart>>) = Restart
  BY DEF Last
<1> QED
  BY <1>1, <1>2, <1>3, <1>4 DEF ListOK, a, b

------------------------------------------------------------------------------
(* What setup() has to do.                                                 *)

LEMMA LoadIs ==
  ASSUME NEW n \in Namespaces, NEW w, Bare(w), NsOf(w) = n
  PROVE  /\ Ordered(<<Begin(n), w, End>>) /\ ToSet(<<Begin(n), w, End>>) = {Begin(n), w, End}
         /\ NsOf(<<Begin(n), w, End>>[1]) = None /\ <<Begin(n), w, End>> # << >>
<1> DEFINE a == Begin(n)
           q == <<a, w, End>>
<1>1. Bare(a) /\ NsOf(a) = None /\ Bare(End) /\ NsOf(End) = None
  BY TasksAre DEF Tasks
<1>2. Follows(a, w) /\ Follows(w, End)
  BY <1>1 DEF Follows
<1> HIDE DEF a
<1>3. q \in Seq(Works) /\ ToSet(q) = {a, w, End} /\ Len(q) = 3 /\ q[1] = a /\ q[2] = w /\ q[3] = End
      /\ q # << >>
  <2>1. a \in Works /\ w \in Works /\ End \in Works
    BY <1>1 DEF Bare
  <2>2. q \in Seq(Works) /\ ToSet(q) = {a, w, End}
    BY <2>1 DEF ToSet
  <2>3. Len(q) = 3 /\ q[1] = a /\ q[2] = w /\ q[3] = End /\ q # << >>
    OBVIOUS
  <2> QED
    BY <2>2, <2>3
<1> HIDE DEF q
<1>4. \A i \in 1 .. Len(q) : i < Len(q) => Follows(q[i], q[i + 1])
  <2> SUFFICES ASSUME NEW i \in 1 .. Len(q), i < Len(q) PROVE Follows(q[i], q[i + 1])
    OBVIOUS
  <2>1. i = 1 \/ i = 2
    BY <1>3
  <2> QED
    BY <2>1, <1>2, <1>3
<1>5. Ordered(q)
  BY <1>1, <1>3, <1>4, PlainOrdered DEF Bare
<1> QED
  BY <1>1, <1>3, <1>5 DEF q, a

LEMMA IdentityIs ==
  /\ Ordered(identity_init)
  /\ ToSet(identity_init) = {Begin("sensmos"), Do("keys"), Do("token"), Do("identity"), End}
  /\ NsOf(identity_init[1]) = None /\ identity_init # << >>
<1> DEFINE a == Begin("sensmos")
           b == Do("keys")
           c == Do("token")
           d == Do("identity")
           q == <<a, b, c, d, End>>
<1>1. /\ {a, b, c, d, End} \subseteq Works
      /\ a.op = "begin" /\ b.op = "keys" /\ c.op = "token" /\ d.op = "identity" /\ End.op = "end"
      /\ NsOf(a) = None /\ NsOf(b) = "sensmos" /\ NsOf(c) = "sensmos" /\ NsOf(d) = "sensmos"
      /\ NsOf(End) = None
  BY HomesAre, TasksAre DEF Bare, Tasks
<1>2. Follows(a, b) /\ Follows(b, c) /\ Follows(c, d) /\ Follows(d, End)
  BY <1>1 DEF Follows
<1>3. q = identity_init /\ d = Do("identity")
  BY DEF identity_init
<1> HIDE DEF a, b, c, d
<1>4. /\ q \in Seq(Works) /\ ToSet(q) = {a, b, c, d, End} /\ Len(q) = 5 /\ q # << >>
      /\ q[1] = a /\ q[2] = b /\ q[3] = c /\ q[4] = d /\ q[5] = End
  BY <1>1 DEF ToSet
<1> HIDE DEF q
<1>5. \A i \in 1 .. Len(q) : i = 1 \/ i = 2 \/ i = 3 \/ i = 4 \/ i = 5
  BY <1>4
<1>6. ASSUME NEW i \in 1 .. Len(q), i < Len(q) PROVE Follows(q[i], q[i + 1])
  BY <1>2, <1>4, <1>5, <1>6
<1>7. ASSUME NEW i \in 1 .. Len(q), q[i].op = "keys"
      PROVE  /\ \E j \in i + 1 .. Len(q) : q[j] = Do("identity")
             /\ \A j \in i + 1 .. Len(q) : q[j].op # "keys"
  <2>1. i = 2
    BY <1>1, <1>4, <1>5, <1>7
  <2>2. 4 \in i + 1 .. Len(q) /\ q[4] = Do("identity")
    BY <2>1, <1>3, <1>4
  <2>3. ASSUME NEW j \in i + 1 .. Len(q) PROVE q[j].op # "keys"
    <3>1. j = 3 \/ j = 4 \/ j = 5
      BY <2>1, <1>4
    <3> QED
      BY <3>1, <1>1, <1>4
  <2> QED
    BY <2>2, <2>3
<1>8. \A i \in 1 .. Len(q) : q[i].op # "clear" /\ q[i].op # "auth"
  BY <1>1, <1>4, <1>5
<1>9. Ordered(q)
  BY <1>4, <1>6, <1>7, <1>8 DEF Ordered
<1> QED
  BY <1>1, <1>3, <1>4, <1>9 DEF a, b, c, d

\* What comes after the identity; without keys it is all that comes.
LEMMA AfterIs ==
  /\ Ordered(AfterIdentity) /\ AfterIdentity # << >> /\ NsOf(AfterIdentity[1]) = None
  /\ {Do("config"), Do("mesh"), Do("region")} \subseteq ToSet(AfterIdentity)
  /\ \A w \in ToSet(AfterIdentity) : Bare(w) /\ w.op # "put"
<1> DEFINE p == ble_load_config
           q == mesh_tx_init
           r == lora_scan_init
           e == <<Do("run")>>
<1>1. /\ \A w \in {Do("config"), Do("mesh"), Do("region"), Do("run"), End} : Bare(w) /\ w.op # "put"
      /\ NsOf(Do("config")) = "sensmos" /\ NsOf(Do("mesh")) = "sensmos_mesh"
      /\ NsOf(Do("region")) = "sensmos_mesh" /\ NsOf(Do("run")) = None
      /\ \A n \in Namespaces : Bare(Begin(n)) /\ Begin(n).op # "put"
  BY TasksAre DEF Tasks
<1>2. /\ Ordered(p) /\ ToSet(p) = {Begin("sensmos"), Do("config"), End} /\ NsOf(p[1]) = None
      /\ p # << >>
  BY <1>1, HomesAre, LoadIs DEF ble_load_config
<1>3. /\ Ordered(q) /\ ToSet(q) = {Begin("sensmos_mesh"), Do("mesh"), End} /\ NsOf(q[1]) = None
      /\ q # << >>
  BY <1>1, HomesAre, LoadIs DEF mesh_tx_init
<1>4. /\ Ordered(r) /\ ToSet(r) = {Begin("sensmos_mesh"), Do("region"), End} /\ NsOf(r[1]) = None
      /\ r # << >>
  BY <1>1, HomesAre, LoadIs DEF lora_scan_init
<1>5. /\ Ordered(e) /\ ToSet(e) = {Do("run")} /\ NsOf(e[1]) = None /\ e # << >>
  BY <1>1, Ends DEF ListOK
<1>6. AfterIdentity = ((p \o q) \o r) \o e
  BY DEF AfterIdentity
<1>7. /\ p \in Seq(Works) /\ q \in Seq(Works) /\ r \in Seq(Works) /\ e \in Seq(Works)
  BY <1>2, <1>3, <1>4, <1>5 DEF Ordered
<1>8. \A w \in ToSet(p) \cup ToSet(q) \cup ToSet(r) \cup ToSet(e) : Bare(w) /\ w.op # "put"
  BY <1>1, <1>2, <1>3, <1>4, <1>5, HomesAre
<1> HIDE DEF p, q, r, e
<1>9. Ordered(p \o q) /\ ToSet(p \o q) = ToSet(p) \cup ToSet(q)
  BY <1>2, <1>3, <1>8, Joined DEF Follows, Bare, Plain
<1>10. Ordered((p \o q) \o r) /\ ToSet((p \o q) \o r) = ToSet(p) \cup ToSet(q) \cup ToSet(r)
  BY <1>4, <1>8, <1>9, Joined DEF Follows, Bare, Plain
<1>11. /\ Ordered(((p \o q) \o r) \o e)
       /\ ToSet(((p \o q) \o r) \o e) = ToSet(p) \cup ToSet(q) \cup ToSet(r) \cup ToSet(e)
  BY <1>5, <1>8, <1>10, Joined DEF Follows, Bare, Plain
<1>12. Len(p) \in Nat /\ Len(p) > 0
  BY <1>2, <1>7
<1>13. (((p \o q) \o r) \o e)[1] = p[1] /\ ((p \o q) \o r) \o e # << >>
  BY <1>7, <1>12
<1> QED
  BY <1>2, <1>3, <1>4, <1>6, <1>8, <1>11, <1>13

Boot == storage_selftest \o identity_init \o AfterIdentity

LEMMA BootIs ==
  /\ Ordered(Boot) /\ Boot # << >> /\ NsOf(Boot[1]) = None
  /\ {Do("keys"), Do("identity"), Do("config"), Do("mesh"), Do("region")} \subseteq ToSet(Boot)
  /\ \A w \in ToSet(Boot) : w.op = "put" => w.arg = "blob"
<1> DEFINE p == storage_selftest
           q == identity_init
           r == AfterIdentity
<1>1. Bare(Put("blob", "blob")) /\ NsOf(Put("blob", "blob")) = None
  BY PutsAre, NrfAssumption DEF Stored
<1>2. Carried(p) /\ ToSet(p) = {Begin("sensmos_test"), End, Put("blob", "blob")}
  BY <1>1, HomesAre, PutsAre, OnePut DEF storage_selftest
<1>3. /\ Ordered(p) /\ (p # << >> => NsOf(p[1]) = None)
      /\ \A w \in ToSet(p) : w.op # "keys" /\ w.op # "auth"
  <2>1. \A w \in ToSet(p) : Bare(w)
    BY <1>1, <1>2, HomesAre, TasksAre DEF Tasks
  <2> QED
    BY <2>1, <1>2 DEF Carried, ListOK, Bare, Plain
<1>4. /\ Ordered(q) /\ NsOf(q[1]) = None /\ q # << >>
      /\ ToSet(q) = {Begin("sensmos"), Do("keys"), Do("token"), Do("identity"), End}
  BY IdentityIs
<1>5. \A w \in ToSet(q) : w.op # "auth"
  BY <1>4, TasksAre
<1>6. /\ Ordered(r) /\ r # << >> /\ NsOf(r[1]) = None
      /\ {Do("config"), Do("mesh"), Do("region")} \subseteq ToSet(r)
      /\ \A w \in ToSet(r) : w.op # "keys"
  BY AfterIs DEF Bare, Plain
<1>a. \A w \in ToSet(p) \cup ToSet(q) \cup ToSet(r) : w.op = "put" => w.arg = "blob"
  <2>1. \A w \in ToSet(p) : w.op = "put" => w.arg = "blob"
    BY <1>2, PutsAre, TasksAre
  <2>2. \A w \in ToSet(q) \cup ToSet(r) : w.op # "put"
    BY <1>4, AfterIs, TasksAre
  <2> QED
    BY <2>1, <2>2
<1>7. p \in Seq(Works) /\ q \in Seq(Works) /\ r \in Seq(Works)
  BY <1>3, <1>4, <1>6 DEF Ordered
<1>8. Boot = (p \o q) \o r
  BY DEF Boot
<1> HIDE DEF p, q, r
<1>9. Ordered(p \o q) /\ ToSet(p \o q) = ToSet(p) \cup ToSet(q)
  BY <1>3, <1>4, Joined DEF Follows
<1>10. Ordered((p \o q) \o r) /\ ToSet((p \o q) \o r) = ToSet(p) \cup ToSet(q) \cup ToSet(r)
  BY <1>3, <1>5, <1>6, <1>9, Joined DEF Follows
<1>11. Len(p) \in Nat /\ Len(q) \in Nat /\ Len(q) > 0 /\ (Len(p) = 0 => p = << >>)
       /\ (Len(p) > 0 => p # << >>)
  BY <1>4, <1>7
<1>12. ((p \o q) \o r) # << >>
       /\ ((p \o q) \o r)[1] = (IF Len(p) > 0 THEN p[1] ELSE q[1])
  BY <1>7, <1>11
<1> QED
  BY <1>3, <1>4, <1>6, <1>8, <1>a, <1>10, <1>11, <1>12

------------------------------------------------------------------------------
(* The node's calls of the store.                                          *)

LEMMA WorkIs ==
  ASSUME NEW w \in Works
  PROVE  /\ w.op = "begin" => w.arg \in Namespaces /\ w = Begin(w.arg)
         /\ w.op = "put" => w.arg \in PrefsKeys /\ w.val \in Stored /\ Fits(w.arg, w.val)
         /\ w.op = "put" => w = Put(w.arg, w.val)
         /\ w.op \notin {"begin", "put"} => w.op \in Tasks /\ w = Do(w.op)
<1>1. CASE w \in {Begin(n) : n \in Namespaces}
  BY <1>1 DEF Begin, Op
<1>2. CASE w \in {x \in {Put(k, v) : k \in PrefsKeys, v \in PrefsValues \cup {None}} : Fits(x.arg, x.val)}
  BY <1>2, PutsAre DEF Stored
<1>3. CASE w \in {Do(t) : t \in Tasks}
  <2>1. PICK t \in Tasks : w = Do(t)
    BY <1>3
  <2>2. w.op = t /\ t \notin {"begin", "put"}
    BY <2>1, TasksAre DEF Tasks
  <2> QED
    BY <2>1, <2>2
<1> QED
  BY <1>1, <1>2, <1>3 DEF Works

\* Calls of the store with what fits.
Calls ==
    \/ \E n \in Namespaces : PrefsBegin(n)
    \/ \E k \in PrefsKeys, v \in Stored : Fits(k, v) /\ PrefsPut(k, v)
    \/ PrefsEnd \/ PrefsClear \/ SaveStep

StoreChanges == Calls \/ (failed' /\ SaveFault) \/ (mode' = "off" /\ PrefsLost) \/ UNCHANGED prefsVars

LEMMA CallsAreSteps ==
  ASSUME PrefsInv, StoreChanges
  PROVE  PrefsInv'
<1>1. [PrefsNext]_prefsVars
  BY DEF StoreChanges, Calls, PrefsNext, Stored
<1> QED
  BY <1>1, PrefsInvNext

LEMMA EmptyFits == DocFits(EmptyDoc) /\ Missing.doc = EmptyDoc /\ TornFile.doc = EmptyDoc
BY FileKinds DEF DocFits, Fits, EmptyDoc

LEMMA StoreTyped ==
  ASSUME PrefsInv
  PROVE  /\ file \in [Namespaces -> Files] /\ temp \in [Namespaces -> Files]
         /\ open \in Namespaces \cup {None} /\ doc \in Docs /\ DOMAIN doc = PrefsKeys
         /\ saving # "no" => open \in Namespaces
BY DEF PrefsInv, PrefsTypeOK, SavesTheOpenOne, Docs

LEMMA StoreFitsStep ==
  ASSUME PrefsInv, StoreFits, StoreChanges
  PROVE  StoreFits'
<1> USE StoreTyped, EmptyFits
<1>1. CASE UNCHANGED prefsVars
  BY <1>1 DEF StoreFits, prefsVars, fsVars, ramDocVars
<1>2. ASSUME NEW n \in Namespaces, PrefsBegin(n) PROVE StoreFits'
  <2>1. DocFits(doc') /\ file' = file
    BY <1>2 DEF StoreFits, PrefsBegin
  <2>2. ASSUME NEW m \in Namespaces PROVE DocFits(temp'[m].doc)
    BY <1>2 DEF StoreFits, PrefsBegin
  <2> QED
    BY <2>1, <2>2 DEF StoreFits
<1>3. ASSUME NEW k \in PrefsKeys, NEW v \in Stored, Fits(k, v), PrefsPut(k, v) PROVE StoreFits'
  <2>1. doc' = [doc EXCEPT ![k] = v] /\ file' = file /\ temp' = temp
    BY <1>3 DEF PrefsPut, fsVars
  <2>2. DocFits(doc')
    BY <2>1, <1>3 DEF StoreFits, DocFits
  <2> QED
    BY <2>1, <2>2 DEF StoreFits
<1>4. CASE PrefsEnd
  BY <1>4 DEF PrefsEnd, StoreFits, fsVars
<1>5. CASE PrefsClear
  <2>1. DocFits(doc') /\ temp' = temp /\ file' = [file EXCEPT ![open] = Missing]
    BY <1>5 DEF PrefsClear
  <2>2. ASSUME NEW m \in Namespaces PROVE DocFits(file'[m].doc)
    BY <2>1 DEF StoreFits
  <2> QED
    BY <2>1, <2>2 DEF StoreFits
<1>6. CASE SaveStep \/ SaveFault
  <2>1. doc' = doc /\ DocFits(doc)
    BY <1>6 DEF SaveStep, SaveFault, SaveOpens, SaveCloses, SaveUnlinks, SaveRenames, SaveRunsShort,
       SaveRefused, SaveNotRenamed, StoreFits
  <2>2. \/ file' = file
        \/ file' = [file EXCEPT ![open] = Missing]
        \/ file' = [file EXCEPT ![open] = temp[open]]
    BY <1>6 DEF SaveStep, SaveFault, SaveOpens, SaveCloses, SaveUnlinks, SaveRenames, SaveRunsShort,
       SaveRefused, SaveNotRenamed, fsVars
  <2>3. \/ temp' = temp
        \/ temp' = [temp EXCEPT ![open] = TornFile]
        \/ temp' = [temp EXCEPT ![open] = Whole(doc)]
        \/ temp' = [temp EXCEPT ![open] = Missing]
    BY <1>6 DEF SaveStep, SaveFault, SaveOpens, SaveCloses, SaveUnlinks, SaveRenames, SaveRunsShort,
       SaveRefused, SaveNotRenamed, fsVars
  <2>4. open \in Namespaces
    BY <1>6 DEF SaveStep, SaveFault, SaveOpens, SaveCloses, SaveUnlinks, SaveRenames, SaveRunsShort,
       SaveRefused, SaveNotRenamed
  <2>5. Whole(doc).doc = doc
    BY FileKinds
  <2>6. ASSUME NEW m \in Namespaces PROVE DocFits(file'[m].doc)
    BY <2>2, <2>4 DEF StoreFits
  <2>7. ASSUME NEW m \in Namespaces PROVE DocFits(temp'[m].doc)
    BY <2>1, <2>3, <2>4, <2>5 DEF StoreFits
  <2> QED
    BY <2>1, <2>6, <2>7 DEF StoreFits
<1>7. CASE PrefsLost
  BY <1>7 DEF PrefsLost, StoreFits, fsVars
<1> QED
  BY <1>1, <1>2, <1>3, <1>4, <1>5, <1>6, <1>7 DEF StoreChanges, Calls

\* A failure is noted, and forgotten with the restart.
FailNoted == failed \in BOOLEAN /\ failed' \in BOOLEAN /\ (~failed' => ~failed \/ mode' = "off")

LEMMA DocSavedStep ==
  ASSUME PrefsInv, DocSaved, FailNoted, StoreChanges, mode' = "off" => PrefsLost \/ (open = None /\ UNCHANGED prefsVars)
  PROVE  DocSaved'
<1> USE StoreTyped
<1>0. SUFFICES ASSUME ~failed' PROVE DocSaved'
  BY DEF DocSaved
<1>1. CASE mode' = "off"
  <2>1. open' = None /\ saving' = "no"
    BY <1>1, PrefsAssumption DEF PrefsLost, prefsVars, ramDocVars
  <2> QED
    BY <2>1 DEF DocSaved
<1> SUFFICES ASSUME mode' # "off" PROVE DocSaved'
  BY <1>1
<1>f. ~failed
  BY <1>0 DEF FailNoted
<1>2. CASE UNCHANGED prefsVars
  BY <1>2, <1>f DEF DocSaved, prefsVars, fsVars, ramDocVars
<1>3. ASSUME NEW n \in Namespaces, PrefsBegin(n) PROVE DocSaved'
  BY <1>3 DEF DocSaved, PrefsBegin
<1>4. ASSUME NEW k \in PrefsKeys, NEW v \in Stored, PrefsPut(k, v) PROVE DocSaved'
  BY <1>4 DEF DocSaved, PrefsPut
<1>5. CASE PrefsEnd
  BY <1>5 DEF DocSaved, PrefsEnd
<1>6. CASE PrefsClear
  <2>1. open \in Namespaces /\ file' = [file EXCEPT ![open] = Missing] /\ doc' = EmptyDoc
        /\ open' = open /\ saving' = "no"
    BY <1>6 DEF PrefsClear
  <2>2. file'[open].doc = doc'
    BY <2>1, EmptyFits
  <2> QED
    BY <2>1, <2>2 DEF DocSaved
<1>7. CASE SaveStep
  <2>1. CASE SaveOpens
    BY <2>1 DEF SaveOpens, DocSaved
  <2>2. CASE SaveCloses
    BY <2>2 DEF SaveCloses, DocSaved
  <2>3. CASE SaveUnlinks
    BY <2>3, <1>f DEF SaveUnlinks, DocSaved
  <2>4. CASE SaveRenames
    <3>1. open \in Namespaces /\ file' = [file EXCEPT ![open] = temp[open]] /\ doc' = doc
          /\ open' = open /\ saving' = "no" /\ temp[open] = Whole(doc)
      BY <2>4, <1>f DEF SaveRenames, DocSaved
    <3>2. file'[open].doc = doc
      BY <3>1, FileKinds
    <3> QED
      BY <3>1, <3>2 DEF DocSaved
  <2> QED
    BY <1>7, <2>1, <2>2, <2>3, <2>4 DEF SaveStep
<1> QED
  BY <1>0, <1>2, <1>3, <1>4, <1>5, <1>6, <1>7 DEF StoreChanges, Calls

------------------------------------------------------------------------------
(* One piece of work less.                                                 *)

LEMMA RestPending ==
  ASSUME Ordered(todo), todo # << >>, todo' = Tail(todo)
  PROVE  /\ \A w : Pending(w) <=> Pending(w)' \/ w = Head(todo)
         /\ \A k : PutsOf(todo', k) \subseteq PutsOf(todo, k)
         /\ \A k : (Head(todo).op = "put" => Head(todo).arg # k) => PutsOf(todo', k) = PutsOf(todo, k)
<1>1. ToSet(todo) = ToSet(todo') \cup {Head(todo)}
  BY Rest
<1> QED
  BY <1>1 DEF Pending, PutsOf

LEMMA Popped ==
  ASSUME Ordered(todo), OpensFirst, todo # << >>, todo' = Tail(todo), mode' # "off",
         \/ open' = open /\ Head(todo).op # "begin"
         \/ Head(todo) = Begin(open')
         \/ NsOf(Head(todo)) = None /\ Head(todo).op # "begin"
  PROVE  Work'
<1>1. Ordered(todo') /\ (todo' # << >> => Follows(todo[1], todo'[1])) /\ Head(todo) = todo[1]
  BY Rest
<1>2. ASSUME todo' # << >>, NsOf(todo'[1]) # None PROVE open' = NsOf(todo'[1])
  <2>1. Follows(todo[1], todo'[1])
    BY <1>1, <1>2
  <2>2. \A n : Begin(n).op = "begin" /\ Begin(n).arg = n
    BY TasksAre
  <2>3. CASE todo[1] = Begin(NsOf(todo'[1]))
    <3>1. todo[1].op = "begin" /\ todo[1] = Begin(open')
      BY <2>2, <2>3, <1>1
    <3>2. todo[1].arg = NsOf(todo'[1]) /\ todo[1].arg = open'
      BY <2>2, <2>3, <3>1
    <3> QED
      BY <3>2
  <2>4. CASE NsOf(todo[1]) = NsOf(todo'[1])
    <3>1. open = NsOf(todo[1]) /\ NsOf(todo[1]) # None
      BY <2>4, <1>2 DEF OpensFirst
    <3>2. NsOf(Begin(open')) = None
      BY <2>2 DEF NsOf
    <3> QED
      BY <3>1, <3>2, <2>4, <1>1
  <2> QED
    BY <2>1, <2>3, <2>4, <1>2 DEF Follows
<1> QED
  BY <1>1, <1>2 DEF Work, OpensFirst, OffIsEmpty

LEMMA KeysAre ==
  /\ MirrorKeys \subseteq PrefsKeys
  /\ \A k \in MirrorKeys : Home(k) \in Namespaces /\ Home(k) # None
  /\ \A k \in MirrorKeys : \E l \in Loads : Load(k) = Do(l)
  /\ \A k \in MirrorKeys : \A v : NsOf(Put(k, v)) = Home(k)
<1>1. MirrorKeys \subseteq PrefsKeys
  BY NrfAssumption DEF MirrorKeys
<1>2. \A k \in MirrorKeys : Home(k) \in Namespaces /\ Home(k) # None
  BY HomesAre, PrefsAssumption DEF Home
<1>3. \A k \in MirrorKeys : \E l \in Loads : Load(k) = Do(l)
  BY DEF MirrorKeys, Loads, Load
<1>4. \A k \in MirrorKeys : \A v : NsOf(Put(k, v)) = Home(k)
  <2>1. \A k \in SensmosKeys : \A v : NsOf(Put(k, v)) = "sensmos"
    BY PutsAre DEF NsOf
  <2>2. \A k \in MeshKeys : \A v : NsOf(Put(k, v)) = "sensmos_mesh"
    BY PutsAre DEF NsOf, SensmosKeys, MeshKeys
  <2>3. MirrorKeys \subseteq SensmosKeys \cup MeshKeys
    BY DEF MirrorKeys, SensmosKeys, MeshKeys
  <2> QED
    BY <2>1, <2>2, <2>3 DEF Home
<1> QED
  BY <1>1, <1>2, <1>3, <1>4

\* With the same puts, globals and document, a key stays mirrored.
LEMMA MirrorStays ==
  ASSUME NEW k \in MirrorKeys, Mirrored(k), PutsOf(todo', k) = PutsOf(todo, k),
         \A v : Mirrors(ram, k, v) => Mirrors(ram', k, v),
         DocOf(Home(k))'[k] = DocOf(Home(k))[k]
  PROVE  Mirrored(k)'
BY DEF Mirrored

LEMMA SameGlobals ==
  ASSUME NEW k \in MirrorKeys, ram' = ram
  PROVE  \A v : Mirrors(ram, k, v) => Mirrors(ram', k, v)
OBVIOUS

\* Opening, closing and saving do not change what is there to read.
LEMMA DocsStay ==
  ASSUME PrefsInv, DocSaved, ~failed,
         (\E n \in Namespaces : PrefsBegin(n)) \/ PrefsEnd \/ SaveStep \/ UNCHANGED prefsVars
  PROVE  \A n \in Namespaces : DocOf(n)' = DocOf(n)
<1> USE StoreTyped
<1>1. CASE UNCHANGED prefsVars
  BY <1>1 DEF DocOf, prefsVars, fsVars, ramDocVars
<1>2. ASSUME NEW n \in Namespaces, PrefsBegin(n) PROVE \A m \in Namespaces : DocOf(m)' = DocOf(m)
  BY <1>2, PrefsAssumption DEF PrefsBegin, DocOf
<1>3. CASE PrefsEnd
  <2>1. open' = None /\ file' = file /\ file[open].doc = doc
    BY <1>3 DEF PrefsEnd, fsVars, DocSaved
  <2> QED
    BY <2>1, PrefsAssumption DEF DocOf
<1>4. CASE SaveStep
  <2>1. doc' = doc /\ open' = open /\ open \in Namespaces
    BY <1>4 DEF SaveStep, SaveOpens, SaveCloses, SaveUnlinks, SaveRenames
  <2>2. \A n \in Namespaces \ {open} : file'[n] = file[n]
    BY <1>4 DEF SaveStep, SaveOpens, SaveCloses, SaveUnlinks, SaveRenames
  <2> QED
    BY <2>1, <2>2 DEF DocOf
<1> QED
  BY <1>1, <1>2, <1>3, <1>4

LEMMA DocPut ==
  ASSUME PrefsInv, NEW k \in PrefsKeys, NEW v, PrefsPut(k, v)
  PROVE  /\ \A n \in Namespaces, j \in PrefsKeys \ {k} : DocOf(n)'[j] = DocOf(n)[j]
         /\ \A n \in Namespaces : open = n => DocOf(n)'[k] = v
<1>1. doc' = [doc EXCEPT ![k] = v] /\ DOMAIN doc = PrefsKeys /\ open' = open /\ file' = file
  BY StoreTyped DEF PrefsPut, fsVars
<1> QED
  BY <1>1 DEF DocOf

------------------------------------------------------------------------------
(* The loop's steps and the invariant.                                     *)

\* What the store contributes.
LEMMA StoreStep ==
  ASSUME CoreInv, FailNoted, StoreChanges,
         mode' = "off" => PrefsLost \/ (open = None /\ UNCHANGED prefsVars), LoopInv'
  PROVE  CoreInv'
<1>1. PrefsInv' /\ StoreFits'
  BY CallsAreSteps, StoreFitsStep DEF CoreInv
<1>2. DocSaved'
  BY DocSavedStep DEF CoreInv
<1> QED
  BY <1>1, <1>2 DEF CoreInv

LEMMA QuietStep ==
  ASSUME CoreInv, FailNoted, UNCHANGED <<prefsVars, mode, todo, ram, radio>>
  PROVE  CoreInv'
<1>1. UNCHANGED <<open, saving, file, doc>>
  BY DEF prefsVars, fsVars, ramDocVars
<1>2. CoreTyped' /\ Work' /\ LoadsAlone' /\ IdOfKey'
  BY <1>1 DEF CoreInv, LoopInv, CoreTyped, RamTyped, FailNoted, Work, OpensFirst, OffIsEmpty, LoadsAlone,
     IdOfKey, Pending
<1>3. RamMirrors'
  <2> SUFFICES ASSUME mode # "off", ~failed', ~Pending(Restart), NEW k \in MirrorKeys, ~Pending(Load(k))
               PROVE  Mirrored(k)'
    BY DEF RamMirrors, Pending
  <2>1. Mirrored(k)
    BY DEF CoreInv, LoopInv, RamMirrors, FailNoted
  <2>2. DocOf(Home(k))' = DocOf(Home(k))
    BY <1>1 DEF DocOf
  <2> QED
    BY <2>1, <2>2, MirrorStays, SameGlobals
<1>4. LoopInv'
  BY <1>2, <1>3 DEF LoopInv
<1>5. mode' = "off" => open = None
  BY DEF CoreInv, LoopInv, Work, OffIsEmpty
<1> QED
  BY <1>4, <1>5, StoreStep DEF StoreChanges

\* Of a piece of work that is done, when it neither loads nor puts nor clears.
LEMMA TailStep ==
  ASSUME CoreInv, FailNoted, mode' \in {"setup", "run"}, todo # << >>, todo' = Tail(todo),
         UNCHANGED <<ram, radio>>, Head(todo).op \notin Loads \cup {"put", "clear", "restart"},
         \/ \E n \in Namespaces : PrefsBegin(n) /\ Head(todo) = Begin(n)
         \/ PrefsEnd /\ Head(todo) = End
         \/ UNCHANGED prefsVars /\ Head(todo).op # "begin"
  PROVE  CoreInv'
<1>1. Ordered(todo) /\ OpensFirst /\ mode # "off" /\ PrefsInv /\ DocSaved
  BY DEF CoreInv, LoopInv, Work, OffIsEmpty
<1>2. /\ \A w : Pending(w) <=> Pending(w)' \/ w = Head(todo)
      /\ \A k : PutsOf(todo', k) = PutsOf(todo, k)
  BY <1>1, RestPending
<1>3. StoreChanges
  BY DEF StoreChanges, Calls
<1>4. Work'
  <2>1. CASE \E n \in Namespaces : PrefsBegin(n) /\ Head(todo) = Begin(n)
    <3>1. Head(todo) = Begin(open')
      BY <2>1 DEF PrefsBegin
    <3> QED
      BY <3>1, <1>1, Popped
  <2>2. CASE UNCHANGED prefsVars /\ Head(todo).op # "begin"
    BY <2>2, <1>1, Popped DEF prefsVars, ramDocVars
  <2>3. CASE PrefsEnd /\ Head(todo) = End
    <3>1. NsOf(End) = None /\ End.op # "begin"
      BY TasksAre
    <3> QED
      BY <2>3, <3>1, <1>1, Popped
  <2> QED
    BY <2>1, <2>2, <2>3
<1>5. \A k \in MirrorKeys : Pending(Load(k)) <=> Pending(Load(k))'
  <2>1. \A k \in MirrorKeys : Load(k) # Head(todo)
    BY KeysAre, TasksAre
  <2> QED
    BY <2>1, <1>2
<1>6. LoadsAlone'
  BY <1>2, <1>5 DEF CoreInv, LoopInv, LoadsAlone
<1>7. IdOfKey'
  <2>1. Do("identity") # Head(todo) /\ Do("keys") # Head(todo)
    BY TasksAre DEF Loads
  <2> QED
    BY <2>1, <1>2 DEF CoreInv, LoopInv, IdOfKey
<1>8. RamMirrors'
  <2> SUFFICES ASSUME ~failed', ~Pending(Restart)', NEW k \in MirrorKeys, ~Pending(Load(k))'
               PROVE  Mirrored(k)'
    BY DEF RamMirrors
  <2>1. ~Pending(Restart) /\ ~Pending(Load(k)) /\ ~failed
    BY <1>2, <1>5, TasksAre DEF FailNoted
  <2>2. Mirrored(k)
    BY <1>1, <2>1 DEF CoreInv, LoopInv, RamMirrors
  <2>3. DocOf(Home(k))' = DocOf(Home(k))
    BY <1>1, <2>1, KeysAre, DocsStay
  <2> QED
    BY <1>2, <2>2, <2>3, MirrorStays, SameGlobals
<1>9. CoreTyped'
  BY DEF CoreInv, LoopInv, CoreTyped, RamTyped, FailNoted
<1>10. LoopInv'
  BY <1>4, <1>6, <1>7, <1>8, <1>9 DEF LoopInv
<1> QED
  BY <1>3, <1>10, StoreStep

\* Of a put.
LEMMA PutStep ==
  ASSUME CoreInv, FailNoted, mode' = mode, todo # << >>, todo' = Tail(todo),
         UNCHANGED <<ram, radio>>, Head(todo).op = "put", PrefsPut(Head(todo).arg, Head(todo).val)
  PROVE  CoreInv'
<1> DEFINE h == Head(todo)
<1>1. Ordered(todo) /\ OpensFirst /\ mode # "off" /\ PrefsInv /\ DocSaved
  BY DEF CoreInv, LoopInv, Work, OffIsEmpty
<1>2. /\ \A w : Pending(w) <=> Pending(w)' \/ w = h
      /\ \A k : PutsOf(todo', k) \subseteq PutsOf(todo, k)
      /\ \A k : h.arg # k => PutsOf(todo', k) = PutsOf(todo, k)
  BY <1>1, RestPending
<1>3. h \in Works /\ h = todo[1] /\ h \in ToSet(todo)
  BY <1>1, Rest
<1>4. h.arg \in PrefsKeys /\ h.val \in Stored /\ Fits(h.arg, h.val)
  BY <1>3, WorkIs
<1>5. StoreChanges
  BY <1>4 DEF StoreChanges, Calls
<1>6. Work'
  BY <1>1, Popped DEF PrefsPut
<1>7. \A k \in MirrorKeys : Pending(Load(k)) <=> Pending(Load(k))'
  <2>1. \A k \in MirrorKeys : Load(k) # h
    BY KeysAre, TasksAre DEF Loads
  <2> QED
    BY <2>1, <1>2
<1>8. LoadsAlone'
  <2> SUFFICES ASSUME NEW k \in MirrorKeys, Pending(Load(k))' PROVE PutsOf(todo', k) = {}
    BY DEF LoadsAlone
  <2>1. PutsOf(todo, k) = {}
    BY <1>7 DEF CoreInv, LoopInv, LoadsAlone
  <2> QED
    BY <2>1, <1>2
<1>9. IdOfKey'
  <2>1. Do("identity") # h /\ Do("keys") # h
    BY TasksAre
  <2> QED
    BY <2>1, <1>2 DEF CoreInv, LoopInv, IdOfKey
<1>10. RamMirrors'
  <2> SUFFICES ASSUME ~failed', ~Pending(Restart)', NEW k \in MirrorKeys, ~Pending(Load(k))'
               PROVE  Mirrored(k)'
    BY DEF RamMirrors
  <2>1. ~Pending(Restart) /\ ~Pending(Load(k)) /\ ~failed
    BY <1>1, <1>2, <1>7, TasksAre DEF FailNoted
  <2>2. Mirrored(k)
    BY <1>1, <2>1 DEF CoreInv, LoopInv, RamMirrors
  <2>3. CASE h.arg # k
    <3>1. DocOf(Home(k))'[k] = DocOf(Home(k))[k]
      BY <2>3, <1>1, <1>4, KeysAre, DocPut
    <3> QED
      BY <2>2, <2>3, <3>1, <1>2, MirrorStays, SameGlobals
  <2>4. CASE h.arg = k
    <3>1. h \in PutsOf(todo, k)
      BY <2>4, <1>3 DEF PutsOf
    <3>2. NsOf(h) = Home(k)
      BY <2>4, <1>3, WorkIs, KeysAre
    <3>3. open = Home(k)
      BY <3>2, <1>1, <1>3, KeysAre DEF OpensFirst
    <3>4. DocOf(Home(k))'[k] = h.val
      BY <2>4, <3>3, <1>1, <1>4, KeysAre, DocPut
    <3>5. \A w \in PutsOf(todo', k) : Mirrors(ram, k, w.val)
      BY <1>2, <2>2 DEF Mirrored
    <3>6. Mirrors(ram, k, h.val)
      BY <3>1, <2>2 DEF Mirrored
    <3> QED
      BY <3>4, <3>5, <3>6 DEF Mirrored
  <2> QED
    BY <2>3, <2>4
<1>11. CoreTyped'
  BY DEF CoreInv, LoopInv, CoreTyped, RamTyped, FailNoted
<1>12. LoopInv'
  BY <1>6, <1>8, <1>9, <1>10, <1>11 DEF LoopInv
<1> QED
  BY <1>1, <1>5, <1>12, StoreStep

\* Of a clear: the restart is coming.
LEMMA ClearStep ==
  ASSUME CoreInv, FailNoted, mode' = mode, todo # << >>, todo' = Tail(todo),
         UNCHANGED <<ram, radio>>, Head(todo).op = "clear", PrefsClear
  PROVE  CoreInv'
<1>1. Ordered(todo) /\ OpensFirst /\ mode # "off"
  BY DEF CoreInv, LoopInv, Work, OffIsEmpty
<1>2. /\ \A w : Pending(w) <=> Pending(w)' \/ w = Head(todo)
      /\ \A k : PutsOf(todo', k) = PutsOf(todo, k)
  BY <1>1, RestPending
<1>3. StoreChanges
  BY DEF StoreChanges, Calls
<1>4. Work'
  BY <1>1, Popped DEF PrefsClear
<1>5. Pending(Restart)'
  BY <1>1, Rest DEF Pending
<1>6. \A k \in MirrorKeys : Pending(Load(k))' => Pending(Load(k))
  BY <1>2
<1>7. LoadsAlone'
  BY <1>2, <1>6 DEF CoreInv, LoopInv, LoadsAlone
<1>8. IdOfKey'
  <2>1. Do("identity") # Head(todo) /\ Do("keys") # Head(todo)
    BY TasksAre
  <2> QED
    BY <2>1, <1>2 DEF CoreInv, LoopInv, IdOfKey
<1>9. CoreTyped'
  BY DEF CoreInv, LoopInv, CoreTyped, RamTyped, FailNoted
<1>10. LoopInv'
  BY <1>4, <1>5, <1>7, <1>8, <1>9 DEF LoopInv, RamMirrors
<1> QED
  BY <1>1, <1>3, <1>10, StoreStep

\* Of a save.
LEMMA SavingStep ==
  ASSUME CoreInv, FailNoted, UNCHANGED <<mode, todo, ram, radio>>, SaveStep \/ (SaveFault /\ failed')
  PROVE  CoreInv'
<1>1. open' = open /\ saving # "no"
  BY DEF SaveStep, SaveFault, SaveOpens, SaveCloses, SaveUnlinks, SaveRenames, SaveRunsShort,
     SaveRefused, SaveNotRenamed, fsVars
<1>2. mode # "off" /\ PrefsInv /\ DocSaved
  BY <1>1 DEF CoreInv, LoopInv, Work, OffIsEmpty
<1>3. StoreChanges
  BY DEF StoreChanges, Calls
<1>4. CoreTyped' /\ Work' /\ LoadsAlone' /\ IdOfKey'
  BY <1>1, <1>2 DEF CoreInv, LoopInv, CoreTyped, RamTyped, FailNoted, Work, OpensFirst, OffIsEmpty, LoadsAlone,
     IdOfKey, Pending
<1>5. RamMirrors'
  <2> SUFFICES ASSUME ~failed', ~Pending(Restart), NEW k \in MirrorKeys, ~Pending(Load(k))
               PROVE  Mirrored(k)'
    BY DEF RamMirrors, Pending
  <2>1. Mirrored(k) /\ SaveStep /\ ~failed
    BY <1>2 DEF CoreInv, LoopInv, RamMirrors, FailNoted
  <2>2. DocOf(Home(k))' = DocOf(Home(k))
    BY <1>2, <2>1, DocsStay, KeysAre
  <2> QED
    BY <2>1, <2>2, MirrorStays, SameGlobals
<1>6. LoopInv'
  BY <1>4, <1>5 DEF LoopInv
<1> QED
  BY <1>2, <1>3, <1>6, StoreStep

------------------------------------------------------------------------------
(* What setup() loads.                                                     *)

LEMMA LoadHome ==
  /\ \A k \in MirrorKeys : NsOf(Load(k)) = Home(k)
  /\ Load("privkey") = Do("keys") /\ Load("pubkey") = Do("keys") /\ Load("id_ovr") = Do("identity")
  /\ Load("owner") = Do("config")
  /\ \A k \in {"enabled", "channel", "psk", "portnum"} : Load(k) = Do("mesh")
  /\ Load("region") = Do("region")
<1>1. /\ Load("privkey") = Do("keys") /\ Load("pubkey") = Do("keys") /\ Load("id_ovr") = Do("identity")
      /\ Load("owner") = Do("config")
  /\ \A k \in {"enabled", "channel", "psk", "portnum"} : Load(k) = Do("mesh")
      /\ Load("region") = Do("region")
  BY DEF Load
<1>2. \A k \in MirrorKeys : NsOf(Load(k)) = Home(k)
  BY <1>1, TasksAre DEF MirrorKeys, MeshKeys, Home
<1> QED
  BY <1>1, <1>2

LEMMA DocRead ==
  ASSUME CoreInv
  PROVE  /\ \A k \in PrefsKeys : doc[k] \in Stored
         /\ doc["id_ovr"] \in {None, "id"} /\ doc["region"] \in Regions \cup {None}
         /\ {"privkey", "pubkey", "id_ovr", "owner", "pin"} \subseteq PrefsKeys
<1>1. doc \in Docs /\ DocFits(doc)
  BY StoreTyped DEF CoreInv, StoreFits
<1>2. {"privkey", "pubkey", "id_ovr", "owner", "pin", "region"} \subseteq PrefsKeys
  BY NrfAssumption
<1>3. \A k \in PrefsKeys : doc[k] \in Stored
  BY <1>1 DEF Docs, Stored
<1> QED
  BY <1>1, <1>2, <1>3 DEF DocFits, Fits

LEMMA LoadStep ==
  ASSUME CoreInv, FailNoted, mode' = mode, todo # << >>, todo' = Tail(todo),
         UNCHANGED <<prefsVars, radio>>, NEW l \in Loads, Head(todo) = Do(l), RamTyped', IdOfKey',
         \A k \in MirrorKeys : Load(k) = Do(l) => Mirrors(ram', k, doc[k]),
         \A k \in MirrorKeys : Load(k) # Do(l) /\ ~Pending(Load(k))' =>
                                  \A v : Mirrors(ram, k, v) => Mirrors(ram', k, v)
  PROVE  CoreInv'
<1> DEFINE h == Head(todo)
<1>1. Ordered(todo) /\ OpensFirst /\ mode # "off" /\ PrefsInv
  BY DEF CoreInv, LoopInv, Work, OffIsEmpty
<1>2. /\ \A w : Pending(w) <=> Pending(w)' \/ w = h
      /\ \A k : PutsOf(todo', k) = PutsOf(todo, k)
      /\ h = todo[1] /\ h.op = l /\ l # "put" /\ l # "restart" /\ l # "begin"
  BY <1>1, RestPending, Rest, TasksAre DEF Loads
<1>3. UNCHANGED <<open, saving, file, doc>> /\ StoreChanges
  BY DEF StoreChanges, prefsVars, fsVars, ramDocVars
<1>4. Work'
  BY <1>1, <1>2, <1>3, Popped
<1>5. LoadsAlone'
  BY <1>2 DEF CoreInv, LoopInv, LoadsAlone
<1>6. RamMirrors'
  <2> SUFFICES ASSUME ~failed', ~Pending(Restart)', NEW k \in MirrorKeys, ~Pending(Load(k))'
               PROVE  Mirrored(k)'
    BY DEF RamMirrors
  <2>1. DocOf(Home(k))' = DocOf(Home(k))
    BY <1>3 DEF DocOf
  <2>2. CASE Load(k) = h
    <3>1. PutsOf(todo, k) = {}
      BY <1>2, <2>2 DEF CoreInv, LoopInv, LoadsAlone
    <3>2. open = Home(k)
      BY <1>1, <1>2, <2>2, LoadHome, KeysAre DEF OpensFirst
    <3>3. DocOf(Home(k))' = doc
      BY <2>1, <3>2 DEF DocOf
    <3> QED
      BY <1>2, <2>2, <3>1, <3>3 DEF Mirrored
  <2>3. CASE Load(k) # h
    <3>1. ~Pending(Restart) /\ ~Pending(Load(k)) /\ ~failed
      BY <1>1, <1>2, <2>3, TasksAre DEF FailNoted
    <3>2. Mirrored(k)
      BY <1>1, <3>1 DEF CoreInv, LoopInv, RamMirrors
    <3> QED
      BY <1>2, <2>1, <2>3, <3>2, MirrorStays
  <2> QED
    BY <2>2, <2>3
<1>7. CoreTyped'
  BY DEF CoreInv, LoopInv, CoreTyped, FailNoted
<1>8. LoopInv'
  BY <1>4, <1>5, <1>6, <1>7 DEF LoopInv
<1> QED
  BY <1>1, <1>3, <1>8, StoreStep

\* The fields of the globals that each key stands for.
LEMMA MirrorFields ==
  /\ \A r, s, v : /\ s.priv = r.priv => (Mirrors(r, "privkey", v) => Mirrors(s, "privkey", v))
                  /\ s.pub = r.pub => (Mirrors(r, "pubkey", v) => Mirrors(s, "pubkey", v))
                  /\ s.dev = r.dev /\ s.pub = r.pub => (Mirrors(r, "id_ovr", v) => Mirrors(s, "id_ovr", v))
                  /\ s.owner = r.owner => (Mirrors(r, "owner", v) => Mirrors(s, "owner", v))
                  /\ s.meshOn = r.meshOn => (Mirrors(r, "enabled", v) => Mirrors(s, "enabled", v))
                  /\ s.mesh = r.mesh => \A k \in {"channel", "psk", "portnum"} :
                                           Mirrors(r, k, v) => Mirrors(s, k, v)
                  /\ s.region = r.region => (Mirrors(r, "region", v) => Mirrors(s, "region", v))
  /\ \A r, v : /\ Mirrors(r, "privkey", v) <=> r.priv = v
               /\ Mirrors(r, "pubkey", v) <=> r.pub = v
               /\ Mirrors(r, "id_ovr", v) <=> r.dev = Default(v, r.pub)
               /\ Mirrors(r, "owner", v) <=> r.owner = v
               /\ Mirrors(r, "enabled", v) <=> r.meshOn = (v # "off")
               /\ Mirrors(r, "channel", v) <=> r.mesh.channel = Default(v, MeshCfgDefault.channel)
               /\ Mirrors(r, "psk", v) <=> r.mesh.psk = Default(v, MeshCfgDefault.psk)
               /\ Mirrors(r, "portnum", v) <=> r.mesh.portnum = Default(v, MeshCfgDefault.portnum)
               /\ Mirrors(r, "region", v) <=> r.region = Default(v, RegionDefault)
BY DEF Mirrors

LEMMA OldKeysStep ==
  ASSUME CoreInv, FailNoted, OldKeys
  PROVE  CoreInv'
<1>1. /\ todo # << >> /\ todo' = Tail(todo) /\ mode' = mode /\ UNCHANGED <<prefsVars, radio>>
      /\ Head(todo).op = "keys"
      /\ ram' = [ram EXCEPT !.priv = doc["privkey"], !.pub = doc["pubkey"]]
  BY DEF OldKeys, Next1, worldVars
<1>2. Ordered(todo) /\ RamTyped
  BY DEF CoreInv, LoopInv, Work, CoreTyped
<1>3. Head(todo) = Do("keys")
  BY <1>1, <1>2, Rest, WorkIs
<1>4. Pending(Do("identity"))' /\ ~Pending(Do("keys"))'
  BY <1>1, <1>2, <1>3, Rest, TasksAre DEF Pending
<1>5. /\ RamTyped' /\ ram'.priv = doc["privkey"] /\ ram'.pub = doc["pubkey"]
      /\ ram'.owner = ram.owner /\ ram'.meshOn = ram.meshOn /\ ram'.mesh = ram.mesh
      /\ ram'.region = ram.region
  BY <1>1, <1>2, DocRead DEF RamTyped
<1>6. IdOfKey'
  BY <1>4 DEF IdOfKey
<1>7. \A k \in MirrorKeys : Load(k) = Do("keys") => Mirrors(ram', k, doc[k])
  <2>1. \A k \in MirrorKeys : Load(k) = Do("keys") => k = "privkey" \/ k = "pubkey"
    BY LoadHome, TasksAre DEF MirrorKeys
  <2> QED
    BY <2>1, <1>5, MirrorFields
<1>8. \A k \in MirrorKeys : Load(k) # Do("keys") /\ ~Pending(Load(k))' =>
                               \A v : Mirrors(ram, k, v) => Mirrors(ram', k, v)
  <2>1. \A k \in MirrorKeys : Load(k) # Do("keys") /\ ~Pending(Load(k))' =>
           k \in {"owner", "enabled", "channel", "psk", "portnum", "region"}
    BY <1>4, LoadHome DEF MirrorKeys
  <2> QED
    BY <2>1, <1>5, MirrorFields
<1> QED
  BY <1>1, <1>3, <1>5, <1>6, <1>7, <1>8, LoadStep DEF Loads

LEMMA IdentityStep ==
  ASSUME CoreInv, FailNoted, LoadIdentity
  PROVE  CoreInv'
<1>1. /\ todo # << >> /\ todo' = Tail(todo) /\ mode' = mode /\ UNCHANGED <<prefsVars, radio>>
      /\ Head(todo).op = "identity"
      /\ ram' = [ram EXCEPT !.dev = Default(doc["id_ovr"], ram.pub)]
  BY DEF LoadIdentity, Next1, worldVars
<1>2. Ordered(todo) /\ RamTyped
  BY DEF CoreInv, LoopInv, Work, CoreTyped
<1>3. Head(todo) = Do("identity")
  BY <1>1, <1>2, Rest, WorkIs
<1>4. \A w : Pending(w)' => Pending(w)
  BY <1>1, <1>2, RestPending
<1>5. /\ RamTyped' /\ ram'.dev = Default(doc["id_ovr"], ram.pub) /\ ram'.dev \in {ram.pub, "id"}
      /\ ram'.priv = ram.priv /\ ram'.pub = ram.pub
      /\ ram'.owner = ram.owner /\ ram'.meshOn = ram.meshOn /\ ram'.mesh = ram.mesh
      /\ ram'.region = ram.region
  BY <1>1, <1>2, DocRead DEF RamTyped, Default
<1>6. IdOfKey'
  BY <1>4, <1>5 DEF CoreInv, LoopInv, IdOfKey
<1>7. \A k \in MirrorKeys : Load(k) = Do("identity") => Mirrors(ram', k, doc[k])
  <2>1. \A k \in MirrorKeys : Load(k) = Do("identity") => k = "id_ovr"
    BY LoadHome, TasksAre DEF MirrorKeys
  <2> QED
    BY <2>1, <1>5, MirrorFields
<1>8. \A k \in MirrorKeys : Load(k) # Do("identity") /\ ~Pending(Load(k))' =>
                               \A v : Mirrors(ram, k, v) => Mirrors(ram', k, v)
  <2>1. \A k \in MirrorKeys : Load(k) # Do("identity") => k # "id_ovr"
    BY LoadHome
  <2> QED
    BY <2>1, <1>5, MirrorFields DEF MirrorKeys
<1> QED
  BY <1>1, <1>3, <1>5, <1>6, <1>7, <1>8, LoadStep DEF Loads

\* The other loads leave the identity alone.
LEMMA PlainLoadStep ==
  ASSUME CoreInv, FailNoted, LoadConfig \/ LoadMesh \/ LoadRegion
  PROVE  CoreInv'
<1>1. Ordered(todo) /\ RamTyped /\ radio \in BOOLEAN
  BY DEF CoreInv, LoopInv, Work, CoreTyped
<1>2. /\ todo # << >> /\ todo' = Tail(todo) /\ mode' = mode /\ UNCHANGED <<prefsVars, radio>>
      /\ Head(todo).op \in {"config", "mesh", "region"}
  BY DEF LoadConfig, LoadMesh, LoadRegion, Next1, worldVars
<1>3. Head(todo) = Do(Head(todo).op)
  BY <1>1, <1>2, Rest, WorkIs
<1>4. /\ \A w : Pending(w)' => Pending(w)
      /\ Pending(Do("identity")) => Pending(Do("identity"))'
  BY <1>1, <1>2, <1>3, RestPending, TasksAre
<1>5. ASSUME ram'.priv = ram.priv, ram'.pub = ram.pub, ram'.dev = ram.dev PROVE IdOfKey'
  BY <1>4, <1>5 DEF CoreInv, LoopInv, IdOfKey
<1>6. CASE LoadConfig
  <2>1. Head(todo) = Do("config")
    BY <1>3, <1>6 DEF LoadConfig, Next1
  <2>2. ram' = [ram EXCEPT !.pin = Default(doc["pin"], "123456"), !.owner = doc["owner"]]
    BY <1>6 DEF LoadConfig
  <2>3. /\ RamTyped' /\ ram'.priv = ram.priv /\ ram'.pub = ram.pub /\ ram'.dev = ram.dev
        /\ ram'.owner = doc["owner"] /\ ram'.meshOn = ram.meshOn /\ ram'.mesh = ram.mesh
        /\ ram'.region = ram.region
    BY <1>1, <2>2, DocRead DEF RamTyped, Default
  <2>4. \A k \in MirrorKeys : Load(k) = Do("config") => Mirrors(ram', k, doc[k])
    <3>1. \A k \in MirrorKeys : Load(k) = Do("config") => k = "owner"
      BY LoadHome, TasksAre DEF MirrorKeys
    <3> QED
      BY <3>1, <2>3, MirrorFields
  <2>5. \A k \in MirrorKeys : Load(k) # Do("config") => \A v : Mirrors(ram, k, v) => Mirrors(ram', k, v)
    <3>1. \A k \in MirrorKeys : Load(k) # Do("config") => k # "owner"
      BY LoadHome
    <3> QED
      BY <3>1, <2>3, MirrorFields DEF MirrorKeys
  <2> QED
    BY <1>2, <1>5, <2>1, <2>3, <2>4, <2>5, LoadStep DEF Loads
<1>7. CASE LoadMesh
  <2>1. Head(todo) = Do("mesh")
    BY <1>3, <1>7 DEF LoadMesh, Next1
  <2> DEFINE m == [channel |-> Default(doc["channel"], MeshCfgDefault.channel),
                   psk |-> Default(doc["psk"], MeshCfgDefault.psk),
                   portnum |-> Default(doc["portnum"], MeshCfgDefault.portnum)]
  <2>2. ram' = [ram EXCEPT !.meshOn = doc["enabled"] # "off", !.mesh = m]
    BY <1>7 DEF LoadMesh
  <2>6. m \in MeshCfgs
    <3>1. {doc["channel"], doc["psk"], doc["portnum"]} \subseteq Stored
      BY DocRead, NrfAssumption
    <3> QED
      BY <3>1, NrfAssumption DEF MeshCfgs, Default, Stored
  <2>7. /\ m.channel = Default(doc["channel"], MeshCfgDefault.channel)
        /\ m.psk = Default(doc["psk"], MeshCfgDefault.psk)
        /\ m.portnum = Default(doc["portnum"], MeshCfgDefault.portnum)
    OBVIOUS
  <2> HIDE DEF m
  <2>3. /\ RamTyped' /\ ram'.priv = ram.priv /\ ram'.pub = ram.pub /\ ram'.dev = ram.dev
        /\ ram'.owner = ram.owner /\ ram'.meshOn = (doc["enabled"] # "off")
        /\ ram'.mesh = m /\ ram'.region = ram.region
    BY <1>1, <2>2, <2>6 DEF RamTyped
  <2>4. \A k \in MirrorKeys : Load(k) = Do("mesh") => Mirrors(ram', k, doc[k])
    <3>1. \A k \in MirrorKeys : Load(k) = Do("mesh") => k \in {"enabled", "channel", "psk", "portnum"}
      BY LoadHome, TasksAre DEF MirrorKeys
    <3> QED
      BY <3>1, <2>3, <2>7, MirrorFields
  <2>5. \A k \in MirrorKeys : Load(k) # Do("mesh") => \A v : Mirrors(ram, k, v) => Mirrors(ram', k, v)
    <3>1. \A k \in MirrorKeys : Load(k) # Do("mesh") => k \notin {"enabled", "channel", "psk", "portnum"}
      BY LoadHome
    <3> QED
      BY <3>1, <2>3, MirrorFields DEF MirrorKeys
  <2> QED
    BY <1>2, <1>5, <2>1, <2>3, <2>4, <2>5, LoadStep DEF Loads
<1>8. CASE LoadRegion
  <2>1. Head(todo) = Do("region")
    BY <1>3, <1>8 DEF LoadRegion, Next1
  <2>2. ram' = [ram EXCEPT !.region = Default(doc["region"], RegionDefault), !.on = radio]
    BY <1>8 DEF LoadRegion
  <2>3. /\ RamTyped' /\ ram'.priv = ram.priv /\ ram'.pub = ram.pub /\ ram'.dev = ram.dev
        /\ ram'.owner = ram.owner /\ ram'.meshOn = ram.meshOn /\ ram'.mesh = ram.mesh
        /\ ram'.region = Default(doc["region"], RegionDefault)
    BY <1>1, <2>2, DocRead, NrfAssumption DEF RamTyped, Default
  <2>4. \A k \in MirrorKeys : Load(k) = Do("region") => Mirrors(ram', k, doc[k])
    <3>1. \A k \in MirrorKeys : Load(k) = Do("region") => k = "region"
      BY LoadHome, TasksAre DEF MirrorKeys
    <3> QED
      BY <3>1, <2>3, MirrorFields
  <2>5. \A k \in MirrorKeys : Load(k) # Do("region") => \A v : Mirrors(ram, k, v) => Mirrors(ram', k, v)
    <3>1. \A k \in MirrorKeys : Load(k) # Do("region") => k # "region"
      BY LoadHome
    <3> QED
      BY <3>1, <2>3, MirrorFields DEF MirrorKeys
  <2> QED
    BY <1>2, <1>5, <2>1, <2>3, <2>4, <2>5, LoadStep DEF Loads
<1> QED
  BY <1>6, <1>7, <1>8

------------------------------------------------------------------------------
(* What setup() adds to its work.                                          *)

LEMMA SameStore ==
  ASSUME CoreInv, FailNoted, UNCHANGED <<prefsVars, radio>>, mode # "off", mode' \in {"setup", "run"},
         RamTyped', Work', LoadsAlone', IdOfKey',
         \A k \in MirrorKeys : ~failed' /\ ~Pending(Restart)' /\ ~Pending(Load(k))' => Mirrored(k)'
  PROVE  CoreInv'
<1>1. CoreTyped'
  BY DEF CoreInv, LoopInv, CoreTyped, FailNoted
<1>2. LoopInv'
  BY <1>1 DEF LoopInv, RamMirrors
<1> QED
  BY <1>2, StoreStep DEF StoreChanges

LEMMA SameDocs ==
  ASSUME UNCHANGED prefsVars
  PROVE  UNCHANGED <<open, saving, file, doc>> /\ \A n : DocOf(n)' = DocOf(n)
BY DEF DocOf, prefsVars, fsVars, ramDocVars

\* Bare work in the namespace that is open, before the rest of it.
LEMMA Prepended ==
  ASSUME Ordered(todo), OpensFirst, todo # << >>, todo[1].op # "begin", NsOf(todo[1]) # None,
         NEW p \in Seq(Works), p # << >>, \A w \in ToSet(p) : Bare(w) /\ NsOf(w) = NsOf(todo[1]),
         open' = open, mode' # "off", todo' = p \o Tail(todo)
  PROVE  Work' /\ ToSet(todo') = ToSet(p) \cup ToSet(Tail(todo))
<1> DEFINE t == Tail(todo)
<1>1. Ordered(t) /\ (t # << >> => Follows(todo[1], t[1]))
  BY Rest
<1>2. /\ Len(p) \in Nat /\ Len(p) # 0
      /\ \A i \in 1 .. Len(p) : p[i] \in ToSet(p) /\ (i < Len(p) => p[i + 1] \in ToSet(p))
  BY DEF ToSet
<1>3. p[1] \in ToSet(p) /\ p[Len(p)] \in ToSet(p)
  BY <1>2
<1>4. Ordered(p)
  BY <1>2, PlainOrdered DEF Bare, Follows
<1>5. \A n : todo[1] # Begin(n)
  BY TasksAre
<1>6. t # << >> => Follows(p[Len(p)], t[1])
  BY <1>1, <1>3, <1>5 DEF Follows
<1>7. t \in Seq(Works)
  BY <1>1 DEF Ordered
<1> HIDE DEF t
<1>8. Ordered(p \o t) /\ ToSet(p \o t) = ToSet(p) \cup ToSet(t)
  BY <1>1, <1>4, <1>6, Joined DEF Bare, Plain
<1>9. (p \o t)[1] = p[1] /\ p \o t # << >>
  BY <1>2, <1>7
<1>10. OpensFirst' /\ OffIsEmpty'
  BY <1>3, <1>9 DEF OpensFirst, OffIsEmpty, t
<1> QED
  BY <1>8, <1>10 DEF Work, t

LEMMA NewKeysStep ==
  ASSUME CoreInv, FailNoted, NewKeys
  PROVE  CoreInv'
<1>1. PICK p \in Pairs \ minted :
         /\ ram' = [ram EXCEPT !.priv = p, !.pub = p]
         /\ todo' = <<Put("privkey", p), Put("pubkey", p)>> \o Tail(todo)
  BY DEF NewKeys
<1>2. /\ todo # << >> /\ Head(todo).op = "keys" /\ mode' = mode
      /\ UNCHANGED prefsVars /\ radio' = radio
  BY DEF NewKeys, Next1
<1>3. Ordered(todo) /\ OpensFirst /\ RamTyped /\ mode \in {"setup", "run"}
  BY <1>2 DEF CoreInv, LoopInv, Work, OffIsEmpty, CoreTyped
<1>4. Head(todo) = Do("keys") /\ todo[1] = Do("keys")
  BY <1>2, <1>3, Rest, WorkIs
<1>5. /\ p \in Stored
      /\ Bare(Put("privkey", p)) /\ NsOf(Put("privkey", p)) = "sensmos"
      /\ Bare(Put("pubkey", p)) /\ NsOf(Put("pubkey", p)) = "sensmos"
  BY NrfAssumption, PutsAre DEF Stored, SensmosKeys
<1> DEFINE s == <<Put("privkey", p), Put("pubkey", p)>>
<1>6. s \in Seq(Works) /\ s # << >> /\ ToSet(s) = {Put("privkey", p), Put("pubkey", p)}
  BY <1>5, Shown DEF Bare
<1>7. NsOf(todo[1]) = "sensmos" /\ todo[1].op = "keys"
  BY <1>4, TasksAre
<1>8. UNCHANGED <<open, saving, file, doc>> /\ \A n : DocOf(n)' = DocOf(n)
  BY <1>2, SameDocs
<1>9. Work' /\ ToSet(todo') = ToSet(s) \cup ToSet(Tail(todo))
  <2>1. \A w \in ToSet(s) : Bare(w) /\ NsOf(w) = NsOf(todo[1])
    BY <1>5, <1>6, <1>7
  <2>2. NsOf(todo[1]) # None /\ todo' = s \o Tail(todo)
    BY <1>1, <1>7, HomesAre, PrefsAssumption
  <2> HIDE DEF s
  <2> QED
    BY <2>1, <2>2, <1>2, <1>3, <1>6, <1>7, <1>8, Prepended
<1> HIDE DEF s
<1>10. /\ ToSet(todo) = ToSet(Tail(todo)) \cup {Do("keys")}
       /\ Do("identity") \in ToSet(Tail(todo)) /\ \A w \in ToSet(Tail(todo)) : w.op # "keys"
  BY <1>2, <1>3, <1>4, <1>7, Rest
<1>11. Pending(Do("keys")) /\ ~Pending(Do("keys"))' /\ Pending(Do("identity"))'
  BY <1>6, <1>9, <1>10, PutsAre, TasksAre DEF Pending
<1>12. \A w : w.op # "put" /\ w.op # "keys" => (Pending(w) <=> Pending(w)')
  BY <1>6, <1>9, <1>10, PutsAre, TasksAre DEF Pending
<1>13. \A k : k \notin {"privkey", "pubkey"} => PutsOf(todo', k) = PutsOf(todo, k)
  BY <1>6, <1>9, <1>10, PutsAre, TasksAre DEF PutsOf
<1>14. \A k \in {"privkey", "pubkey"} : PutsOf(todo', k) = {Put(k, p)}
  <2>1. \A k \in {"privkey", "pubkey"} : PutsOf(todo, k) = {}
    BY <1>11, LoadHome DEF CoreInv, LoopInv, LoadsAlone, MirrorKeys
  <2> QED
    BY <2>1, <1>6, <1>9, <1>10, PutsAre DEF PutsOf
<1>15. \A k \in MirrorKeys : Load(k).op # "put" /\ (Load(k).op = "keys" <=> Load(k) = Do("keys"))
  BY KeysAre, TasksAre DEF Loads
<1>16. /\ RamTyped' /\ ram'.priv = p /\ ram'.pub = p
       /\ ram'.owner = ram.owner /\ ram'.meshOn = ram.meshOn /\ ram'.mesh = ram.mesh
       /\ ram'.region = ram.region
  BY <1>1, <1>3, <1>5 DEF RamTyped
<1>17. LoadsAlone'
  <2> SUFFICES ASSUME NEW k \in MirrorKeys, Pending(Load(k))' PROVE PutsOf(todo', k) = {}
    BY DEF LoadsAlone
  <2>1. Load(k) # Do("keys")
    BY <1>11
  <2>2. k \notin {"privkey", "pubkey"} /\ Pending(Load(k))
    BY <2>1, <1>12, <1>15, LoadHome
  <2> QED
    BY <2>2, <1>13 DEF CoreInv, LoopInv, LoadsAlone
<1>18. IdOfKey'
  BY <1>11 DEF IdOfKey
<1>19. ASSUME NEW k \in MirrorKeys, ~failed', ~Pending(Restart)', ~Pending(Load(k))' PROVE Mirrored(k)'
  <2>1. CASE k \in {"privkey", "pubkey"}
    <3>1. Mirrors(ram', k, p) /\ Put(k, p).val = p
      BY <2>1, <1>16, MirrorFields, PutsAre
    <3> QED
      BY <2>1, <3>1, <1>14 DEF Mirrored
  <2>2. CASE k \notin {"privkey", "pubkey"}
    <3>1. k \in {"owner", "enabled", "channel", "psk", "portnum", "region"}
      BY <2>2, <1>19, <1>11, LoadHome DEF MirrorKeys
    <3>2. Load(k) # Do("keys")
      BY <3>1, LoadHome, TasksAre
    <3>3. ~Pending(Load(k)) /\ ~Pending(Restart) /\ ~failed
      BY <3>2, <1>3, <1>2, <1>12, <1>15, <1>19, TasksAre DEF FailNoted
    <3>4. Mirrored(k)
      BY <3>3, <1>3 DEF CoreInv, LoopInv, RamMirrors
    <3>5. \A v : Mirrors(ram, k, v) => Mirrors(ram', k, v)
      BY <3>1, <1>16, MirrorFields
    <3> QED
      BY <2>2, <3>4, <3>5, <1>8, <1>13, MirrorStays
  <2> QED
    BY <2>1, <2>2
<1> QED
  BY <1>2, <1>3, <1>9, <1>16, <1>17, <1>18, <1>19, SameStore

LEMMA LoadTokenStep ==
  ASSUME CoreInv, FailNoted, LoadToken
  PROVE  CoreInv'
<1>1. /\ todo # << >> /\ Head(todo).op = "token" /\ mode' = mode
      /\ UNCHANGED prefsVars /\ radio' = radio /\ ram' = ram
  BY DEF LoadToken, Next1, worldVars
<1>2. Ordered(todo) /\ OpensFirst /\ RamTyped /\ mode \in {"setup", "run"}
  BY <1>1 DEF CoreInv, LoopInv, Work, OffIsEmpty, CoreTyped
<1>3. Head(todo) = Do("token") /\ todo[1] = Do("token")
  BY <1>1, <1>2, Rest, WorkIs
<1>4. CASE doc["api_token"] # None
  <2>1. Tail(todo) \in Seq(Works)
    BY <1>1, <1>2, Rest DEF Ordered
  <2>2. << >> \o Tail(todo) = Tail(todo)
    BY <2>1
  <2>3. todo' = Tail(todo)
    BY <2>2, <1>4 DEF LoadToken
  <2> QED
    BY <2>3, <1>1, <1>2, TailStep DEF Loads
<1>5. CASE doc["api_token"] = None
  <2> DEFINE w0 == Put("api_token", "token")
             s == <<w0>>
  <2>1. Bare(w0) /\ NsOf(w0) = "sensmos" /\ w0.op = "put" /\ w0.arg = "api_token"
    BY NrfAssumption, PutsAre DEF Stored, SensmosKeys
  <2>2. s \in Seq(Works) /\ s # << >> /\ ToSet(s) = {w0}
    BY <2>1, Shown DEF Bare
  <2>3. NsOf(todo[1]) = "sensmos" /\ todo[1].op = "token"
    BY <1>3, TasksAre
  <2>4. UNCHANGED <<open, saving, file, doc>> /\ \A n : DocOf(n)' = DocOf(n)
    BY <1>1, SameDocs
  <2>5. todo' = s \o Tail(todo)
    BY <1>5 DEF LoadToken
  <2> HIDE DEF s, w0
  <2>6. Work' /\ ToSet(todo') = ToSet(s) \cup ToSet(Tail(todo))
    <3>1. \A w \in ToSet(s) : Bare(w) /\ NsOf(w) = NsOf(todo[1])
      BY <2>1, <2>2, <2>3
    <3>2. NsOf(todo[1]) # None
      BY <2>3, HomesAre, PrefsAssumption
    <3> QED
      BY <3>1, <3>2, <1>1, <1>2, <2>2, <2>3, <2>4, <2>5, Prepended
  <2>7. ToSet(todo) = ToSet(Tail(todo)) \cup {Do("token")}
    BY <1>1, <1>2, <1>3, Rest
  <2>8. \A w : w.op # "put" /\ w.op # "token" => (Pending(w) <=> Pending(w)')
    BY <2>1, <2>2, <2>6, <2>7, TasksAre DEF Pending
  <2>9. \A k \in MirrorKeys : PutsOf(todo', k) = PutsOf(todo, k)
    BY <2>1, <2>2, <2>6, <2>7, TasksAre DEF PutsOf, MirrorKeys
  <2>10. \A k \in MirrorKeys : Pending(Load(k)) <=> Pending(Load(k))'
    BY <2>8, KeysAre, TasksAre DEF Loads
  <2>11. LoadsAlone' /\ IdOfKey' /\ RamTyped'
    BY <1>1, <1>2, <2>8, <2>9, <2>10, TasksAre DEF CoreInv, LoopInv, LoadsAlone, IdOfKey, RamTyped
  <2>12. ASSUME NEW k \in MirrorKeys, ~failed', ~Pending(Restart)', ~Pending(Load(k))' PROVE Mirrored(k)'
    <3>1. ~Pending(Load(k)) /\ ~Pending(Restart) /\ ~failed
      BY <1>1, <1>2, <2>8, <2>10, <2>12, TasksAre DEF FailNoted
    <3>2. Mirrored(k)
      BY <3>1, <1>2 DEF CoreInv, LoopInv, RamMirrors
    <3> QED
      BY <3>2, <1>1, <2>4, <2>9, MirrorStays, SameGlobals
  <2> QED
    BY <1>1, <1>2, <2>6, <2>11, <2>12, SameStore
<1> QED
  BY <1>4, <1>5

LEMMA NoKeysStep ==
  ASSUME CoreInv, FailNoted, NoKeys, failed'
  PROVE  CoreInv'
<1>1. /\ todo # << >> /\ Head(todo).op = "keys" /\ mode' = mode /\ ram' = ram
      /\ UNCHANGED prefsVars /\ radio' = radio /\ todo' = <<End>> \o AfterIdentity
  BY DEF NoKeys, Next1, worldVars
<1>2. Ordered(todo) /\ RamTyped /\ mode \in {"setup", "run"}
  BY <1>1 DEF CoreInv, LoopInv, Work, OffIsEmpty, CoreTyped
<1>3. ram.priv = None
  <2>1. Head(todo) = Do("keys") /\ Head(todo) \in ToSet(todo)
    BY <1>1, <1>2, Rest, WorkIs
  <2> QED
    BY <2>1 DEF CoreInv, LoopInv, IdOfKey, Pending
<1> DEFINE e == <<End>>
<1>4. /\ Ordered(e) /\ ToSet(e) = {End} /\ Bare(End) /\ NsOf(End) = None /\ End.op = "end"
      /\ e \in Seq(Works)
  BY Ends, TasksAre DEF ListOK, Tasks, Ordered
<1>5. /\ Ordered(AfterIdentity) /\ AfterIdentity # << >> /\ NsOf(AfterIdentity[1]) = None
      /\ \A w \in ToSet(AfterIdentity) : Bare(w) /\ w.op # "put"
      /\ AfterIdentity \in Seq(Works)
  BY AfterIs DEF Ordered
<1>6. Ordered(e \o AfterIdentity) /\ ToSet(e \o AfterIdentity) = ToSet(e) \cup ToSet(AfterIdentity)
  <2>1. \A w \in ToSet(e) : w.op # "keys" /\ w.op # "auth"
    BY <1>4
  <2>2. Follows(e[Len(e)], AfterIdentity[1])
    BY <1>5 DEF Follows
  <2> HIDE DEF e
  <2> QED
    BY <2>1, <2>2, <1>4, <1>5, Joined
<1>7. (e \o AfterIdentity)[1] = End
  BY <1>5
<1>8. UNCHANGED <<open, saving, file, doc>>
  BY <1>1, SameDocs
<1> HIDE DEF e
<1>9. \A w \in ToSet(todo') : Bare(w) /\ w.op # "put"
  BY <1>1, <1>4, <1>5, <1>6 DEF e
<1>10. Work'
  BY <1>1, <1>2, <1>4, <1>6, <1>7 DEF Work, OpensFirst, OffIsEmpty, e
<1>11. LoadsAlone' /\ IdOfKey' /\ RamTyped'
  BY <1>1, <1>2, <1>3, <1>9 DEF LoadsAlone, PutsOf, IdOfKey, RamTyped
<1> QED
  BY <1>1, <1>2, <1>10, <1>11, SameStore

------------------------------------------------------------------------------
(* Handlers.                                                               *)

\* Of a handler that changes globals and leaves work to do, with nothing of
\* setup() or of another handler pending.
LEMMA HandleStep ==
  ASSUME CoreInv, FailNoted, UNCHANGED <<prefsVars, mode, radio>>, mode # "off",
         \A w \in ToSet(todo) : w.op \notin Loads \cup {"put", "restart"},
         ListOK(todo'), RamTyped', ram'.priv = ram.priv, ram'.pub = ram.pub, ram'.dev \in {ram.dev, "id"},
         \A k \in MirrorKeys : \A w \in PutsOf(todo', k) : Mirrors(ram', k, w.val),
         \A k \in MirrorKeys : PutsOf(todo', k) = {} => \A v : Mirrors(ram, k, v) => Mirrors(ram', k, v)
  PROVE  CoreInv'
<1>1. \A k \in MirrorKeys : ~Pending(Load(k)) /\ ~Pending(Load(k))'
  BY KeysAre, TasksAre DEF ListOK, Pending, Loads
<1>2. ~Pending(Do("keys"))' /\ ~Pending(Do("identity")) /\ ~Pending(Restart)
  BY TasksAre DEF ListOK, Pending, Loads
<1>3. Work'
  BY DEF ListOK, Work, OpensFirst, OffIsEmpty
<1>4. LoadsAlone' /\ IdOfKey'
  BY <1>1, <1>2 DEF LoadsAlone, IdOfKey, CoreInv, LoopInv
<1>5. \A n : DocOf(n)' = DocOf(n)
  BY SameDocs
<1>6. ASSUME NEW k \in MirrorKeys, ~failed' PROVE Mirrored(k)'
  <2>1. Mirrored(k) /\ PutsOf(todo, k) = {}
    BY <1>1, <1>2, <1>6 DEF CoreInv, LoopInv, RamMirrors, FailNoted, PutsOf
  <2> QED
    BY <2>1, <1>5 DEF Mirrored
<1>7. mode \in {"setup", "run"}
  BY DEF CoreInv, LoopInv, CoreTyped
<1> QED
  BY <1>3, <1>4, <1>6, <1>7, SameStore

\* Globals that only differ in what no key stands for.
LEMMA SameMirrors ==
  ASSUME ram'.priv = ram.priv, ram'.pub = ram.pub, ram'.dev = ram.dev, ram'.owner = ram.owner,
         ram'.meshOn = ram.meshOn, ram'.mesh = ram.mesh, ram'.region = ram.region
  PROVE  \A k \in MirrorKeys : \A v : Mirrors(ram, k, v) => Mirrors(ram', k, v)
BY MirrorFields DEF MirrorKeys

\* What AuthPin may leave to do.
LEMMA PinLists ==
  LET p == <<End>> \o Edit("sensmos", <<Put("pin", "4711")>>) \o <<Do("authok"), Do("free")>>
  IN  /\ ListOK(p)
      /\ ToSet(p) = {End, Begin("sensmos"), Put("pin", "4711"), Do("authok"), Do("free")}
      /\ ListOK(<<End, Do("free")>>) /\ ToSet(<<End, Do("free")>>) = {End, Do("free")}
      /\ ListOK(<<End, Do("authok"), Do("free")>>)
      /\ ToSet(<<End, Do("authok"), Do("free")>>) = {End, Do("authok"), Do("free")}
<1> DEFINE b == Do("authok")
           c == Do("free")
           w0 == Put("pin", "4711")
           u == <<End>>
           v == Edit("sensmos", <<w0>>)
           x == <<b, c>>
<1>1. /\ \A w \in {End, b, c} : Bare(w) /\ NsOf(w) = None /\ w.op \in {"end", "authok", "free"}
      /\ End.op = "end" /\ b.op = "authok" /\ c.op = "free"
  BY TasksAre DEF Tasks
<1>2. Bare(w0) /\ NsOf(w0) = "sensmos" /\ w0.op = "put"
  BY NrfAssumption, PutsAre DEF Stored, SensmosKeys
<1>3. Carried(v) /\ ToSet(v) = {Begin("sensmos"), End, w0}
  BY <1>2, HomesAre, OnePut
<1>4. ListOK(u) /\ ToSet(u) = {End} /\ u # << >>
  BY Ends DEF End
<1>5. \A w \in {Begin("sensmos"), End, w0} : w.op \notin Loads \cup {"auth", "keys"}
  BY <1>1, <1>2, TasksAre DEF Loads
<1> HIDE DEF b, c, w0, v
<1>6. /\ x \in Seq(Works) /\ ToSet(x) = {b, c} /\ x # << >> /\ x[1] = b /\ NsOf(x[1]) = None
      /\ Len(x) = 2 /\ x[2] = c
  <2>1. b \in Works /\ c \in Works /\ NsOf(b) = None
    BY <1>1 DEF Bare
  <2>2. x \in Seq(Works) /\ ToSet(x) = {b, c}
    BY <2>1, PairShown
  <2> QED
    BY <2>1, <2>2
<1>7. Ordered(x) /\ ListOK(x)
  <2>1. \A i \in 1 .. Len(x) : i < Len(x) => Follows(x[i], x[i + 1])
    BY <1>1, <1>6 DEF Follows
  <2>2. \A w \in ToSet(x) : Plain(w)
    BY <1>1, <1>6 DEF Bare
  <2>3. Ordered(x)
    BY <2>1, <2>2, <1>6, PlainOrdered
  <2> QED
    BY <2>3, <1>1, <1>6 DEF ListOK, Loads
<1>8. \A p, q : ListOK(p) /\ ListOK(q) /\ p # << >> /\ (\A w \in ToSet(p) : w.op # "auth")
                   => ListOK(p \o q) /\ ToSet(p \o q) = ToSet(p) \cup ToSet(q) /\ p \o q # << >>
  <2> SUFFICES ASSUME NEW p, NEW q, ListOK(p), ListOK(q), p # << >>, \A w \in ToSet(p) : w.op # "auth"
               PROVE  ListOK(p \o q) /\ ToSet(p \o q) = ToSet(p) \cup ToSet(q) /\ p \o q # << >>
    OBVIOUS
  <2>1. p \in Seq(Works) /\ q \in Seq(Works)
    BY DEF ListOK, Ordered
  <2>2. Ordered(p \o q) /\ ToSet(p \o q) = ToSet(p) \cup ToSet(q)
    <3>1. \A w \in ToSet(p) : w.op # "keys"
      BY DEF ListOK, Loads
    <3>2. q # << >> => Follows(p[Len(p)], q[1])
      BY DEF ListOK, Follows
    <3> QED
      BY <3>1, <3>2, Joined DEF ListOK
  <2>3. p \o q # << >> /\ (p \o q)[1] = p[1]
    BY <2>1
  <2> QED
    BY <2>2, <2>3 DEF ListOK
<1>9. /\ ListOK(u \o v) /\ ToSet(u \o v) = {End, Begin("sensmos"), w0} /\ u \o v # << >>
  <2>1. \A w \in ToSet(u) : w.op # "auth"
    BY <1>1, <1>4
  <2> HIDE DEF u
  <2> QED
    BY <2>1, <1>3, <1>4, <1>8 DEF Carried
<1>10. ListOK((u \o v) \o x) /\ ToSet((u \o v) \o x) = {End, Begin("sensmos"), w0, b, c}
  <2> DEFINE z == u \o v
  <2>1. /\ ListOK(z) /\ ToSet(z) = {End, Begin("sensmos"), w0} /\ z # << >>
        /\ \A w \in ToSet(z) : w.op # "auth"
    BY <1>5, <1>9
  <2> HIDE DEF z, x
  <2>2. ListOK(z \o x) /\ ToSet(z \o x) = ToSet(z) \cup ToSet(x)
    BY <2>1, <1>7, <1>8
  <2> QED
    BY <2>1, <2>2, <1>6 DEF z
<1>11. ListOK(<<End, c>>) /\ ToSet(<<End, c>>) = {End, c}
  <2> DEFINE y == <<End, c>>
  <2>a. End \in Works /\ c \in Works
    BY <1>1 DEF Bare
  <2>b. y \in Seq(Works) /\ ToSet(y) = {End, c}
    BY <2>a, PairShown
  <2>1. y \in Seq(Works) /\ ToSet(y) = {End, c} /\ y # << >> /\ y[1] = End /\ Len(y) = 2 /\ y[2] = c
    BY <2>b
  <2> HIDE DEF y
  <2>2. \A i \in 1 .. Len(y) : i < Len(y) => Follows(y[i], y[i + 1])
    BY <1>1, <2>1 DEF Follows
  <2>3. Ordered(y)
    BY <2>1, <2>2, <1>1, PlainOrdered DEF Bare
  <2> QED
    BY <2>1, <2>3, <1>1 DEF ListOK, Loads, y
<1>12. ListOK(<<End, b, c>>) /\ ToSet(<<End, b, c>>) = {End, b, c}
  <2> DEFINE y == <<End, b, c>>
  <2>a. End \in Works /\ b \in Works /\ c \in Works
    BY <1>1 DEF Bare
  <2>0. y \in Seq(Works) /\ ToSet(y) = {End, b, c}
    <3>1. y \in Seq(Works)
      BY <2>a
    <3>2. DOMAIN y = {1, 2, 3} /\ y[1] = End /\ y[2] = b /\ y[3] = c
      OBVIOUS
    <3> HIDE DEF y
    <3>3. ToSet(y) = {End, b, c}
      BY <3>1, <3>2 DEF ToSet
    <3> QED
      BY <3>1, <3>3
  <2>1. /\ y \in Seq(Works) /\ ToSet(y) = {End, b, c} /\ y # << >> /\ y[1] = End /\ Len(y) = 3
        /\ y[2] = b /\ y[3] = c
    BY <2>0
  <2> HIDE DEF y
  <2>2. \A i \in 1 .. Len(y) : i < Len(y) => Follows(y[i], y[i + 1])
    <3> SUFFICES ASSUME NEW i \in 1 .. Len(y), i < Len(y) PROVE Follows(y[i], y[i + 1])
      OBVIOUS
    <3>1. i = 1 \/ i = 2
      BY <2>1
    <3> QED
      BY <3>1, <1>1, <2>1 DEF Follows
  <2>3. Ordered(y)
    BY <2>1, <2>2, <1>1, PlainOrdered DEF Bare
  <2> QED
    BY <2>1, <2>3, <1>1 DEF ListOK, Loads, y
<1> QED
  BY <1>10, <1>11, <1>12 DEF b, c, w0, u, v, x

LEMMA AuthPinStep ==
  ASSUME CoreInv, FailNoted, AuthPin
  PROVE  CoreInv'
<1>1. /\ todo # << >> /\ Head(todo).op = "auth" /\ mode' = mode
      /\ UNCHANGED prefsVars /\ radio' = radio
  BY DEF AuthPin, Next1, worldVars
<1>2. Ordered(todo) /\ RamTyped /\ mode # "off"
  BY <1>1 DEF CoreInv, LoopInv, Work, OffIsEmpty, CoreTyped
<1>3. ToSet(todo) = {Do("auth"), Do("free")}
  <2>1. Head(todo) = Do("auth") /\ Head(todo) = todo[1]
    BY <1>1, <1>2, Rest, WorkIs
  <2>2. ToSet(todo) = ToSet(<<Do("free")>>) \cup {Do("auth")}
    BY <1>1, <1>2, <2>1, Rest
  <2> QED
    BY <2>2, Ends
<1>4. \A w \in ToSet(todo) : w.op \notin Loads \cup {"put", "restart"}
  BY <1>3, TasksAre DEF Loads
<1>5. /\ RamTyped' /\ ram'.priv = ram.priv /\ ram'.pub = ram.pub /\ ram'.dev = ram.dev
      /\ ram'.owner = ram.owner /\ ram'.meshOn = ram.meshOn /\ ram'.mesh = ram.mesh
      /\ ram'.region = ram.region
  <2>1. CASE doc["pin"] = None
    <3>1. ram' = [ram EXCEPT !.pin = "4711"]
      BY <2>1 DEF AuthPin
    <3> QED
      BY <3>1, <1>2, NrfAssumption DEF RamTyped, Stored
  <2>2. CASE doc["pin"] # None
    BY <2>2, <1>2 DEF AuthPin, RamTyped
  <2> QED
    BY <2>1, <2>2
<1>6. /\ ListOK(todo')
      /\ ToSet(todo') \subseteq {End, Begin("sensmos"), Put("pin", "4711"), Do("authok"), Do("free")}
  <2>1. CASE doc["pin"] = None
    BY <2>1, PinLists DEF AuthPin
  <2>2. CASE doc["pin"] # None
    <3>1. todo' \in {<<End, Do("free")>>, <<End, Do("authok"), Do("free")>>}
      BY <2>2 DEF AuthPin
    <3>2. \/ ListOK(todo') /\ ToSet(todo') = {End, Do("free")}
          \/ ListOK(todo') /\ ToSet(todo') = {End, Do("authok"), Do("free")}
      BY <3>1, PinLists
    <3> QED
      BY <3>2
  <2> QED
    BY <2>1, <2>2
<1>7. \A k \in MirrorKeys : PutsOf(todo', k) = {}
  BY <1>6, TasksAre, PutsAre DEF PutsOf, MirrorKeys
<1> QED
  BY <1>1, <1>2, <1>4, <1>5, <1>6, <1>7, SameMirrors, HandleStep

\* A handler runs when nothing is pending.
LEMMA HandledStep ==
  ASSUME CoreInv, FailNoted, NEW g, NEW q, Handle(g, q), ListOK(q), RamTyped',
         g.priv = ram.priv, g.pub = ram.pub, g.dev \in {ram.dev, "id"},
         \A k \in MirrorKeys : \A w \in PutsOf(q, k) : Mirrors(g, k, w.val),
         \A k \in MirrorKeys : PutsOf(q, k) = {} => \A v : Mirrors(ram, k, v) => Mirrors(g, k, v)
  PROVE  CoreInv'
<1>1. /\ mode = "run" /\ todo = << >> /\ ram' = g /\ todo' = q
      /\ UNCHANGED <<prefsVars, mode, radio>>
  BY DEF Handle, Idle, worldVars
<1>2. ToSet(todo) = {}
  BY <1>1 DEF ToSet
<1> QED
  BY <1>1, <1>2, HandleStep

\* What only changes the clock and the plan, or nothing.
LEMMA QuietHandle ==
  ASSUME CoreInv, FailNoted, NEW s \in BOOLEAN, NEW on \in BOOLEAN, NEW slot \in Slots, NEW q,
         Handle([ram EXCEPT !.synced = s, !.on = on, !.slot = slot], q), ListOK(q),
         \A w \in ToSet(q) : w.op = "put" => w.arg \notin MirrorKeys
  PROVE  CoreInv'
<1> DEFINE g == [ram EXCEPT !.synced = s, !.on = on, !.slot = slot]
<1>1. RamTyped
  BY DEF CoreInv, LoopInv, CoreTyped
<1>2. ram' = g
  BY DEF Handle
<1>3. /\ RamTyped' /\ ram'.priv = ram.priv /\ ram'.pub = ram.pub /\ ram'.dev = ram.dev
      /\ ram'.owner = ram.owner /\ ram'.meshOn = ram.meshOn /\ ram'.mesh = ram.mesh
      /\ ram'.region = ram.region
  BY <1>1, <1>2 DEF RamTyped
<1>4. \A k \in MirrorKeys : PutsOf(q, k) = {}
  BY DEF PutsOf
<1>5. Handle(ram', q)
  BY <1>2
<1>6. \A k \in MirrorKeys : \A v : Mirrors(ram, k, v) => Mirrors(ram', k, v)
  BY <1>3, SameMirrors
<1> HIDE DEF g
<1> QED
  BY <1>2, <1>3, <1>4, <1>5, <1>6, HandledStep

LEMMA NothingChanged ==
  ASSUME RamTyped
  PROVE  /\ ram = [ram EXCEPT !.synced = ram.synced, !.on = ram.on, !.slot = ram.slot]
         /\ \A s : [ram EXCEPT !.synced = s] = [ram EXCEPT !.synced = s, !.on = ram.on, !.slot = ram.slot]
         /\ \A on, slot : [ram EXCEPT !.on = on, !.slot = slot]
                             = [ram EXCEPT !.synced = ram.synced, !.on = on, !.slot = slot]
         /\ ram.synced \in BOOLEAN /\ ram.on \in BOOLEAN /\ ram.slot \in Slots
BY DEF RamTyped

LEMMA IdHandle ==
  ASSUME CoreInv, FailNoted, NEW q, Handle([ram EXCEPT !.dev = "id"], q), ListOK(q),
         Put("id_ovr", "id") \in ToSet(q),
         \A w \in ToSet(q) : w.op = "put" /\ w.arg \in MirrorKeys => w = Put("id_ovr", "id")
  PROVE  CoreInv'
<1> DEFINE g == [ram EXCEPT !.dev = "id"]
<1>1. RamTyped /\ "id" \in Stored /\ "id" # None
  BY NrfAssumption, PrefsAssumption DEF CoreInv, LoopInv, CoreTyped, Stored
<1>2. ram' = g
  BY DEF Handle
<1>3. /\ RamTyped' /\ ram'.priv = ram.priv /\ ram'.pub = ram.pub /\ ram'.dev = "id"
      /\ ram'.owner = ram.owner /\ ram'.meshOn = ram.meshOn /\ ram'.mesh = ram.mesh
      /\ ram'.region = ram.region
  BY <1>1, <1>2 DEF RamTyped
<1>4. /\ PutsOf(q, "id_ovr") = {Put("id_ovr", "id")}
      /\ \A k \in MirrorKeys \ {"id_ovr"} : PutsOf(q, k) = {}
  BY PutsAre DEF PutsOf, MirrorKeys
<1>5. Handle(ram', q)
  BY <1>2
<1>6. Mirrors(ram', "id_ovr", Put("id_ovr", "id").val)
  BY <1>1, <1>3, PutsAre, MirrorFields DEF Default
<1>7. \A k \in MirrorKeys \ {"id_ovr"} : \A v : Mirrors(ram, k, v) => Mirrors(ram', k, v)
  BY <1>3, MirrorFields DEF MirrorKeys
<1> HIDE DEF g
<1> QED
  BY <1>3, <1>4, <1>5, <1>6, <1>7, HandledStep

LEMMA OwnerHandle ==
  ASSUME CoreInv, FailNoted, NEW o \in Stored, NEW q, Handle([ram EXCEPT !.owner = o], q), ListOK(q),
         Put("owner", o) \in ToSet(q),
         \A w \in ToSet(q) : w.op = "put" /\ w.arg \in MirrorKeys => w = Put("owner", o)
  PROVE  CoreInv'
<1> DEFINE g == [ram EXCEPT !.owner = o]
<1>1. RamTyped
  BY DEF CoreInv, LoopInv, CoreTyped
<1>2. ram' = g
  BY DEF Handle
<1>3. /\ RamTyped' /\ ram'.priv = ram.priv /\ ram'.pub = ram.pub /\ ram'.dev = ram.dev
      /\ ram'.owner = o /\ ram'.meshOn = ram.meshOn /\ ram'.mesh = ram.mesh
      /\ ram'.region = ram.region
  BY <1>1, <1>2 DEF RamTyped
<1>4. /\ PutsOf(q, "owner") = {Put("owner", o)}
      /\ \A k \in MirrorKeys \ {"owner"} : PutsOf(q, k) = {}
  BY PutsAre DEF PutsOf, MirrorKeys
<1>5. Handle(ram', q)
  BY <1>2
<1>6. Mirrors(ram', "owner", Put("owner", o).val)
  BY <1>3, PutsAre, MirrorFields
<1>7. \A k \in MirrorKeys \ {"owner"} : \A v : Mirrors(ram, k, v) => Mirrors(ram', k, v)
  BY <1>3, MirrorFields DEF MirrorKeys
<1> HIDE DEF g
<1> QED
  BY <1>3, <1>4, <1>5, <1>6, <1>7, HandledStep

LEMMA MeshHandle ==
  ASSUME CoreInv, FailNoted, NEW on \in BOOLEAN, NEW m \in MeshCfgs, NEW q,
         Handle([ram EXCEPT !.meshOn = on, !.mesh = m], q), ListOK(q), MeshWrites(on, m) \subseteq ToSet(q),
         \A w \in ToSet(q) : w.op = "put" => w \in MeshWrites(on, m)
  PROVE  CoreInv'
<1> DEFINE g == [ram EXCEPT !.meshOn = on, !.mesh = m]
           e == OnOff(on)
<1>1. /\ RamTyped /\ m.channel # None /\ m.psk # None /\ m.portnum # None
      /\ on = (OnOff(on) # "off")
  BY PrefsAssumption DEF CoreInv, LoopInv, CoreTyped, MeshCfgs, OnOff
<1>2. ram' = g
  BY DEF Handle
<1>3. /\ RamTyped' /\ ram'.priv = ram.priv /\ ram'.pub = ram.pub /\ ram'.dev = ram.dev
      /\ ram'.owner = ram.owner /\ ram'.meshOn = on /\ ram'.mesh = m
      /\ ram'.region = ram.region
  BY <1>1, <1>2 DEF RamTyped
<1>5. Handle(ram', q)
  BY <1>2
<1> HIDE DEF g, e
<1>6. \A w \in MeshWrites(on, m) : Mirrors(ram', w.arg, w.val)
  <2>1. /\ Mirrors(ram', "enabled", OnOff(on)) /\ Mirrors(ram', "channel", m.channel)
        /\ Mirrors(ram', "psk", m.psk) /\ Mirrors(ram', "portnum", m.portnum)
    BY <1>1, <1>3, MirrorFields DEF Default
  <2> QED
    BY <2>1, PutsAre DEF MeshWrites
<1>4. \A k \in MirrorKeys : \A w \in PutsOf(q, k) : Mirrors(ram', k, w.val)
  BY <1>6 DEF PutsOf
<1>7. ASSUME NEW k \in MirrorKeys, PutsOf(q, k) = {}
      PROVE  \A v : Mirrors(ram, k, v) => Mirrors(ram', k, v)
  <2>1. k \notin {"enabled", "channel", "psk", "portnum"}
    <3>1. \A w \in MeshWrites(on, m) : w.op = "put" /\ w.arg # k
      BY <1>7, PutsAre DEF PutsOf, MeshWrites
    <3> QED
      BY <3>1, PutsAre DEF MeshWrites
  <2> QED
    BY <2>1, <1>3, MirrorFields DEF MirrorKeys
<1> QED
  BY <1>3, <1>4, <1>5, <1>7, HandledStep

\* An order leaves a configuration, whatever it leaves out.
LEMMA ReconfiguredIs ==
  ASSUME RamTyped, NEW c \in MeshOrders
  PROVE  Reconfigured(c) \in MeshCfgs
<1>1. ram.mesh \in MeshCfgs
  BY DEF RamTyped
<1>2. {c.channel, c.psk, c.portnum} \subseteq Stored
  BY NrfAssumption DEF Stored
<1> QED
  BY <1>1, <1>2 DEF Reconfigured, MeshCfgs, Default, Stored

LEMMA RegionHandle ==
  ASSUME CoreInv, FailNoted, NEW r \in Regions, NEW q, Handle([ram EXCEPT !.region = r], q), ListOK(q),
         Put("region", r) \in ToSet(q),
         \A w \in ToSet(q) : w.op = "put" /\ w.arg \in MirrorKeys => w = Put("region", r)
  PROVE  CoreInv'
<1> DEFINE g == [ram EXCEPT !.region = r]
<1>1. RamTyped /\ r # None
  BY NrfAssumption, PrefsAssumption DEF CoreInv, LoopInv, CoreTyped
<1>2. ram' = g
  BY DEF Handle
<1>3. /\ RamTyped' /\ ram'.priv = ram.priv /\ ram'.pub = ram.pub /\ ram'.dev = ram.dev
      /\ ram'.owner = ram.owner /\ ram'.meshOn = ram.meshOn /\ ram'.mesh = ram.mesh
      /\ ram'.region = r
  BY <1>1, <1>2 DEF RamTyped
<1>4. /\ PutsOf(q, "region") = {Put("region", r)}
      /\ \A k \in MirrorKeys \ {"region"} : PutsOf(q, k) = {}
  BY PutsAre DEF PutsOf, MirrorKeys
<1>5. Handle(ram', q)
  BY <1>2
<1>6. Mirrors(ram', "region", Put("region", r).val)
  BY <1>1, <1>3, PutsAre, MirrorFields DEF Default
<1>7. \A k \in MirrorKeys \ {"region"} : \A v : Mirrors(ram, k, v) => Mirrors(ram', k, v)
  BY <1>3, MirrorFields DEF MirrorKeys
<1> HIDE DEF g
<1> QED
  BY <1>3, <1>4, <1>5, <1>6, <1>7, HandledStep

\* What is no put.
LEMMA NoneLeft ==
  \A n : \A w \in {Begin(n), End, Do("free"), Do("clear"), Restart, Do("auth")} : w.op # "put"
BY TasksAre

LEMMA ConsoleStep ==
  ASSUME CoreInv, FailNoted, Console
  PROVE  CoreInv'
<1>t. RamTyped
  BY DEF CoreInv, LoopInv, CoreTyped
<1>v. {"id", "4711", "on", "off"} \cup Owners \cup Regions \cup {None} \subseteq Stored
  BY NrfAssumption DEF Stored
<1>1. CASE cmd_set_pin
  <2> DEFINE q == Edit("sensmos", <<Put("pin", "4711")>>)
  <2>1. Bare(Put("pin", "4711")) /\ NsOf(Put("pin", "4711")) = "sensmos"
    BY <1>v, PutsAre DEF SensmosKeys
  <2>2. Carried(q) /\ ToSet(q) = {Begin("sensmos"), End, Put("pin", "4711")}
    BY <2>1, HomesAre, PutsAre, OnePut
  <2>3. \A w \in ToSet(q) : w.op = "put" => w.arg \notin MirrorKeys
    BY <2>2, NoneLeft, PutsAre DEF MirrorKeys
  <2>4. Handle([ram EXCEPT !.synced = ram.synced, !.on = ram.on, !.slot = ram.slot], q)
    BY <1>1, <1>t, NothingChanged DEF cmd_set_pin
  <2> HIDE DEF q
  <2> QED
    BY <1>t, <2>2, <2>3, <2>4, NothingChanged, QuietHandle DEF Carried
<1>2. CASE cmd_set_device_id
  <2> DEFINE q == Edit("sensmos", <<Put("id_ovr", "id")>>)
  <2>1. Bare(Put("id_ovr", "id")) /\ NsOf(Put("id_ovr", "id")) = "sensmos"
    BY PutsAre
  <2>2. Carried(q) /\ ToSet(q) = {Begin("sensmos"), End, Put("id_ovr", "id")}
    BY <2>1, HomesAre, PutsAre, OnePut
  <2>3. \A w \in ToSet(q) : w.op = "put" => w = Put("id_ovr", "id")
    BY <2>2, NoneLeft
  <2>4. Handle([ram EXCEPT !.dev = "id"], q)
    BY <1>2 DEF cmd_set_device_id
  <2> HIDE DEF q
  <2> QED
    BY <2>2, <2>3, <2>4, IdHandle DEF Carried
<1>3. CASE cmd_set_time
  <2>1. Handle([ram EXCEPT !.synced = TRUE, !.on = ram.on, !.slot = ram.slot], << >>)
    BY <1>3, <1>t, NothingChanged DEF cmd_set_time
  <2>2. ListOK(<< >>) /\ ToSet(<< >>) = {}
    BY Ends
  <2> QED
    BY <1>t, <2>1, <2>2, NothingChanged, QuietHandle
<1>o. ASSUME NEW o \in Owners \cup {None},
             Handle([ram EXCEPT !.owner = o], Edit("sensmos", <<Put("owner", o)>>))
      PROVE  CoreInv'
  <2> DEFINE q == Edit("sensmos", <<Put("owner", o)>>)
  <2>0. o \in Stored
    BY <1>v
  <2>1. Bare(Put("owner", o)) /\ NsOf(Put("owner", o)) = "sensmos"
    BY <2>0, PutsAre DEF SensmosKeys
  <2>2. Carried(q) /\ ToSet(q) = {Begin("sensmos"), End, Put("owner", o)}
    BY <2>1, HomesAre, PutsAre, OnePut
  <2>3. \A w \in ToSet(q) : w.op = "put" => w = Put("owner", o)
    BY <2>2, NoneLeft
  <2>4. Handle([ram EXCEPT !.owner = o], q)
    BY <1>o
  <2> HIDE DEF q
  <2> QED
    BY <2>0, <2>2, <2>3, <2>4, OwnerHandle DEF Carried
<1>4. CASE cmd_unregister
  BY <1>4, <1>o DEF cmd_unregister
<1>5. CASE \E o \in Owners : cmd_set_owner(o)
  BY <1>5, <1>o DEF cmd_set_owner
<1>6. CASE cmd_done
  <2> DEFINE q == <<Restart>>
  <2>1. ListOK(q) /\ ToSet(q) = {Restart}
    BY Ends DEF Restart
  <2>2. \A w \in ToSet(q) : w.op # "put"
    BY <2>1, NoneLeft
  <2>3. Handle([ram EXCEPT !.synced = ram.synced, !.on = ram.on, !.slot = ram.slot], q)
    BY <1>6, <1>t, NothingChanged DEF cmd_done
  <2> HIDE DEF q
  <2> QED
    BY <1>t, <2>1, <2>2, <2>3, NothingChanged, QuietHandle
<1>7. CASE cmd_factory_reset
  <2>1. ListOK(FactoryReset) /\ \A w \in ToSet(FactoryReset) : w.op # "put"
    BY ResetIs, NoneLeft
  <2>2. Handle([ram EXCEPT !.synced = ram.synced, !.on = ram.on, !.slot = ram.slot], FactoryReset)
    BY <1>7, <1>t, NothingChanged DEF cmd_factory_reset
  <2> QED
    BY <1>t, <2>1, <2>2, NothingChanged, QuietHandle
<1>8. ASSUME NEW on \in BOOLEAN, NEW c \in MeshOrders, cmd_set_mesh_cfg(on, c) PROVE CoreInv'
  <2> DEFINE m == Reconfigured(c)
             q == mesh_tx_configure(on, m)
  <2>0. m \in MeshCfgs
    BY <1>t, ReconfiguredIs
  <2>3. Handle([ram EXCEPT !.meshOn = on, !.mesh = m], q)
    BY <1>8 DEF cmd_set_mesh_cfg
  <2> HIDE DEF m
  <2>1. Carried(q) /\ ToSet(q) = {Begin("sensmos_mesh"), End} \cup MeshWrites(on, m)
    BY <2>0, MeshPuts
  <2>2. \A w \in ToSet(q) : w.op = "put" => w \in MeshWrites(on, m)
    BY <2>1, NoneLeft
  <2> HIDE DEF q
  <2> QED
    BY <2>0, <2>1, <2>2, <2>3, MeshHandle DEF Carried
<1>9. ASSUME NEW r \in Regions, cmd_set_region(r) PROVE CoreInv'
  <2> DEFINE q == Edit("sensmos_mesh", <<Put("region", r)>>)
  <2>1. Bare(Put("region", r)) /\ NsOf(Put("region", r)) = "sensmos_mesh"
    BY PutsAre
  <2>2. Carried(q) /\ ToSet(q) = {Begin("sensmos_mesh"), End, Put("region", r)}
    BY <2>1, HomesAre, PutsAre, OnePut
  <2>3. \A w \in ToSet(q) : w.op = "put" => w = Put("region", r)
    BY <2>2, NoneLeft
  <2>4. Handle([ram EXCEPT !.region = r], q)
    BY <1>9 DEF cmd_set_region
  <2> HIDE DEF q
  <2> QED
    BY <2>2, <2>3, <2>4, RegionHandle DEF Carried
<1>10. ASSUME NEW on \in BOOLEAN, NEW s \in Slots, cmd_lora_cfg(on, s) PROVE CoreInv'
  <2>1. Handle([ram EXCEPT !.synced = ram.synced, !.on = on, !.slot = s], << >>)
    BY <1>10, <1>t, NothingChanged DEF cmd_lora_cfg
  <2>2. ListOK(<< >>) /\ ToSet(<< >>) = {}
    BY Ends
  <2> QED
    BY <1>t, <2>1, <2>2, NothingChanged, QuietHandle
<1> QED
  BY <1>1, <1>2, <1>3, <1>4, <1>5, <1>6, <1>7, <1>8, <1>9, <1>10 DEF Console

\* The app's commands are handled as the console's are, and then the slot is
\* freed.
LEMMA CarryIs ==
  ASSUME NEW g, NEW q \in Seq(Works), Carry(g, q), \A w \in ToSet(q) : w # Restart
  PROVE  Handle(g, q \o <<Do("free")>>)
<1>1. ASSUME q # << >> PROVE Last(q) \in ToSet(q)
  <2>1. Len(q) \in 1 .. Len(q)
    BY <1>1
  <2> QED
    BY <2>1 DEF Last, ToSet
<1> QED
  BY <1>1 DEF Carry

LEMMA CarriedIs ==
  ASSUME NEW g, NEW q, Carry(g, q), Carried(q), \A w \in ToSet(q) : w # Restart
  PROVE  /\ Handle(g, q \o <<Do("free")>>) /\ ListOK(q \o <<Do("free")>>)
         /\ ToSet(q \o <<Do("free")>>) = ToSet(q) \cup {Do("free")}
<1>1. q \in Seq(Works)
  BY DEF Carried, ListOK, Ordered
<1> QED
  BY <1>1, CarryIs DEF Carried

LEMMA NothingCarried == Carried(<< >>) /\ ToSet(<< >>) = {}
<1>1. ListOK(<< >>) /\ ToSet(<< >>) = {}
  BY Ends
<1> QED
  BY <1>1, Freed

LEMMA AuthIs ==
  LET q == <<Begin("sensmos"), Do("auth")>>
  IN  /\ q \in Seq(Works) /\ ToSet(q) = {Begin("sensmos"), Do("auth")}
      /\ ListOK(q \o <<Do("free")>>)
      /\ ToSet(q \o <<Do("free")>>) = {Begin("sensmos"), Do("auth"), Do("free")}
<1> DEFINE a == Begin("sensmos")
           b == Do("auth")
           c == Do("free")
           q == <<a, b>>
           r == <<a, b, c>>
<1>1. /\ a \in Works /\ b \in Works /\ c \in Works /\ NsOf(a) = None /\ NsOf(b) = None /\ NsOf(c) = None
      /\ a.op = "begin" /\ b.op = "auth" /\ c.op = "free" /\ c = Do("free")
  BY HomesAre, TasksAre DEF Bare, Tasks
<1> HIDE DEF a, b, c
<1>2. <<a, b>> \o <<c>> = <<a, b, c>>
  <2> DEFINE s == <<a, b>> \o <<c>>
  <2>1. s \in Seq(Works) /\ Len(s) = 3 /\ s[1] = a /\ s[2] = b /\ s[3] = c
    BY <1>1
  <2> HIDE DEF s
  <2>2. s = <<a, b, c>>
    BY <2>1
  <2> QED
    BY <2>2 DEF s
<1>3. q \in Seq(Works) /\ ToSet(q) = {a, b}
  BY <1>1, PairShown
<1>4. /\ r \in Seq(Works) /\ r # << >> /\ Len(r) = 3 /\ r[1] = a /\ r[2] = b /\ r[3] = c
      /\ DOMAIN r = {1, 2, 3}
  BY <1>1
<1> HIDE DEF r
<1>5. ToSet(r) = {a, b, c}
  BY <1>4 DEF ToSet
<1>6. Ordered(r)
  <2> SUFFICES ASSUME NEW i \in 1 .. Len(r)
               PROVE  /\ i < Len(r) => Follows(r[i], r[i + 1])
                      /\ r[i].op # "keys" /\ r[i].op # "clear"
                      /\ r[i].op = "auth" => i + 1 = Len(r) /\ r[i + 1] = Do("free")
    BY <1>4 DEF Ordered
  <2>1. i = 1 \/ i = 2 \/ i = 3
    BY <1>4
  <2> QED
    BY <2>1, <1>1, <1>4 DEF Follows
<1>7. ListOK(r)
  BY <1>1, <1>4, <1>5, <1>6 DEF ListOK, Loads
<1> QED
  BY <1>1, <1>2, <1>3, <1>5, <1>7 DEF a, b, c, r

LEMMA CommandStep ==
  ASSUME CoreInv, FailNoted, ble_process_cmd
  PROVE  CoreInv'
<1>t. RamTyped
  BY DEF CoreInv, LoopInv, CoreTyped
<1>v. {"id", "on", "off", "url", "blob", "addr"} \cup Owners \subseteq Stored
  BY NrfAssumption DEF Stored
<1>n. \A w \in {Begin("sensmos"), Begin("sensmos_mesh"), Begin("wallet_bak"), End, Do("auth"), Do("free")} :
         w.op # "put" /\ w # Restart
  BY TasksAre
<1>p. \A k, v : Put(k, v) # Restart
  BY PutsAre, TasksAre
<1>g. /\ ram = [ram EXCEPT !.synced = ram.synced, !.on = ram.on, !.slot = ram.slot]
      /\ ram.synced \in BOOLEAN /\ ram.on \in BOOLEAN /\ ram.slot \in Slots
  BY <1>t, NothingChanged
<1>q. ASSUME NEW s \in BOOLEAN, Carry([ram EXCEPT !.synced = s, !.on = ram.on, !.slot = ram.slot], << >>)
      PROVE  CoreInv'
  <2> DEFINE g == [ram EXCEPT !.synced = s, !.on = ram.on, !.slot = ram.slot]
             e == << >>
             r == e \o <<Do("free")>>
  <2>0. Carry(g, e) /\ Carried(e) /\ \A w \in ToSet(e) : w # Restart
    BY <1>q, NothingCarried
  <2> HIDE DEF g, e
  <2>1. Handle(g, r) /\ ListOK(r) /\ ToSet(r) = ToSet(e) \cup {Do("free")}
    BY <2>0, CarriedIs
  <2>2. \A w \in ToSet(r) : w.op # "put"
    BY <2>1, <1>n, NothingCarried DEF e
  <2> HIDE DEF r
  <2> QED
    BY <1>g, <2>1, <2>2, QuietHandle DEF g
<1>a. ASSUME Carry(ram, << >>) PROVE CoreInv'
  <2>1. Carry([ram EXCEPT !.synced = ram.synced, !.on = ram.on, !.slot = ram.slot], << >>)
    BY <1>a, <1>g
  <2> QED
    BY <2>1, <1>g, <1>q
<1>1. CASE CmdOnlyAnswers \/ CmdTrustRound \/ CmdTrustSign
  BY <1>1, <1>a DEF CmdOnlyAnswers, CmdTrustRound, CmdTrustSign
<1>2. CASE CmdSetTime
  <2>1. Carry([ram EXCEPT !.synced = TRUE, !.on = ram.on, !.slot = ram.slot], << >>)
    BY <1>2, <1>t, NothingChanged DEF CmdSetTime
  <2> QED
    BY <2>1, <1>q
<1>3. CASE CmdFactoryReset
  <2>1. /\ ListOK(FactoryReset) /\ FactoryReset # << >> /\ Last(FactoryReset) = Restart
        /\ \A w \in ToSet(FactoryReset) : w.op # "put"
    BY ResetIs, NoneLeft
  <2>2. Handle(ram, FactoryReset \o << >>)
    BY <1>3, <2>1 DEF CmdFactoryReset, Carry
  <2>3. FactoryReset \o << >> = FactoryReset
    <3>1. FactoryReset \in Seq(Works)
      BY <2>1 DEF ListOK, Ordered
    <3> QED
      BY <3>1
  <2>4. Handle([ram EXCEPT !.synced = ram.synced, !.on = ram.on, !.slot = ram.slot], FactoryReset)
    BY <2>2, <2>3, <1>g
  <2> QED
    BY <1>g, <2>1, <2>4, QuietHandle
<1>4. CASE CmdAuth
  <2> DEFINE q == <<Begin("sensmos"), Do("auth")>>
             r == q \o <<Do("free")>>
  <2>1. /\ q \in Seq(Works) /\ ToSet(q) = {Begin("sensmos"), Do("auth")}
        /\ ListOK(r) /\ ToSet(r) = {Begin("sensmos"), Do("auth"), Do("free")}
    BY AuthIs
  <2>2. Carry(ram, q)
    BY <1>4 DEF CmdAuth
  <2> HIDE DEF q
  <2>3. Handle(ram, r)
    BY <2>1, <2>2, <1>n, CarryIs
  <2>4. \A w \in ToSet(r) : w.op # "put"
    BY <2>1, <1>n
  <2> HIDE DEF r
  <2>5. Handle([ram EXCEPT !.synced = ram.synced, !.on = ram.on, !.slot = ram.slot], r)
    BY <2>3, <1>g
  <2> QED
    BY <1>g, <2>1, <2>4, <2>5, QuietHandle
<1>5. CASE CmdSetDeviceId
  <2> DEFINE q == Edit("sensmos", <<Put("id_ovr", "id")>>)
             r == q \o <<Do("free")>>
  <2>1. Bare(Put("id_ovr", "id")) /\ NsOf(Put("id_ovr", "id")) = "sensmos"
    BY PutsAre
  <2>2. Carried(q) /\ ToSet(q) = {Begin("sensmos"), End, Put("id_ovr", "id")}
    BY <2>1, HomesAre, PutsAre, OnePut
  <2>3. Carry([ram EXCEPT !.dev = "id"], q)
    BY <1>5 DEF CmdSetDeviceId
  <2> HIDE DEF q
  <2>4. Handle([ram EXCEPT !.dev = "id"], r) /\ ListOK(r) /\ ToSet(r) = ToSet(q) \cup {Do("free")}
    BY <2>2, <2>3, <1>n, <1>p, CarriedIs
  <2> HIDE DEF r
  <2> QED
    BY <2>2, <2>4, <1>n, IdHandle
<1>6. CASE CmdRegister
  <2>0. PICK o \in Owners : Carry([ram EXCEPT !.owner = o],
                                  Edit("sensmos", <<Put("owner", o), Put("backend_url", "url")>>))
    BY <1>6 DEF CmdRegister
  <2> DEFINE q == Edit("sensmos", <<Put("owner", o), Put("backend_url", "url")>>)
             r == q \o <<Do("free")>>
  <2>1. /\ o \in Stored
        /\ Bare(Put("owner", o)) /\ NsOf(Put("owner", o)) = "sensmos"
        /\ Bare(Put("backend_url", "url")) /\ NsOf(Put("backend_url", "url")) = "sensmos"
    BY <1>v, PutsAre DEF SensmosKeys
  <2>2. Carried(q) /\ ToSet(q) = {Begin("sensmos"), End, Put("owner", o), Put("backend_url", "url")}
    BY <2>1, HomesAre, PutsAre, TwoPuts
  <2>3. Carry([ram EXCEPT !.owner = o], q)
    BY <2>0
  <2> HIDE DEF q
  <2>4. Handle([ram EXCEPT !.owner = o], r) /\ ListOK(r) /\ ToSet(r) = ToSet(q) \cup {Do("free")}
    BY <2>2, <2>3, <1>n, <1>p, CarriedIs
  <2>5. \A w \in ToSet(r) : w.op = "put" /\ w.arg \in MirrorKeys => w = Put("owner", o)
    BY <2>2, <2>4, <1>n, PutsAre DEF MirrorKeys
  <2> HIDE DEF r
  <2> QED
    BY <2>1, <2>2, <2>4, <2>5, OwnerHandle
<1>7. CASE CmdWalletBackup
  <2> DEFINE q == Edit("wallet_bak", <<Put("blob", "blob"), Put("addr", "addr")>>)
             r == q \o <<Do("free")>>
  <2>1. /\ Bare(Put("blob", "blob")) /\ NsOf(Put("blob", "blob")) = None
        /\ Bare(Put("addr", "addr")) /\ NsOf(Put("addr", "addr")) = None
    BY <1>v, PutsAre
  <2>2. Carried(q) /\ ToSet(q) = {Begin("wallet_bak"), End, Put("blob", "blob"), Put("addr", "addr")}
    BY <2>1, HomesAre, PutsAre, TwoPuts
  <2>3. Carry(ram, q)
    BY <1>7 DEF CmdWalletBackup
  <2> HIDE DEF q
  <2>4. Handle(ram, r) /\ ListOK(r) /\ ToSet(r) = ToSet(q) \cup {Do("free")}
    BY <2>2, <2>3, <1>n, <1>p, CarriedIs
  <2>5. \A w \in ToSet(r) : w.op = "put" => w.arg \notin MirrorKeys
    BY <2>2, <2>4, <1>n, PutsAre DEF MirrorKeys
  <2> HIDE DEF r
  <2>6. Handle([ram EXCEPT !.synced = ram.synced, !.on = ram.on, !.slot = ram.slot], r)
    BY <2>4, <1>g
  <2> QED
    BY <1>g, <2>4, <2>5, <2>6, QuietHandle
<1>8. CASE CmdSetMeshCfg
  <2>0. PICK on \in BOOLEAN, c \in MeshOrders :
           Carry([ram EXCEPT !.meshOn = on, !.mesh = Reconfigured(c)],
                 mesh_tx_configure(on, Reconfigured(c)))
    BY <1>8 DEF CmdSetMeshCfg
  <2> DEFINE m == Reconfigured(c)
             q == mesh_tx_configure(on, m)
             r == q \o <<Do("free")>>
  <2>6. m \in MeshCfgs
    BY <1>t, ReconfiguredIs
  <2>2. Carry([ram EXCEPT !.meshOn = on, !.mesh = m], q)
    BY <2>0
  <2> HIDE DEF m
  <2>1. Carried(q) /\ ToSet(q) = {Begin("sensmos_mesh"), End} \cup MeshWrites(on, m)
    BY <2>6, MeshPuts
  <2> HIDE DEF q
  <2>3. \A w \in ToSet(q) : w # Restart
    BY <2>1, <1>n, <1>p DEF MeshWrites
  <2>4. /\ Handle([ram EXCEPT !.meshOn = on, !.mesh = m], r) /\ ListOK(r)
        /\ ToSet(r) = ToSet(q) \cup {Do("free")}
    BY <2>1, <2>2, <2>3, CarriedIs
  <2>5. \A w \in ToSet(r) : w.op = "put" => w \in MeshWrites(on, m)
    BY <2>1, <2>4, <1>n
  <2> HIDE DEF r
  <2> QED
    BY <2>1, <2>4, <2>5, <2>6, MeshHandle
<1> QED
  BY <1>1, <1>2, <1>3, <1>4, <1>5, <1>6, <1>7, <1>8 DEF ble_process_cmd

------------------------------------------------------------------------------
(* Every step of the loop task.                                            *)

LEMMA StoreNextStep ==
  ASSUME CoreInv, FailNoted, StoreNext
  PROVE  CoreInv'
<1>1. /\ todo # << >> /\ todo' = Tail(todo) /\ mode' = mode /\ ram' = ram /\ radio' = radio
      /\ saving = "no"
  BY DEF StoreNext, Next1, worldVars
<1>2. Ordered(todo) /\ mode \in {"setup", "run"}
  BY <1>1 DEF CoreInv, LoopInv, Work, OffIsEmpty, CoreTyped
<1>3. Head(todo) \in Works
  BY <1>1, <1>2, Rest
<1>4. CASE Next1("begin") /\ PrefsBegin(Head(todo).arg)
  <2>1. Head(todo).op = "begin" /\ Head(todo).arg \in Namespaces /\ Head(todo) = Begin(Head(todo).arg)
    BY <1>3, <1>4, WorkIs DEF Next1
  <2> QED
    BY <1>1, <1>2, <1>4, <2>1, TailStep DEF Loads
<1>5. CASE Next1("put") /\ PrefsPut(Head(todo).arg, Head(todo).val)
  BY <1>1, <1>5, PutStep DEF Next1
<1>6. CASE Next1("clear") /\ PrefsClear
  BY <1>1, <1>6, ClearStep DEF Next1
<1>7. CASE Next1("end") /\ PrefsEnd
  <2>1. Head(todo).op = "end" /\ Head(todo) = End
    BY <1>3, <1>7, WorkIs DEF Next1, End
  <2> QED
    BY <1>1, <1>2, <1>7, <2>1, TailStep DEF Loads
<1> QED
  BY <1>4, <1>5, <1>6, <1>7 DEF StoreNext

\* What is done without the store and without the globals.
LEMMA PlainTaskStep ==
  ASSUME CoreInv, FailNoted, Running \/ AuthOk \/ ble_tick
  PROVE  CoreInv'
<1>1. /\ todo # << >> /\ todo' = Tail(todo) /\ ram' = ram /\ radio' = radio /\ UNCHANGED prefsVars
      /\ Head(todo).op \in {"run", "authok", "free"} /\ (mode' = "run" \/ mode' = mode)
  BY DEF Running, AuthOk, ble_tick, Next1, worldVars
<1>2. mode \in {"setup", "run"}
  BY <1>1 DEF CoreInv, LoopInv, Work, OffIsEmpty, CoreTyped
<1> QED
  BY <1>1, <1>2, TailStep DEF Loads

LEMMA PowerOnStep ==
  ASSUME CoreInv, FailNoted, PowerOn
  PROVE  CoreInv'
<1>1. /\ mode = "off" /\ mode' = "setup" /\ todo' = Boot /\ ram' = ram /\ radio' = radio
      /\ UNCHANGED prefsVars
  BY DEF PowerOn, Boot, worldVars
<1>2. ram = Zero /\ RamTyped /\ radio \in BOOLEAN
  BY <1>1 DEF CoreInv, LoopInv, Work, OffIsEmpty, CoreTyped
<1>3. ram.priv = None
  BY <1>2 DEF Zero
<1>4. CoreTyped'
  BY <1>1, <1>2 DEF CoreTyped, RamTyped, FailNoted
<1>5. Work'
  BY <1>1, BootIs DEF Work, OpensFirst, OffIsEmpty
<1>6. \A k \in MirrorKeys : Pending(Load(k))'
  BY <1>1, BootIs, LoadHome DEF Pending, MirrorKeys
<1>7. LoadsAlone'
  BY <1>1, BootIs DEF LoadsAlone, PutsOf, MirrorKeys
<1>8. IdOfKey' /\ RamMirrors'
  BY <1>1, <1>3, <1>6 DEF IdOfKey, RamMirrors
<1>9. LoopInv'
  BY <1>4, <1>5, <1>7, <1>8 DEF LoopInv
<1> QED
  BY <1>1, <1>9, StoreStep DEF StoreChanges

LEMMA ZeroTyped == Zero \in [priv : Stored, pub : Stored, dev : Stored, owner : Stored,
                             pin : Stored \cup {"123456"}, meshOn : BOOLEAN, mesh : MeshCfgs,
                             region : Regions, synced : BOOLEAN, on : BOOLEAN, slot : Slots]
BY NrfAssumption DEF Zero, Stored

LEMMA OffStep ==
  ASSUME CoreInv, FailNoted, Off
  PROVE  CoreInv'
<1>1. mode' = "off" /\ todo' = << >> /\ ram' = Zero /\ PrefsLost /\ radio' = radio
  BY DEF Off, worldVars
<1>2. CoreTyped'
  BY <1>1, ZeroTyped DEF CoreInv, LoopInv, CoreTyped, RamTyped, FailNoted
<1>3. ToSet(todo') = {} /\ Ordered(todo')
  BY <1>1, Ends DEF ListOK
<1>4. open' = None /\ saving' = "no"
  BY <1>1 DEF PrefsLost
<1>5. Work'
  BY <1>1, <1>3, <1>4 DEF Work, OpensFirst, OffIsEmpty
<1>6. ram'.priv = None
  BY <1>1 DEF Zero
<1>7. LoadsAlone' /\ IdOfKey' /\ RamMirrors'
  BY <1>1, <1>3, <1>6 DEF LoadsAlone, PutsOf, IdOfKey, RamMirrors, Pending
<1>8. LoopInv'
  BY <1>2, <1>5, <1>7 DEF LoopInv
<1> QED
  BY <1>1, <1>8, StoreStep DEF StoreChanges

\* What the loop task and the power do; what the flash and the key generator
\* fail to do.
LifeSteps == Setup \/ StoreNext \/ SaveNext \/ RestartNext \/ Console \/ PowerFails
LifeFaults == FlashFails \/ NoKeys

LEMMA LifeStep ==
  ASSUME CoreInv, FailNoted, LifeSteps \/ (LifeFaults /\ failed')
  PROVE  CoreInv'
<1>1. CASE Setup
  BY <1>1, PowerOnStep, NewKeysStep, OldKeysStep, LoadTokenStep, IdentityStep, PlainLoadStep, PlainTaskStep
     DEF Setup
<1>2. CASE StoreNext
  BY <1>2, StoreNextStep
<1>3. CASE SaveNext \/ (FlashFails /\ failed')
  BY <1>3, SavingStep DEF SaveNext, FlashFails, worldVars
<1>4. CASE RestartNext \/ PowerFails
  BY <1>4, OffStep DEF RestartNext, PowerFails
<1>5. CASE Console
  BY <1>5, ConsoleStep
<1>6. CASE NoKeys /\ failed'
  BY <1>6, NoKeysStep
<1> QED
  BY <1>1, <1>2, <1>3, <1>4, <1>5, <1>6 DEF LifeSteps, LifeFaults

LEMMA BleStep ==
  ASSUME CoreInv, FailNoted, BleLoop
  PROVE  CoreInv'
BY CommandStep, AuthPinStep, PlainTaskStep DEF BleLoop

AppSteps == on_connect \/ on_disconnect \/ \E c \in Commands : queue_cmd(c)
UpSteps == data_sender_tick \/ uplink_tx_next \/ mesh_tx_next \/ MinutePasses \/ cmd_send_now

\* The steps of the node, by the part they belong to.
LEMMA StepsOf ==
  ASSUME CoreInv, NrfNext
  PROVE  /\ FailNoted
         /\ \/ InLife(LifeSteps) \/ (InLife(LifeFaults) /\ failed')
            \/ InBle(BleLoop) \/ InBle(AppSteps) \/ InUplink(UpSteps)
<1>f. failed \in BOOLEAN
  BY DEF CoreInv, LoopInv, CoreTyped
<1>u. Uncounted \/ Cmd => FailNoted
  <2>1. CASE Uncounted /\ mode' # "off"
    <3>1. failed' = failed
      BY <2>1, <1>f DEF Uncounted
    <3> QED
      BY <3>1, <1>f DEF FailNoted
  <2>2. CASE Uncounted /\ mode' = "off"
    <3>1. failed' = FALSE
      BY <2>2 DEF Uncounted
    <3> QED
      BY <2>2, <3>1, <1>f DEF FailNoted
  <2>3. CASE Cmd
    BY <2>3, <1>f DEF Cmd, FailNoted
  <2> QED
    BY <2>1, <2>2, <2>3
<1>1. CASE Loop
  BY <1>1, <1>u DEF Loop, InLife, InBle, LifeSteps
<1>2. CASE Sender \/ Smos \/ Meshtastic \/ Clock
  BY <1>2, <1>u DEF Sender, Smos, Meshtastic, Clock, InUplink, UpSteps
<1>3. CASE AppComesGoes
  BY <1>3, <1>u DEF AppComesGoes, InBle, AppSteps
<1>4. CASE AppSends
  BY <1>4, <1>u DEF AppSends, InBle, AppSteps
<1>5. CASE ConsoleLine
  BY <1>5, <1>u DEF ConsoleLine, InLife, InUplink, LifeSteps, UpSteps
<1>6. CASE Troubles
  <2>1. CASE InLife(PowerFails) /\ failed' = FALSE
    <3>1. mode' = "off"
      BY <2>1 DEF InLife, PowerFails, Off
    <3> QED
      BY <2>1, <3>1, <1>f DEF FailNoted, InLife, LifeSteps
  <2>2. CASE InLife(FlashFails \/ NoKeys) /\ failed' = TRUE
    BY <2>2, <1>f DEF FailNoted, InLife, LifeFaults
  <2> QED
    BY <1>6, <2>1, <2>2 DEF Troubles
<1> QED
  BY <1>1, <1>2, <1>3, <1>4, <1>5, <1>6 DEF NrfNext

LEMMA CoreStep ==
  ASSUME CoreInv, [NrfNext]_nrfVars
  PROVE  CoreInv'
<1>1. CASE UNCHANGED nrfVars
  <2>1. UNCHANGED <<prefsVars, mode, todo, ram, radio, failed>>
    BY <1>1 DEF nrfVars, nrfLifeVars, countVars
  <2>2. FailNoted
    BY <2>1 DEF CoreInv, LoopInv, CoreTyped, FailNoted
  <2> QED
    BY <2>1, <2>2, QuietStep
<1>2. CASE NrfNext
  <2>1. FailNoted
    BY <1>2, StepsOf
  <2>2. CASE InLife(LifeSteps) \/ (InLife(LifeFaults) /\ failed')
    BY <2>1, <2>2, LifeStep DEF InLife
  <2>3. CASE InBle(BleLoop)
    BY <2>1, <2>3, BleStep DEF InBle
  <2>4. CASE InBle(AppSteps) \/ InUplink(UpSteps)
    <3>1. UNCHANGED <<prefsVars, mode, todo, ram, radio>>
      BY <2>4 DEF InBle, InUplink, AppSteps, UpSteps, on_connect, on_disconnect, queue_cmd,
         data_sender_tick, uplink_tx_next, mesh_tx_next, MinutePasses, cmd_send_now, nrfLifeVars
    <3> QED
      BY <2>1, <3>1, QuietStep
  <2> QED
    BY <1>2, <2>2, <2>3, <2>4, StepsOf
<1> QED
  BY <1>1, <1>2

\* The node calls the store as the store is specified.
LEMMA CallsOfNode ==
  ASSUME CoreInv, [NrfNext]_nrfVars
  PROVE  [PrefsNext]_prefsVars
<1>1. CASE UNCHANGED nrfVars
  BY <1>1 DEF nrfVars, nrfLifeVars
<1>2. CASE StoreNext
  <2>1. todo # << >> /\ Ordered(todo)
    BY <1>2 DEF StoreNext, Next1, CoreInv, LoopInv, Work
  <2>2. Head(todo) \in Works
    BY <2>1, Rest
  <2>3. /\ Head(todo).op = "begin" => Head(todo).arg \in Namespaces
        /\ Head(todo).op = "put" => Head(todo).arg \in PrefsKeys /\ Head(todo).val \in Stored
    BY <2>2, WorkIs
  <2> QED
    BY <1>2, <2>3 DEF StoreNext, Next1, PrefsNext, Stored
<1>3. CASE SaveNext \/ FlashFails
  BY <1>3 DEF SaveNext, FlashFails, PrefsNext
<1>4. CASE RestartNext \/ PowerFails
  BY <1>4 DEF RestartNext, PowerFails, Off, PrefsNext
<1>5. CASE Setup \/ Console \/ NoKeys
  BY <1>5 DEF Setup, PowerOn, NewKeys, OldKeys, LoadToken, LoadIdentity, LoadConfig, LoadMesh, LoadRegion,
     Running, NoKeys, Console, cmd_set_pin, cmd_set_device_id, cmd_set_time, cmd_unregister, cmd_done,
     cmd_factory_reset, cmd_set_owner, cmd_set_mesh_cfg, cmd_set_region, cmd_lora_cfg, Handle
<1>6. CASE BleLoop
  BY <1>6 DEF BleLoop, AuthPin, AuthOk, ble_tick, ble_process_cmd, CmdOnlyAnswers, CmdFactoryReset,
     CmdAuth, CmdSetDeviceId, CmdRegister, CmdTrustRound, CmdTrustSign, CmdWalletBackup, CmdSetTime,
     CmdSetMeshCfg, Carry, Handle
<1>7. CASE AppSteps \/ UpSteps
  BY <1>7 DEF AppSteps, UpSteps, on_connect, on_disconnect, queue_cmd, data_sender_tick, uplink_tx_next,
     mesh_tx_next, MinutePasses, cmd_send_now, nrfLifeVars
<1>8. CASE NrfNext
  BY <1>8, <1>2, <1>3, <1>4, <1>5, <1>6, <1>7, StepsOf DEF InLife, InBle, InUplink, LifeSteps, LifeFaults
<1> QED
  BY <1>1, <1>8

------------------------------------------------------------------------------
(* The BLE task, the outboxes and what is signed.                          *)

\* A batch in the outbox, or none.
BatchSigned(q) ==
    \A i \in DOMAIN q.batch :
       LET b == q.batch[i]
       IN b.priv # None /\ b.pub = b.priv /\ b.dev \in {b.pub, "id"}

LEMMA SignsIs == SignsWhatItShould <=> BatchSigned(up) /\ BatchSigned(mesh) /\ rounds = answered
BY DEF SignsWhatItShould, BatchSigned

UpTyped == /\ g_pending_send \in BOOLEAN /\ since \in [send : 0 .. FORCE_SEND_INTERVAL, health : 0 .. 1]
           /\ BatchTyped(up) /\ BatchTyped(mesh)
UpInv == UpTyped /\ BatchSigned(up) /\ BatchSigned(mesh)
BleInv ==
    /\ app \in BOOLEAN /\ auth \in BOOLEAN /\ full \in BOOLEAN /\ rounds \in 0 .. TRUST_MAX_ROUNDS
    /\ SlotWhole /\ rounds = answered

LEMMA Outside == NodeTyped /\ SlotWhole /\ SignsWhatItShould <=> UpInv /\ BleInv
BY SignsIs DEF NodeTyped, UpInv, UpTyped, BleInv

LEMMA NodeConsts ==
  /\ NFrag \in Nat /\ NFrag > 0 /\ FORCE_SEND_INTERVAL \in Nat /\ FORCE_SEND_INTERVAL > 0
  /\ TRUST_MAX_ROUNDS \in Nat /\ TRUST_MAX_ROUNDS > 0
<1>1. {NFrag, MIN_SEND_INTERVAL, FORCE_SEND_INTERVAL} \subseteq Nat \ {0}
  BY NrfNodeAssumption
<1>2. NFrag \in Nat \ {0} /\ FORCE_SEND_INTERVAL \in Nat \ {0} /\ TRUST_MAX_ROUNDS \in Nat \ {0}
  BY <1>1, NrfBleAssumption
<1> QED
  BY <1>2

LEMMA NoBatchIs == BatchTyped(NoBatch) /\ BatchSigned(NoBatch)
<1>1. NoBatch.batch = << >> /\ 0 \in 0 .. NFrag - 1
  BY NodeConsts DEF NoBatch
<1> QED
  BY <1>1 DEF NoBatch, BatchTyped, BatchSigned

LEMMA FreshIs == Fresh \in [send : 0 .. FORCE_SEND_INTERVAL, health : 0 .. 1]
BY NodeConsts DEF Fresh

LEMMA UpKept == ASSUME UpInv, UpKeeps PROVE UpInv'
<1>1. CASE mode' = "off"
  <2>1. g_pending_send' = FALSE /\ since' = Fresh /\ up' = NoBatch /\ mesh' = NoBatch
    BY <1>1 DEF UpKeeps
  <2> QED
    BY <2>1, NoBatchIs, FreshIs DEF UpInv, UpTyped
<1>2. CASE mode' # "off"
  BY <1>2 DEF UpKeeps, nrfUpVars, UpInv, UpTyped
<1> QED
  BY <1>1, <1>2

LEMMA BleKept == ASSUME BleInv, BleKeeps PROVE BleInv'
<1>1. CASE mode' = "off"
  <2>1. /\ app' = FALSE /\ auth' = FALSE /\ full' = FALSE
        /\ inHand' = None /\ rounds' = 0 /\ answered' = 0
    BY <1>1 DEF BleKeeps, NrfBleLost
  <2>2. rounds' \in 0 .. TRUST_MAX_ROUNDS /\ rounds' = answered'
    BY <2>1, NodeConsts
  <2>3. SlotWhole'
    BY <2>1 DEF SlotWhole
  <2> QED
    BY <2>1, <2>2, <2>3 DEF BleInv
<1>2. CASE mode' # "off"
  BY <1>2 DEF BleKeeps, nrfBleVars, linkVars, slotVars, roundVars, BleInv, SlotWhole
<1> QED
  BY <1>1, <1>2

LEMMA BleLoopInv == ASSUME BleInv, BleLoop PROVE BleInv'
<1> USE NodeConsts DEF BleInv, SlotWhole, slotVars, linkVars, roundVars, nrfBleVars
<1>1. CASE AuthPin
  BY <1>1 DEF AuthPin
<1>2. CASE AuthOk
  BY <1>2 DEF AuthOk
<1>3. CASE ble_tick
  BY <1>3 DEF ble_tick
<1>4. CASE ble_process_cmd
  <2>1. full /\ inHand' = buf /\ buf' = buf /\ full' = full /\ app' = app /\ auth' = auth
    BY <1>4 DEF ble_process_cmd, CmdOnlyAnswers, CmdFactoryReset, CmdAuth, CmdSetDeviceId, CmdRegister,
       CmdTrustRound, CmdTrustSign, CmdWalletBackup, CmdSetTime, CmdSetMeshCfg, Carry
  <2>2. \/ rounds' = rounds /\ answered' = answered
        \/ rounds' = 0 /\ answered' = 0
        \/ rounds < TRUST_MAX_ROUNDS /\ rounds' = rounds + 1 /\ answered' = answered + 1
    BY <1>4 DEF ble_process_cmd, CmdOnlyAnswers, CmdFactoryReset, CmdAuth, CmdSetDeviceId, CmdRegister,
       CmdTrustRound, CmdTrustSign, CmdWalletBackup, CmdSetTime, CmdSetMeshCfg
  <2> QED
    BY <2>1, <2>2
<1> QED
  BY <1>1, <1>2, <1>3, <1>4 DEF BleLoop

LEMMA AppInv == ASSUME BleInv, AppSteps PROVE BleInv'
<1> USE DEF BleInv, SlotWhole, slotVars, linkVars, roundVars
<1>1. CASE on_connect
  BY <1>1 DEF on_connect
<1>2. CASE on_disconnect
  BY <1>2 DEF on_disconnect
<1>3. CASE \E c \in Commands : queue_cmd(c)
  BY <1>3 DEF queue_cmd
<1> QED
  BY <1>1, <1>2, <1>3 DEF AppSteps

\* The frames of a batch are those of one batch.
LEMMA FrameIs ==
  ASSUME NEW q, BatchTyped(q), BatchSigned(q)
  PROVE  BatchTyped(NextFrame(q)) /\ BatchSigned(NextFrame(q))
<1>1. CASE q.frag + 1 < NFrag
  <2>1. NextFrame(q) = [q EXCEPT !.frag = q.frag + 1]
    BY <1>1 DEF NextFrame
  <2>2. q.frag + 1 \in 0 .. NFrag - 1
    BY <1>1, NodeConsts DEF BatchTyped
  <2>3. BatchTyped(NextFrame(q)) /\ NextFrame(q).batch = q.batch
    BY <2>1, <2>2 DEF BatchTyped
  <2> QED
    BY <2>3 DEF BatchSigned
<1>2. CASE ~(q.frag + 1 < NFrag)
  BY <1>2, NoBatchIs DEF NextFrame
<1> QED
  BY <1>1, <1>2

\* What is queued is signed with the key whose id it carries.
LEMMA QueuedIs ==
  ASSUME CoreInv, Idle, identity_sign
  PROVE  BatchTyped(Queued) /\ BatchSigned(Queued)
<1> DEFINE b == [dev |-> ram.dev, owner |-> ram.owner, priv |-> ram.priv, pub |-> ram.pub]
           R == [dev : Stored, owner : Stored, priv : Stored, pub : Stored]
<1>1. b \in R
  BY DEF CoreInv, LoopInv, CoreTyped, RamTyped
<1>2. b.priv # None /\ b.pub = b.priv /\ b.dev \in {b.pub, "id"}
  <2>1. ~Pending(Do("identity"))
    BY Ends DEF Idle, Pending
  <2> QED
    BY <2>1 DEF identity_sign, CoreInv, LoopInv, IdOfKey
<1>3. Queued = [batch |-> <<b>>, frag |-> 0]
  BY DEF Queued, Batch
<1> HIDE DEF b, R
<1>4. <<b>> \in Seq(R) /\ DOMAIN <<b>> = {1} /\ <<b>>[1] = b
  BY <1>1
<1>5. Queued.batch = <<b>> /\ 0 \in 0 .. NFrag - 1
  BY <1>3, NodeConsts
<1> QED
  BY <1>2, <1>3, <1>4, <1>5 DEF BatchTyped, BatchSigned, R

LEMMA UpStep == ASSUME CoreInv, UpInv, UpSteps PROVE UpInv'
<1>1. CASE data_sender_tick
  <2>1. Idle
    BY <1>1 DEF data_sender_tick
  <2>2. CASE since' = [since EXCEPT !.health = 0] /\ UNCHANGED <<g_pending_send, up, mesh>>
    BY <2>2 DEF UpInv, UpTyped
  <2>3. CASE send_batch
    <3>1. since' \in [send : 0 .. FORCE_SEND_INTERVAL, health : 0 .. 1]
      BY <2>3, NodeConsts DEF send_batch, UpInv, UpTyped
    <3>2. CASE uplink_pending \/ ~identity_sign
      BY <2>3, <3>1, <3>2 DEF send_batch, UpInv, UpTyped
    <3>3. CASE ~(uplink_pending \/ ~identity_sign)
      <4>1. BatchTyped(Queued) /\ BatchSigned(Queued)
        BY <2>1, <3>3, QueuedIs
      <4>2. /\ (up' = Queued \/ up' = up) /\ (mesh' = Queued \/ mesh' = mesh)
            /\ (g_pending_send' = FALSE \/ g_pending_send' = g_pending_send)
        BY <2>3, <3>3 DEF send_batch
      <4>3. g_pending_send' \in BOOLEAN
        BY <4>2 DEF UpInv, UpTyped
      <4>4. BatchTyped(up)' /\ BatchTyped(mesh)' /\ BatchSigned(up)' /\ BatchSigned(mesh)'
        BY <4>1, <4>2 DEF UpInv, UpTyped
      <4> QED
        BY <3>1, <4>3, <4>4 DEF UpInv, UpTyped
    <3> QED
      BY <3>2, <3>3
  <2> QED
    BY <1>1, <2>2, <2>3 DEF data_sender_tick
<1>2. CASE uplink_tx_next
  BY <1>2, FrameIs DEF uplink_tx_next, UpInv, UpTyped
<1>3. CASE mesh_tx_next
  BY <1>3, FrameIs DEF mesh_tx_next, UpInv, UpTyped
<1>4. CASE MinutePasses
  <2>1. since.send + 1 \in 0 .. FORCE_SEND_INTERVAL
    BY <1>4, NodeConsts DEF MinutePasses, SendDue, UpInv, UpTyped
  <2>2. since' = [send |-> since.send + 1, health |-> 1] /\ UNCHANGED <<g_pending_send, up, mesh>>
    BY <1>4 DEF MinutePasses
  <2> QED
    BY <2>1, <2>2 DEF UpInv, UpTyped
<1>5. CASE cmd_send_now
  BY <1>5 DEF cmd_send_now, UpInv, UpTyped
<1> QED
  BY <1>1, <1>2, <1>3, <1>4, <1>5 DEF UpSteps

LEMMA NrfInvStep ==
  ASSUME NrfInv, [NrfNext]_nrfVars
  PROVE  NrfInv'
<1>1. CoreInv' /\ UpInv /\ BleInv /\ CoreInv
  BY CoreStep, Outside DEF NrfInv
<1>2. ASSUME UNCHANGED nrfVars PROVE UpInv' /\ BleInv'
  BY <1>1, <1>2 DEF nrfVars, nrfBleVars, linkVars, slotVars, roundVars, nrfUpVars, nrfLifeVars, UpInv, UpTyped,
     BleInv, SlotWhole
<1>3. ASSUME NrfNext PROVE UpInv' /\ BleInv'
  <2>1. ASSUME InLife(LifeSteps) \/ InLife(LifeFaults) PROVE UpInv' /\ BleInv'
    BY <1>1, <2>1, UpKept, BleKept DEF InLife
  <2>2. ASSUME InBle(BleLoop) \/ InBle(AppSteps) PROVE UpInv' /\ BleInv'
    BY <1>1, <2>2, UpKept, BleLoopInv, AppInv DEF InBle
  <2>3. ASSUME InUplink(UpSteps) PROVE UpInv' /\ BleInv'
    <3>1. UpInv'
      BY <1>1, <2>3, UpStep DEF InUplink
    <3>2. BleInv'
      BY <1>1, <2>3 DEF InUplink, nrfBleVars, linkVars, slotVars, roundVars, BleInv, SlotWhole
    <3> QED
      BY <3>1, <3>2
  <2> QED
    BY <1>1, <1>3, <2>1, <2>2, <2>3, StepsOf
<1>4. UpInv' /\ BleInv'
  BY <1>2, <1>3
<1>5. NodeTyped' /\ SlotWhole' /\ SignsWhatItShould'
  BY <1>4 DEF UpInv, UpTyped, BleInv, NodeTyped, SignsWhatItShould, BatchSigned
<1> QED
  BY <1>1, <1>5 DEF NrfInv

LEMMA NrfInvInit == ASSUME NrfInit PROVE NrfInv
<1>1. /\ PrefsInit /\ mode = "off" /\ todo = << >> /\ ram = Zero /\ radio \in BOOLEAN /\ failed = FALSE
      /\ open = None /\ saving = "no"
  BY DEF NrfInit, NrfLifeInit, PrefsInit
<1>2. PrefsInv
  BY <1>1, PrefsInvInit
<1>3. StoreFits /\ DocSaved
  BY <1>1, EmptyFits DEF PrefsInit, StoreFits, DocSaved
<1>4. ToSet(todo) = {} /\ Ordered(todo)
  BY <1>1, Ends DEF ListOK
<1>5. Work /\ LoadsAlone /\ IdOfKey /\ RamMirrors
  <2>1. ram.priv = None
    BY <1>1 DEF Zero
  <2> QED
    BY <1>1, <1>4, <2>1 DEF Work, OpensFirst, OffIsEmpty, LoadsAlone, PutsOf, IdOfKey, RamMirrors, Pending
<1>6. CoreTyped
  BY <1>1, ZeroTyped DEF CoreTyped, RamTyped
<1>7. CoreInv
  BY <1>2, <1>3, <1>5, <1>6 DEF CoreInv, LoopInv
<1>8. UpInv
  <2>1. g_pending_send = FALSE /\ since = Fresh /\ up = NoBatch /\ mesh = NoBatch
    BY DEF NrfInit, NrfUpInit
  <2> QED
    BY <2>1, NoBatchIs, FreshIs DEF UpInv, UpTyped
<1>9. BleInv
  <2>1. app = FALSE /\ auth = FALSE /\ full = FALSE /\ inHand = None /\ rounds = 0 /\ answered = 0
    BY DEF NrfInit, NrfBleInit
  <2>2. rounds \in 0 .. TRUST_MAX_ROUNDS /\ rounds = answered
    BY <2>1, NodeConsts
  <2>3. SlotWhole
    BY <2>1 DEF SlotWhole
  <2> QED
    BY <2>1, <2>2, <2>3 DEF BleInv
<1> QED
  BY <1>7, <1>8, <1>9, Outside DEF NrfInv

\* Every reachable state of the node satisfies the inductive invariant.
THEOREM NrfInvariant == NrfSpec => []NrfInv
<1>1. NrfInit => NrfInv
  BY NrfInvInit
<1>2. NrfInv /\ [NrfNext]_nrfVars => NrfInv'
  BY NrfInvStep
<1> QED
  BY <1>1, <1>2, PTL DEF NrfSpec

\* Between two handlers, what is in RAM is what is in the files.
LEMMA SavedInRam == ASSUME CoreInv PROVE RamIsSaved
<1> SUFFICES ASSUME mode = "run", Idle, ~failed
             PROVE  \A k \in MirrorKeys : Mirrors(ram, k, file[Home(k)].doc[k])
  <2>1. (\A k \in MirrorKeys : Mirrors(ram, k, file[Home(k)].doc[k])) =>
           /\ ram.priv = Sensmos["privkey"] /\ ram.pub = Sensmos["pubkey"]
           /\ ram.dev = Default(Sensmos["id_ovr"], ram.pub)
           /\ ram.owner = Sensmos["owner"]
           /\ ram.meshOn = (SensmosMesh["enabled"] # "off")
           /\ ram.mesh.channel = Default(SensmosMesh["channel"], MeshCfgDefault.channel)
           /\ ram.mesh.psk = Default(SensmosMesh["psk"], MeshCfgDefault.psk)
           /\ ram.mesh.portnum = Default(SensmosMesh["portnum"], MeshCfgDefault.portnum)
           /\ ram.region = Default(SensmosMesh["region"], RegionDefault)
    <3>1. /\ \A k \in {"privkey", "pubkey", "id_ovr", "owner"} : k \in MirrorKeys /\ Home(k) = "sensmos"
          /\ \A k \in {"enabled", "channel", "psk", "portnum", "region"} :
                k \in MirrorKeys /\ Home(k) = "sensmos_mesh"
      BY DEF MirrorKeys, Home, MeshKeys
    <3> QED
      BY <3>1, MirrorFields DEF Sensmos, SensmosMesh
  <2> QED
    BY <2>1 DEF RamIsSaved
<1> TAKE k \in MirrorKeys
<1>1. todo = << >> /\ saving = "no" /\ ToSet(todo) = {}
  BY Ends DEF Idle
<1>2. Mirrored(k) /\ PutsOf(todo, k) = {}
  BY <1>1 DEF CoreInv, LoopInv, RamMirrors, Pending, PutsOf
<1>3. DocOf(Home(k)) = file[Home(k)].doc
  BY <1>1, KeysAre DEF DocOf, CoreInv, DocSaved
<1> QED
  BY <1>2, <1>3 DEF Mirrored

LEMMA ConsistentNow == ASSUME NrfInv PROVE NodeConsistent
<1>1. CoreInv /\ NodeTyped /\ SlotWhole
  BY DEF NrfInv
<1>2. PrefsTypeOK
  BY <1>1 DEF CoreInv, PrefsInv
<1>3. /\ mode \in {"off", "setup", "run"} /\ radio \in BOOLEAN
      /\ ram.region \in Regions /\ ram.mesh \in MeshCfgs /\ ram.slot \in Slots
  BY <1>1 DEF CoreInv, LoopInv, CoreTyped, RamTyped
<1>4. /\ {radio, app, auth, full, g_pending_send} \subseteq BOOLEAN
      /\ rounds \in 0 .. TRUST_MAX_ROUNDS
      /\ {up.frag, mesh.frag} \subseteq 0 .. NFrag - 1
      /\ since.send \in 0 .. FORCE_SEND_INTERVAL /\ since.health \in 0 .. 1
  BY <1>1, <1>3 DEF NodeTyped, BatchTyped
<1>5. NrfTypeOK
  BY <1>2, <1>3, <1>4 DEF NrfTypeOK
<1> QED
  BY <1>1, <1>5, SavedInRam DEF NodeConsistent

\* The node's memory has its types; the app's command is carried out as it was
\* written; and between two handlers identity, owner, region and the mesh's
\* channel, key and port in RAM are those of the files, whoever changed them last and wherever the
\* power was cut before (identity.cpp:103-198, ble_config.cpp:145-180 and
\* 715-719, mesh_tx.cpp:39-105, lora_scan.cpp:602-645 of the port).
THEOREM NodeAlwaysConsistent == NrfSpec => []NodeConsistent
<1>1. NrfInv => NodeConsistent
  BY ConsistentNow
<1> QED
  BY <1>1, NrfInvariant, PTL

\* A batch in an outbox verifies with the key whose id it carries, and an
\* attestation covers the rounds of its own ceremony (identity.cpp:200-223,
\* data_sender.cpp:92-152, ble_config.cpp:246-270 and 357-470 of the port).
THEOREM NodeSignsItsOwn == NrfSpec => []SignsWhatItShould
<1>1. NrfInv => SignsWhatItShould
  BY DEF NrfInv
<1> QED
  BY <1>1, NrfInvariant, PTL

\* What loop task, console, app, a failing flash and the power do to the store
\* is what its specification allows: begin, puts and end only in the order the
\* store expects them in (prefs_store.cpp:61-232).
THEOREM NodeUsesStore == NrfSpec => PrefsSpec
<1>1. NrfInit => PrefsInit
  BY DEF NrfInit, NrfLifeInit
<1>2. NrfInv /\ [NrfNext]_nrfVars => [PrefsNext]_prefsVars
  BY CallsOfNode DEF NrfInv
<1> QED
  BY <1>1, <1>2, NrfInvariant, PTL DEF NrfSpec, PrefsSpec

\* So in the whole node, too, a value that was saved is there until it is
\* changed, but for a fault in the save of its namespace (prefs_store.cpp:74-106).
THEOREM NodeDurable == NrfSpec => []Durable
BY NodeUsesStore, PrefsDurable, PTL
=============================================================================
