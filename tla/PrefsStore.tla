----------------------------- MODULE PrefsStore -----------------------------
(***************************************************************************)
(* src/nrf52840/src/prefs_store.cpp: the key-value store the nRF52840 port *)
(* puts in the place of NVS.  A namespace is a file of its own; begin()    *)
(* reads it into RAM, every put or remove writes the whole of it to a      *)
(* second file, the temp, which then takes the place of the first.  The    *)
(* power may fail between any two of these steps.                          *)
(***************************************************************************)
EXTENDS Naturals

CONSTANTS
    Namespaces,
    PrefsKeys,     \* keys of a namespace
    PrefsValues    \* what may be stored

CONSTANT None      \* a key that is not there; a namespace that is not open

ASSUME PrefsAssumption == None \notin PrefsValues /\ None \notin Namespaces

VARIABLES
    file, temp,    \* the two files of each namespace
    open,          \* the namespace that is open: begin .. end
    doc,           \* its document in RAM
    saving,        \* how far save() is
    want,          \* history: what the puts since begin() should make of it
    ledger,        \* history: what was put and saved, and not removed
    gone           \* history: namespaces a fault has emptied

fsVars == <<file, temp>>
ramDocVars == <<open, doc, saving, want>>
prefsVars == <<fsVars, ramDocVars, ledger, gone>>

Docs == [PrefsKeys -> PrefsValues \cup {None}]
EmptyDoc == [k \in PrefsKeys |-> None]

\* A file that is missing and one that does not parse both give the defaults.
Files == [is : {"whole"}, doc : Docs] \cup [is : {"missing", "torn"}, doc : {EmptyDoc}]
Missing == [is |-> "missing", doc |-> EmptyDoc]
TornFile == [is |-> "torn", doc |-> EmptyDoc]
Whole(d) == [is |-> "whole", doc |-> d]

PrefsInit ==
    /\ file = [n \in Namespaces |-> Missing] /\ temp = [n \in Namespaces |-> Missing]
    /\ open = None /\ doc = EmptyDoc /\ saving = "no" /\ want = EmptyDoc
    /\ ledger = [n \in Namespaces |-> EmptyDoc] /\ gone = {}

\* What a fault has emptied is found empty, and counts from there.
Settled(n) == IF n \in gone THEN EmptyDoc ELSE ledger[n]

\* begin() and load(): a temp left behind is removed, not used.
PrefsBegin(n) ==
    /\ open = None /\ saving = "no"
    /\ open' = n /\ doc' = file[n].doc
    /\ temp' = [temp EXCEPT ![n] = Missing]
    /\ want' = Settled(n)
    /\ ledger' = [ledger EXCEPT ![n] = Settled(n)] /\ gone' = gone \ {n}
    /\ UNCHANGED <<file, saving>>

PrefsEnd ==
    /\ open # None /\ saving = "no"
    /\ open' = None /\ doc' = EmptyDoc /\ want' = EmptyDoc
    /\ UNCHANGED <<fsVars, saving, ledger, gone>>

\* putString, putBytes, putBool, putUInt; remove() is a put of nothing.
PrefsPut(k, v) ==
    /\ open # None /\ saving = "no"
    /\ doc' = [doc EXCEPT ![k] = v]
    /\ saving' = "open" /\ want' = [want EXCEPT ![k] = v]
    /\ UNCHANGED <<fsVars, open, ledger, gone>>

\* clear() removes the file without a save().
PrefsClear ==
    /\ open # None /\ saving = "no"
    /\ file' = [file EXCEPT ![open] = Missing] /\ doc' = EmptyDoc /\ want' = EmptyDoc
    /\ ledger' = [ledger EXCEPT ![open] = EmptyDoc] /\ gone' = gone \ {open}
    /\ UNCHANGED <<temp, open, saving>>

-----------------------------------------------------------------------------
(* save(). *)

\* Faulty variant of SaveOpens: the file is written in its place.
SaveOpensInPlace ==
    /\ saving = "open"
    /\ file' = [file EXCEPT ![open] = TornFile] /\ temp' = [temp EXCEPT ![open] = TornFile]
    /\ saving' = "close"
    /\ UNCHANGED <<open, doc, want, ledger, gone>>

\* A fresh temp is opened and filled ...
SaveOpens ==
    /\ saving = "open"
    /\ temp' = [temp EXCEPT ![open] = TornFile] /\ saving' = "close"
    /\ UNCHANGED <<file, open, doc, want, ledger, gone>>

\* ... and closed.
SaveCloses ==
    /\ saving = "close"
    /\ temp' = [temp EXCEPT ![open] = Whole(doc)] /\ saving' = "unlink"
    /\ UNCHANGED <<file, open, doc, want, ledger, gone>>

SaveUnlinks ==
    /\ saving = "unlink"
    /\ file' = [file EXCEPT ![open] = Missing] /\ saving' = "rename"
    /\ UNCHANGED <<temp, open, doc, want, ledger, gone>>

SaveRenames ==
    /\ saving = "rename"
    /\ file' = [file EXCEPT ![open] = temp[open]]
    /\ temp' = [temp EXCEPT ![open] = Missing]
    /\ ledger' = [ledger EXCEPT ![open] = want]
    /\ gone' = IF temp[open].is = "whole" THEN gone \ {open} ELSE gone \cup {open}
    /\ saving' = "no"
    /\ UNCHANGED <<open, doc, want>>

\* The file system is full: what was written is cut short, which serializeJson
\* reports and nobody reads.
SaveRunsShort ==
    /\ saving = "close" /\ saving' = "unlink"
    /\ UNCHANGED <<fsVars, open, doc, want, ledger, gone>>

\* The temp cannot be opened: the save fails, and the caller is not told.
SaveRefused ==
    /\ saving = "open"
    /\ temp' = [temp EXCEPT ![open] = Missing]
    /\ saving' = "no"
    /\ UNCHANGED <<file, open, doc, want, ledger, gone>>

\* The rename fails: both files are gone, the document is in RAM still.
SaveNotRenamed ==
    /\ saving = "rename"
    /\ temp' = [temp EXCEPT ![open] = Missing]
    /\ ledger' = [ledger EXCEPT ![open] = want] /\ gone' = gone \cup {open}
    /\ saving' = "no"
    /\ UNCHANGED <<file, open, doc, want>>

SaveStep == SaveOpens \/ SaveCloses \/ SaveUnlinks \/ SaveRenames
SaveFault == SaveRunsShort \/ SaveRefused \/ SaveNotRenamed

\* The power fails or the chip is reset: what is in RAM is lost.
PrefsLost ==
    /\ open' = None /\ doc' = EmptyDoc /\ saving' = "no" /\ want' = EmptyDoc
    /\ gone' = IF saving = "rename" THEN gone \cup {open} ELSE gone
    /\ UNCHANGED <<fsVars, ledger>>

PrefsNext ==
    \/ \E n \in Namespaces : PrefsBegin(n)
    \/ \E k \in PrefsKeys, v \in PrefsValues \cup {None} : PrefsPut(k, v)
    \/ PrefsEnd \/ PrefsClear \/ SaveStep \/ SaveFault \/ PrefsLost

PrefsSpec == PrefsInit /\ [][PrefsNext]_prefsVars

\* With a flash that never fails: the power alone is cut.
CutNext ==
    \/ \E n \in Namespaces : PrefsBegin(n)
    \/ \E k \in PrefsKeys, v \in PrefsValues \cup {None} : PrefsPut(k, v)
    \/ PrefsEnd \/ PrefsClear \/ SaveStep \/ PrefsLost

CutSpec == PrefsInit /\ [][CutNext]_prefsVars

-----------------------------------------------------------------------------
(* Properties. *)

PrefsTypeOK ==
    /\ file \in [Namespaces -> Files] /\ temp \in [Namespaces -> Files]
    /\ open \in Namespaces \cup {None} /\ {doc, want} \subseteq Docs
    /\ saving \in {"no", "open", "close", "unlink", "rename"}
    /\ ledger \in [Namespaces -> Docs] /\ gone \subseteq Namespaces

\* Whatever calls come in whatever order, and wherever the power fails: every
\* key has the value it was last given.  Only a fault between the removal of a
\* file and the rename, or in the writing of the temp, loses anything, and that
\* is one namespace, the one being saved (prefs_store.cpp:74-106).
Durable ==
    \A n \in Namespaces : file[n].doc = Settled(n) \/ (saving = "rename" /\ n = open)

\* prefs_store.cpp:2-3 and 89-91, "Crash-safe write": a save that is cut short
\* leaves the document as it was or as it was to be.
CrashSafe ==
    \A n \in Namespaces : file[n].doc = ledger[n] \/ (saving = "rename" /\ n = open)
=============================================================================
