--------------------------- MODULE DataFlowProofs ---------------------------
(***************************************************************************)
(* Proofs about the way of the data through the node.  The invariant DfInv *)
(* has three parts: SubInv (the subscription map and its copy in NVS),     *)
(* DataInv (the store holds every entity once, with the value the history  *)
(* has for it) and SenderInv (the sender's flags and clocks).  The loops   *)
(* of the model are recursive functions; FoldExists and UpTo say that such *)
(* a function exists and what holds along it.                              *)
(***************************************************************************)
EXTENDS DataFlow, SequenceTheorems, FiniteSetTheorems, WellFoundedInduction, TLAPS

(***************************************************************************)
(* Numbers and recursion.                                                  *)
(***************************************************************************)

\* A set of numbers has a least one.
LEMMA SmallestOf ==
  ASSUME NEW S \in SUBSET Nat, S # {}
  PROVE  \E x \in S : \A y \in S : x <= y
<1>1. PICK x \in S : \A y \in S : ~(<<y, x>> \in OpToRel(<, Nat))
  BY WFMin, NatLessThanWellFounded, Zenon
<1>2. ASSUME NEW y \in S PROVE x <= y
  <2>1. ~(y < x)
    BY <1>1 DEF OpToRel
  <2> QED BY <2>1
<1> QED BY <1>2

\* What holds of 0 and passes from each number up to n to the next holds of n.
LEMMA UpTo ==
  ASSUME NEW n \in Nat, NEW T, 0 \in T, \A k \in 1 .. n : k - 1 \in T => k \in T
  PROVE  \A k \in 0 .. n : k \in T
<1> DEFINE Bad == {k \in 0 .. n : k \notin T}
<1>1. SUFFICES ASSUME Bad # {} PROVE FALSE
  OBVIOUS
<1>2. PICK x \in Bad : \A y \in Bad : x <= y
  <2>1. Bad \in SUBSET Nat
    OBVIOUS
  <2> QED BY <1>1, <2>1, SmallestOf
<1>3. x \in 1 .. n /\ x - 1 \in 0 .. n /\ x - 1 \notin Bad
  BY <1>2
<1> QED BY <1>3

\* A recursion over 0 .. n whose steps F stay in S has a solution in S.
Steps(n, S, F) == \A k \in 1 .. n : \A s \in S : F[k][s] \in S
Solves(n, S, s0, F) ==
    \E f \in [0 .. n -> S] : f[0] = s0 /\ \A k \in 1 .. n : f[k] = F[k][f[k - 1]]

\* A recursion over 1 .. n whose steps stay in S has a solution in S.
LEMMA FoldExists ==
  ASSUME NEW n \in Nat, NEW S, NEW s0 \in S, NEW F, Steps(n, S, F)
  PROVE  Solves(n, S, s0, F)
<1> DEFINE Sol(m, f) == f[0] = s0 /\ \A k \in 1 .. m : f[k] = F[k][f[k - 1]]
           T == {m \in 0 .. n : \E f \in [0 .. m -> S] : Sol(m, f)}
<1>1. 0 \in T
  <2> DEFINE g == [m \in 0 .. 0 |-> s0]
  <2>1. g \in [0 .. 0 -> S] /\ g[0] = s0
    OBVIOUS
  <2>2. Sol(0, g)
    BY <2>1
  <2> HIDE DEF g
  <2> QED BY <2>1, <2>2
<1>2. ASSUME NEW m \in 1 .. n, m - 1 \in T PROVE m \in T
  <2>1. PICK f \in [0 .. m - 1 -> S] : Sol(m - 1, f)
    BY <1>2
  <2> DEFINE g == [k \in 0 .. m |-> IF k = m THEN F[m][f[m - 1]] ELSE f[k]]
  <2>2. f[m - 1] \in S /\ F[m][f[m - 1]] \in S
    BY DEF Steps
  <2>3. g \in [0 .. m -> S]
    BY <2>2
  <2>4. g[0] = s0
    BY <2>1
  <2>5. ASSUME NEW k \in 1 .. m PROVE g[k] = F[k][g[k - 1]]
    <3>1. k - 1 \in 0 .. m /\ k - 1 # m /\ g[k - 1] = f[k - 1]
      OBVIOUS
    <3>2. CASE k = m
      BY <3>1, <3>2
    <3>3. CASE k # m
      <4>1. k \in 1 .. m - 1 /\ g[k] = f[k]
        BY <3>3
      <4> QED BY <4>1, <3>1, <2>1
    <3> QED BY <3>2, <3>3
  <2>6. Sol(m, g)
    BY <2>4, <2>5
  <2> HIDE DEF g, Sol
  <2> QED BY <2>3, <2>6
<1> HIDE DEF T
<1>3. n \in T
  <2>1. \A k \in 0 .. n : k \in T
    BY <1>1, <1>2, UpTo
  <2> QED BY <2>1
<1> QED BY <1>3 DEF T, Solves

-----------------------------------------------------------------------------
(* The subscription map.  While it is being saved, the first fields in the *)
(* order of nvsSave are the same in RAM and in NVS (WrittenSoFar), and the *)
(* two differ at most in the entry that is being set (SameAt); so each by  *)
(* itself has every target once (OneEach).                                 *)

Maps == [target : [Slots -> Targets \cup {""}], prefix : [Slots -> SubPrefixes \cup {""}],
         head : Slots, count : 0 .. SUB_MAP_MAX]

Fields == 2 + 2 * SUB_MAP_MAX

\* nvsSave read field by field.
FieldAt(n) == CASE n = 1 -> <<"head", 0>>
                [] n = 2 -> <<"count", 0>>
                [] OTHER -> <<IF (n - 2) % 2 = 1 THEN "target" ELSE "prefix", (n - 3) \div 2>>

OneEach(m) == \A i, j \in Slots : m.target[i] = m.target[j] /\ m.target[i] # "" => i = j

SameAt(i) == nvs.target[i] = map.target[i] /\ nvs.prefix[i] = map.prefix[i]

\* k fields have been written.
WrittenSoFar(k) ==
    /\ saving = [n \in 1 .. Fields - k |-> FieldAt(n + k)]
    /\ \A n \in 1 .. k : Field(nvs, FieldAt(n)) = Field(map, FieldAt(n))

SubInv ==
    /\ map \in Maps /\ nvs \in Maps
    /\ OneEach(map) /\ OneEach(nvs)
    /\ \E k \in 0 .. Fields : WrittenSoFar(k)
    /\ saving = << >> => nvs = map
    /\ saving # << >> => setting \in Targets
                         /\ \A i \in Slots : map.target[i] # setting => SameAt(i)
    /\ DOMAIN chosen \subseteq Targets
    /\ \A t \in DOMAIN chosen : \E i \in Slots : map.target[i] = t /\ map.prefix[i] = chosen[t]

\* nvsSave lists the fields in the order of FieldAt.
LEMMA SaveOrder ==
  /\ Fields \in Nat
  /\ Len(nvsSave) = Fields
  /\ nvsSave = [n \in 1 .. Fields |-> FieldAt(n)]
<1>0. SUB_MAP_MAX \in Nat \ {0}
  BY SubAssumption
<1> DEFINE tail == [n \in 1 .. 2 * SUB_MAP_MAX |->
                      <<IF n % 2 = 1 THEN "target" ELSE "prefix", (n - 1) \div 2>>]
           head == <<<<"head", 0>>, <<"count", 0>>>>
<1>1. Fields \in Nat /\ Fields = 2 + 2 * SUB_MAP_MAX /\ 2 * SUB_MAP_MAX \in Nat
  BY <1>0 DEF Fields
<1> DEFINE Some == {tail[n] : n \in 1 .. 2 * SUB_MAP_MAX} \cup {<<"head", 0>>, <<"count", 0>>}
<1>2. /\ tail \in Seq(Some) /\ Len(tail) = 2 * SUB_MAP_MAX
      /\ head \in Seq(Some) /\ Len(head) = 2
      /\ head[1] = <<"head", 0>> /\ head[2] = <<"count", 0>>
  <2>1. tail \in Seq(Some) /\ Len(tail) = 2 * SUB_MAP_MAX
    <3>1. tail \in [1 .. 2 * SUB_MAP_MAX -> Some]
      OBVIOUS
    <3>2. tail \in Seq(Some)
      <4>1. \A i \in 1 .. 2 * SUB_MAP_MAX : tail[i] \in Some
        BY <3>1
      <4>2. tail = [i \in 1 .. 2 * SUB_MAP_MAX |-> tail[i]]
        OBVIOUS
      <4> HIDE DEF tail, Some
      <4>3. [i \in 1 .. 2 * SUB_MAP_MAX |-> tail[i]] \in Seq(Some)
        BY <1>1, <4>1
      <4> QED BY <4>2, <4>3
    <3> QED BY <1>1, <3>1, <3>2, LenProperties
  <2>2. head \in Seq(Some)
    <3>1. <<"head", 0>> \in Some /\ <<"count", 0>> \in Some
      OBVIOUS
    <3> HIDE DEF Some
    <3> QED BY <3>1
  <2> QED BY <2>1, <2>2
<1>a. \A n \in 1 .. 2 * SUB_MAP_MAX :
        tail[n] = <<IF n % 2 = 1 THEN "target" ELSE "prefix", (n - 1) \div 2>>
  BY <1>1
<1> HIDE DEF tail, head, Some
<1>3. nvsSave = head \o tail
  BY DEF nvsSave, head, tail
<1>c. /\ head \o tail \in Seq(Some) /\ Len(head \o tail) = Fields
      /\ \A n \in 1 .. Fields : (head \o tail)[n] = IF n <= 2 THEN head[n] ELSE tail[n - 2]
  <2>1. /\ head \o tail \in Seq(Some) /\ Len(head \o tail) = Len(head) + Len(tail)
        /\ \A n \in 1 .. Len(head) + Len(tail) :
              (head \o tail)[n] = IF n <= Len(head) THEN head[n] ELSE tail[n - Len(head)]
    BY <1>2, ConcatProperties
  <2> QED BY <1>1, <1>2, <2>1
<1>4. ASSUME NEW n \in 1 .. Fields PROVE (head \o tail)[n] = FieldAt(n)
  <2>1. CASE n \in {1, 2}
    <3>1. (head \o tail)[n] = head[n]
      BY <2>1, <1>c
    <3> QED BY <2>1, <3>1, <1>2 DEF FieldAt
  <2>2. CASE n \notin {1, 2}
    <3>1. n - 2 \in 1 .. 2 * SUB_MAP_MAX /\ n > 2
      BY <2>2, <1>1
    <3>2. (head \o tail)[n] = tail[n - 2]
      BY <3>1, <1>c, <1>1
    <3>3. (n - 2) - 1 = n - 3
      BY <3>1
    <3>4. tail[n - 2] = <<IF (n - 2) % 2 = 1 THEN "target" ELSE "prefix", (n - 3) \div 2>>
      BY <3>1, <3>3, <1>a
    <3> QED BY <2>2, <3>2, <3>4 DEF FieldAt
  <2> QED BY <2>1, <2>2
<1>6. head \o tail = [n \in 1 .. Fields |-> (head \o tail)[n]]
  BY <1>c, LenProperties
<1> QED BY <1>1, <1>3, <1>4, <1>c, <1>6

\* What is left to save when k fields have been written.
LEMMA SavingAfter ==
  ASSUME NEW k \in 0 .. Fields, NEW s, s = [n \in 1 .. Fields - k |-> FieldAt(n + k)]
  PROVE  /\ s = << >> <=> k = Fields
         /\ k < Fields => /\ Head(s) = FieldAt(k + 1)
                          /\ Tail(s) = [n \in 1 .. Fields - (k + 1) |-> FieldAt(n + (k + 1))]
<1>0. Fields \in Nat /\ Fields - k \in Nat
  BY SaveOrder
<1> DEFINE Some == {FieldAt(n + k) : n \in 1 .. Fields - k}
<1>1. s \in Seq(Some) /\ Len(s) = Fields - k
  <2>1. \A n \in 1 .. Fields - k : FieldAt(n + k) \in Some
    OBVIOUS
  <2> HIDE DEF Some
  <2>2. [n \in 1 .. Fields - k |-> FieldAt(n + k)] \in Seq(Some)
    BY <1>0, <2>1
  <2>3. s \in Seq(Some)
    BY <2>2
  <2>4. DOMAIN s = 1 .. Fields - k
    OBVIOUS
  <2> QED BY <1>0, <2>3, <2>4, LenProperties
<1> HIDE DEF Some
<1>2. s = << >> <=> k = Fields
  BY <1>0, <1>1, EmptySeq
<1>3. ASSUME k < Fields
      PROVE  /\ Head(s) = FieldAt(k + 1)
             /\ Tail(s) = [n \in 1 .. Fields - (k + 1) |-> FieldAt(n + (k + 1))]
  <2>1. s # << >> /\ Fields - (k + 1) = Len(s) - 1 /\ Fields - (k + 1) \in Nat
    BY <1>0, <1>1, <1>2, <1>3
  <2>2. /\ Head(s) = s[1] /\ Tail(s) \in Seq(Some)
        /\ Len(Tail(s)) = Len(s) - 1
        /\ \A i \in 1 .. Len(Tail(s)) : Tail(s)[i] = s[i + 1]
    <3>1. /\ Tail(s) \in Seq(Some) /\ Len(Tail(s)) = Len(s) - 1
          /\ \A i \in 1 .. Len(Tail(s)) : Tail(s)[i] = s[i + 1]
      BY <1>1, <2>1, HeadTailProperties
    <3>2. Head(s) = s[1]
      BY <1>1, <2>1
    <3> QED BY <3>1, <3>2
  <2>3. \A n \in 1 .. Fields - k : s[n] = FieldAt(n + k)
    OBVIOUS
  <2>4. s[1] = FieldAt(k + 1)
    <3>1. 1 \in 1 .. Fields - k /\ 1 + k = k + 1
      BY <1>0, <1>3
    <3> QED BY <2>3, <3>1
  <2>5. ASSUME NEW n \in 1 .. Fields - (k + 1) PROVE Tail(s)[n] = FieldAt(n + (k + 1))
    <3>1. n + 1 \in 1 .. Fields - k /\ (n + 1) + k = n + (k + 1) /\ n \in 1 .. Len(Tail(s))
      BY <1>0, <2>1, <2>2
    <3>2. Tail(s)[n] = s[n + 1]
      BY <2>2, <3>1
    <3> QED BY <2>3, <3>1, <3>2
  <2>6. Tail(s) = [n \in 1 .. Fields - (k + 1) |-> Tail(s)[n]]
    BY <2>1, <2>2, LenProperties
  <2> QED BY <2>2, <2>4, <2>5, <2>6
<1> QED BY <1>2, <1>3

\* Every field is one of a slot or one of the two numbers.
LEMMA FieldIs ==
  ASSUME NEW n \in 1 .. Fields
  PROVE  \/ n = 1 /\ FieldAt(n) = <<"head", 0>>
         \/ n = 2 /\ FieldAt(n) = <<"count", 0>>
         \/ n > 2 /\ \E i \in Slots : FieldAt(n) \in {<<"target", i>>, <<"prefix", i>>}
<1>0. SUB_MAP_MAX \in Nat \ {0} /\ Fields = 2 + 2 * SUB_MAP_MAX
  BY SubAssumption DEF Fields
<1>1. CASE n > 2
  <2>1. (n - 3) \div 2 \in Slots
    BY <1>0, <1>1 DEF Slots
  <2> QED BY <1>0, <1>1, <2>1 DEF FieldAt
<1> QED BY <1>0, <1>1 DEF FieldAt

\* nvsSave writes every field.
LEMMA AllFields ==
  ASSUME NEW i \in Slots
  PROVE  \E a, b \in 1 .. Fields : FieldAt(a) = <<"target", i>> /\ FieldAt(b) = <<"prefix", i>>
<1>0. SUB_MAP_MAX \in Nat \ {0} /\ Fields = 2 + 2 * SUB_MAP_MAX /\ i \in 0 .. SUB_MAP_MAX - 1
  BY SubAssumption DEF Fields, Slots
<1>1. 2 * i + 3 \in 1 .. Fields /\ 2 * i + 4 \in 1 .. Fields
  BY <1>0
<1>2. FieldAt(2 * i + 3) = <<"target", i>>
  <2>1. ((2 * i + 3) - 2) % 2 = 1 /\ ((2 * i + 3) - 3) \div 2 = i /\ 2 * i + 3 # 1 /\ 2 * i + 3 # 2
    BY <1>0
  <2> QED BY <2>1 DEF FieldAt
<1>3. FieldAt(2 * i + 4) = <<"prefix", i>>
  <2>1. ((2 * i + 4) - 2) % 2 = 0 /\ ((2 * i + 4) - 3) \div 2 = i /\ 2 * i + 4 # 1 /\ 2 * i + 4 # 2
    BY <1>0
  <2> QED BY <2>1 DEF FieldAt
<1> QED BY <1>1, <1>2, <1>3

\* Two maps that agree in every field are the same map.
LEMMA AllSame ==
  ASSUME NEW m \in Maps, NEW s \in Maps,
         \A n \in 1 .. Fields : Field(s, FieldAt(n)) = Field(m, FieldAt(n))
  PROVE  s = m
<1>0. 1 \in 1 .. Fields /\ 2 \in 1 .. Fields
  <2>1. SUB_MAP_MAX \in Nat \ {0} /\ Fields = 2 + 2 * SUB_MAP_MAX
    BY SubAssumption DEF Fields
  <2> QED BY <2>1
<1>1. s.head = m.head /\ s.count = m.count
  <2>1. FieldAt(1) = <<"head", 0>> /\ FieldAt(2) = <<"count", 0>>
    BY DEF FieldAt
  <2>2. Field(s, <<"head", 0>>) = Field(m, <<"head", 0>>) /\ Field(s, <<"count", 0>>) = Field(m, <<"count", 0>>)
    BY <1>0, <2>1
  <2> QED BY <2>2 DEF Field
<1>2. ASSUME NEW i \in Slots PROVE s.target[i] = m.target[i] /\ s.prefix[i] = m.prefix[i]
  <2>1. PICK a, b \in 1 .. Fields : FieldAt(a) = <<"target", i>> /\ FieldAt(b) = <<"prefix", i>>
    BY AllFields
  <2>2. Field(s, <<"target", i>>) = Field(m, <<"target", i>>) /\ Field(s, <<"prefix", i>>) = Field(m, <<"prefix", i>>)
    BY <2>1
  <2> QED BY <2>2 DEF Field
<1>3. /\ m.target \in [Slots -> Targets \cup {""}] /\ s.target \in [Slots -> Targets \cup {""}]
      /\ m.prefix \in [Slots -> SubPrefixes \cup {""}] /\ s.prefix \in [Slots -> SubPrefixes \cup {""}]
  BY DEF Maps
<1>4. s.target = m.target /\ s.prefix = m.prefix
  <2>1. /\ s.target = [i \in Slots |-> s.target[i]] /\ m.target = [i \in Slots |-> m.target[i]]
        /\ s.prefix = [i \in Slots |-> s.prefix[i]] /\ m.prefix = [i \in Slots |-> m.prefix[i]]
    BY <1>3
  <2>2. \A i \in Slots : s.target[i] = m.target[i] /\ s.prefix[i] = m.prefix[i]
    BY <1>2
  <2>3. [i \in Slots |-> s.target[i]] = [i \in Slots |-> m.target[i]]
    BY <2>2
  <2>4. [i \in Slots |-> s.prefix[i]] = [i \in Slots |-> m.prefix[i]]
    BY <2>2
  <2> QED BY <2>1, <2>3, <2>4
<1>5. /\ m = [target |-> m.target, prefix |-> m.prefix, head |-> m.head, count |-> m.count]
      /\ s = [target |-> s.target, prefix |-> s.prefix, head |-> s.head, count |-> s.count]
  BY DEF Maps
<1> QED BY <1>1, <1>4, <1>5

\* The empty map.
LEMMA SubInitInv == SubInit => SubInv
<1> SUFFICES ASSUME SubInit PROVE SubInv
  OBVIOUS
<1>0. SUB_MAP_MAX \in Nat \ {0} /\ Fields \in Nat
  BY SubAssumption, SaveOrder
<1>1. map \in Maps /\ nvs \in Maps
  <2>1. 0 \in Slots /\ 0 \in 0 .. SUB_MAP_MAX
    BY <1>0 DEF Slots
  <2>2. [i \in Slots |-> ""] \in [Slots -> Targets \cup {""}] /\ [i \in Slots |-> ""] \in [Slots -> SubPrefixes \cup {""}]
    OBVIOUS
  <2>3. Empty \in Maps
    BY <2>1, <2>2 DEF Empty, Maps
  <2> QED BY <2>3 DEF SubInit
<1>2. OneEach(map) /\ OneEach(nvs)
  BY DEF SubInit, Empty, OneEach
<1>3. WrittenSoFar(Fields)
  <2>1. saving = [n \in 1 .. Fields - Fields |-> FieldAt(n + Fields)]
    <3>1. 1 .. Fields - Fields = {}
      BY <1>0
    <3>2. [n \in 1 .. Fields - Fields |-> FieldAt(n + Fields)] = << >>
      BY <3>1
    <3> QED BY <3>2 DEF SubInit
  <2>2. nvs = map
    BY DEF SubInit
  <2> QED BY <2>1, <2>2 DEF WrittenSoFar
<1>4. \E k \in 0 .. Fields : WrittenSoFar(k)
  BY <1>0, <1>3
<1>5. DOMAIN chosen = {}
  <2>1. chosen = << >>
    BY DEF SubInit
  <2> QED BY <2>1
<1> QED BY <1>1, <1>2, <1>4, <1>5 DEF SubInv, SubInit

\* A prefix is set for a target: its own entry, or the one at the head, is written over.
LEMMA SubSetInv ==
  ASSUME SubInv, NEW t \in Targets, NEW p \in SubPrefixes, sub_map_set(t, p)
  PROVE  SubInv'
<1> DEFINE known == find_slot(t) # {}
           slot == IF known THEN CHOOSE i \in find_slot(t) : TRUE ELSE map.head
<1>0. SUB_MAP_MAX \in Nat \ {0} /\ Fields \in Nat
  BY SubAssumption, SaveOrder
<1>a. t # ""
  BY SubAssumption
<1>1. /\ map \in Maps /\ nvs = map /\ OneEach(map) /\ nvs' = nvs
      /\ map.target \in [Slots -> Targets \cup {""}] /\ map.prefix \in [Slots -> SubPrefixes \cup {""}]
      /\ map.head \in Slots /\ map.count \in 0 .. SUB_MAP_MAX
  BY DEF SubInv, sub_map_set, Maps
<1>2. slot \in Slots /\ (known => map.target[slot] = t)
  <2>1. CASE known
    <3>1. slot \in find_slot(t)
      BY <2>1
    <3> QED BY <3>1 DEF find_slot
  <2>2. CASE ~known
    BY <1>1, <2>2
  <2> QED BY <2>1, <2>2
<1>3. \A j \in Slots : map.target[j] = t => j = slot
  <2> SUFFICES ASSUME NEW j \in Slots, map.target[j] = t PROVE j = slot
    OBVIOUS
  <2>1. known
    BY DEF find_slot
  <2> HIDE DEF slot, known
  <2> QED BY <2>1, <1>a, <1>1, <1>2 DEF OneEach
<1>4. /\ map' = [target |-> [map.target EXCEPT ![slot] = t],
                 prefix |-> [map.prefix EXCEPT ![slot] = p],
                 head   |-> IF known THEN map.head ELSE (map.head + 1) % SUB_MAP_MAX,
                 count  |-> IF known \/ map.count = SUB_MAP_MAX THEN map.count
                            ELSE map.count + 1]
      /\ chosen' = [x \in (DOMAIN chosen \ {map.target[slot]}) \cup {t} |->
                        IF x = t THEN p ELSE chosen[x]]
      /\ saving' = nvsSave /\ setting' = t
  BY DEF sub_map_set
<1> HIDE DEF slot, known
<1>5. /\ map'.target = [map.target EXCEPT ![slot] = t] /\ map'.prefix = [map.prefix EXCEPT ![slot] = p]
      /\ map'.head = (IF known THEN map.head ELSE (map.head + 1) % SUB_MAP_MAX)
      /\ map'.count = (IF known \/ map.count = SUB_MAP_MAX THEN map.count ELSE map.count + 1)
  BY <1>4
<1>6. /\ map'.target[slot] = t /\ map'.prefix[slot] = p
      /\ \A i \in Slots : i # slot => map'.target[i] = map.target[i] /\ map'.prefix[i] = map.prefix[i]
  BY <1>1, <1>2, <1>5
<1>7. map' \in Maps
  <2>0. map.head \in 0 .. SUB_MAP_MAX - 1 /\ map.count \in 0 .. SUB_MAP_MAX
    BY <1>1 DEF Slots
  <2>1. (map.head + 1) % SUB_MAP_MAX \in 0 .. SUB_MAP_MAX - 1
    <3>1. map.head + 1 \in Nat
      BY <1>0, <2>0
    <3> QED BY <1>0, <3>1
  <2>2. map'.head \in Slots
    BY <1>1, <1>5, <2>1 DEF Slots
  <2>3. map'.count \in 0 .. SUB_MAP_MAX
    <3>1. CASE known \/ map.count = SUB_MAP_MAX
      BY <3>1, <1>5, <2>0
    <3>2. CASE ~(known \/ map.count = SUB_MAP_MAX)
      <4>1. map'.count = map.count + 1 /\ map.count # SUB_MAP_MAX
        BY <3>2, <1>5
      <4> QED BY <4>1, <1>0, <2>0
    <3> QED BY <3>1, <3>2
  <2>4. map'.target \in [Slots -> Targets \cup {""}] /\ map'.prefix \in [Slots -> SubPrefixes \cup {""}]
    BY <1>1, <1>5
  <2>5. map' = [target |-> map'.target, prefix |-> map'.prefix, head |-> map'.head, count |-> map'.count]
    BY <1>4, <1>5
  <2> QED BY <2>2, <2>3, <2>4, <2>5 DEF Maps
<1>8. OneEach(map')
  <2> SUFFICES ASSUME NEW i \in Slots, NEW j \in Slots,
                      map'.target[i] = map'.target[j], map'.target[i] # ""
               PROVE  i = j
    BY DEF OneEach
  <2> QED BY <1>1, <1>3, <1>6 DEF OneEach
<1>9. WrittenSoFar(0)' /\ saving' # << >>
  <2>1. saving' = [n \in 1 .. Fields - 0 |-> FieldAt(n + 0)]
    <3>1. \A n \in 1 .. Fields : n + 0 = n
      BY <1>0
    <3>2. Fields - 0 = Fields
      BY <1>0
    <3> QED BY <3>1, <3>2, <1>4, SaveOrder
  <2>2. 1 .. 0 = {}
    OBVIOUS
  <2>3. Fields # 0
    BY <1>0 DEF Fields
  <2>4. Len(saving') # 0
    BY <2>3, <1>4, SaveOrder
  <2>5. saving' # << >>
    BY <2>4
  <2> QED BY <2>1, <2>2, <2>5 DEF WrittenSoFar
<1>10. \A i \in Slots : map'.target[i] # t => SameAt(i)'
  <2> SUFFICES ASSUME NEW i \in Slots, map'.target[i] # t PROVE SameAt(i)'
    OBVIOUS
  <2>1. i # slot
    BY <1>6
  <2> QED BY <2>1, <1>1, <1>6 DEF SameAt
<1>11. DOMAIN chosen' \subseteq Targets
  BY <1>4 DEF SubInv
<1>12. ASSUME NEW x \in DOMAIN chosen' PROVE \E i \in Slots : map'.target[i] = x /\ map'.prefix[i] = chosen'[x]
  <2>1. CASE x = t
    BY <2>1, <1>2, <1>4, <1>6
  <2>2. CASE x # t
    <3>1. x \in DOMAIN chosen /\ x # map.target[slot] /\ chosen'[x] = chosen[x]
      BY <2>2, <1>4, <1>12
    <3>2. PICK i \in Slots : map.target[i] = x /\ map.prefix[i] = chosen[x]
      BY <3>1 DEF SubInv
    <3>3. i # slot
      BY <3>1, <3>2
    <3> QED BY <3>1, <3>2, <3>3, <1>6
  <2> QED BY <2>1, <2>2
<1>13. \E k \in 0 .. Fields : WrittenSoFar(k)'
  BY <1>0, <1>9
<1>14. OneEach(nvs') /\ nvs' \in Maps
  BY <1>1
<1>15. setting' = t
  BY <1>4
<1> QED BY <1>7, <1>8, <1>9, <1>10, <1>11, <1>12, <1>13, <1>14, <1>15 DEF SubInv

\* What one putInt or putString changes.
LEMMA PutIs ==
  ASSUME NEW m \in Maps, NEW v, NEW i \in Slots
  PROVE  /\ Put(m, <<"head", 0>>, v) =
              [target |-> m.target, prefix |-> m.prefix, head |-> v, count |-> m.count]
         /\ Put(m, <<"count", 0>>, v) =
              [target |-> m.target, prefix |-> m.prefix, head |-> m.head, count |-> v]
         /\ Put(m, <<"target", i>>, v) =
              [target |-> [m.target EXCEPT ![i] = v], prefix |-> m.prefix, head |-> m.head, count |-> m.count]
         /\ Put(m, <<"prefix", i>>, v) =
              [target |-> m.target, prefix |-> [m.prefix EXCEPT ![i] = v], head |-> m.head, count |-> m.count]
<1>0. m = [target |-> m.target, prefix |-> m.prefix, head |-> m.head, count |-> m.count]
  BY DEF Maps
<1>1. Put(m, <<"head", 0>>, v) = [m EXCEPT !.head = v]
  BY DEF Put
<1>2. Put(m, <<"count", 0>>, v) = [m EXCEPT !.count = v]
  BY DEF Put
<1>3. Put(m, <<"target", i>>, v) = [m EXCEPT !.target[i] = v]
  BY DEF Put
<1>4. Put(m, <<"prefix", i>>, v) = [m EXCEPT !.prefix[i] = v]
  BY DEF Put
<1>5. [m EXCEPT !.head = v] = [target |-> m.target, prefix |-> m.prefix, head |-> v, count |-> m.count]
  BY <1>0
<1>6. [m EXCEPT !.count = v] = [target |-> m.target, prefix |-> m.prefix, head |-> m.head, count |-> v]
  BY <1>0
<1>7. [m EXCEPT !.target[i] = v] =
        [target |-> [m.target EXCEPT ![i] = v], prefix |-> m.prefix, head |-> m.head, count |-> m.count]
  BY <1>0
<1>8. [m EXCEPT !.prefix[i] = v] =
        [target |-> m.target, prefix |-> [m.prefix EXCEPT ![i] = v], head |-> m.head, count |-> m.count]
  BY <1>0
<1> QED BY <1>1, <1>2, <1>3, <1>4, <1>5, <1>6, <1>7, <1>8

\* What it means that two maps agree in a field.
LEMMA FieldOf ==
  ASSUME NEW m, NEW s
  PROVE  /\ Field(m, <<"head", 0>>) = Field(s, <<"head", 0>>) <=> m.head = s.head
         /\ Field(m, <<"count", 0>>) = Field(s, <<"count", 0>>) <=> m.count = s.count
         /\ \A i : Field(m, <<"target", i>>) = Field(s, <<"target", i>>) <=> m.target[i] = s.target[i]
         /\ \A i : Field(m, <<"prefix", i>>) = Field(s, <<"prefix", i>>) <=> m.prefix[i] = s.prefix[i]
  BY DEF Field

\* One more field is in NVS.
LEMMA SubSavedInv ==
  ASSUME SubInv, FieldSaved
  PROVE  SubInv'
<1>0. Fields \in Nat /\ SUB_MAP_MAX \in Nat \ {0}
  BY SubAssumption, SaveOrder
<1>1. PICK k \in 0 .. Fields : WrittenSoFar(k)
  BY DEF SubInv
<1>2. k < Fields /\ Head(saving) = FieldAt(k + 1)
      /\ Tail(saving) = [n \in 1 .. Fields - (k + 1) |-> FieldAt(n + (k + 1))]
  BY <1>0, <1>1, SavingAfter DEF FieldSaved, WrittenSoFar
<1>3. k + 1 \in 1 .. Fields
  BY <1>0, <1>2
<1>4. /\ map' = map /\ setting' = setting /\ chosen' = chosen /\ saving' = Tail(saving)
      /\ nvs' = Put(nvs, FieldAt(k + 1), Field(map, FieldAt(k + 1)))
  BY <1>2 DEF FieldSaved
<1>5. /\ map \in Maps /\ nvs \in Maps /\ OneEach(map) /\ OneEach(nvs) /\ setting \in Targets
      /\ \A i \in Slots : map.target[i] # setting => SameAt(i)
      /\ \A t \in DOMAIN chosen : \E i \in Slots : map.target[i] = t /\ map.prefix[i] = chosen[t]
      /\ DOMAIN chosen \subseteq Targets
  BY DEF SubInv, FieldSaved
<1>6. /\ map.target \in [Slots -> Targets \cup {""}] /\ nvs.target \in [Slots -> Targets \cup {""}]
      /\ map.prefix \in [Slots -> SubPrefixes \cup {""}] /\ nvs.prefix \in [Slots -> SubPrefixes \cup {""}]
      /\ map.head \in Slots /\ nvs.head \in Slots
      /\ map.count \in 0 .. SUB_MAP_MAX /\ nvs.count \in 0 .. SUB_MAP_MAX
      /\ nvs = [target |-> nvs.target, prefix |-> nvs.prefix, head |-> nvs.head, count |-> nvs.count]
  BY <1>5 DEF Maps
<1> DEFINE Kind(f) ==
      \/ f = <<"head", 0>> /\ nvs' = [target |-> nvs.target, prefix |-> nvs.prefix,
                                     head |-> map.head, count |-> nvs.count]
      \/ f = <<"count", 0>> /\ nvs' = [target |-> nvs.target, prefix |-> nvs.prefix,
                                      head |-> nvs.head, count |-> map.count]
      \/ \E i \in Slots : /\ f = <<"target", i>>
                          /\ nvs' = [target |-> [nvs.target EXCEPT ![i] = map.target[i]],
                                     prefix |-> nvs.prefix, head |-> nvs.head, count |-> nvs.count]
      \/ \E i \in Slots : /\ f = <<"prefix", i>>
                          /\ nvs' = [target |-> nvs.target,
                                     prefix |-> [nvs.prefix EXCEPT ![i] = map.prefix[i]],
                                     head |-> nvs.head, count |-> nvs.count]
<1>7. Kind(FieldAt(k + 1))
  <2>0. 0 \in Slots
    BY <1>0 DEF Slots
  <2>1. CASE FieldAt(k + 1) = <<"head", 0>>
    <3>1. nvs' = Put(nvs, <<"head", 0>>, map.head)
      BY <2>1, <1>4 DEF Field
    <3>2. nvs' = [target |-> nvs.target, prefix |-> nvs.prefix, head |-> map.head, count |-> nvs.count]
      BY <3>1, <2>0, <1>5, PutIs
    <3> QED BY <2>1, <3>2
  <2>2. CASE FieldAt(k + 1) = <<"count", 0>>
    <3>1. nvs' = Put(nvs, <<"count", 0>>, map.count)
      BY <2>2, <1>4 DEF Field
    <3>2. nvs' = [target |-> nvs.target, prefix |-> nvs.prefix, head |-> nvs.head, count |-> map.count]
      BY <3>1, <2>0, <1>5, PutIs
    <3> QED BY <2>2, <3>2
  <2>3. ASSUME NEW i \in Slots, FieldAt(k + 1) = <<"target", i>>
        PROVE  Kind(FieldAt(k + 1))
    <3>1. nvs' = Put(nvs, <<"target", i>>, map.target[i])
      BY <2>3, <1>4 DEF Field
    <3>2. nvs' = [target |-> [nvs.target EXCEPT ![i] = map.target[i]],
                  prefix |-> nvs.prefix, head |-> nvs.head, count |-> nvs.count]
      BY <3>1, <1>5, PutIs
    <3> QED BY <2>3, <3>2
  <2>4. ASSUME NEW i \in Slots, FieldAt(k + 1) = <<"prefix", i>>
        PROVE  Kind(FieldAt(k + 1))
    <3>1. nvs' = Put(nvs, <<"prefix", i>>, map.prefix[i])
      BY <2>4, <1>4 DEF Field
    <3>2. nvs' = [target |-> nvs.target, prefix |-> [nvs.prefix EXCEPT ![i] = map.prefix[i]],
                  head |-> nvs.head, count |-> nvs.count]
      BY <3>1, <1>5, PutIs
    <3> QED BY <2>4, <3>2
  <2> HIDE DEF Kind
  <2> QED BY <1>3, <2>1, <2>2, <2>3, <2>4, FieldIs
\* What NVS has of an entry that is not being set is what RAM has of it.
<1>8. /\ nvs'.target \in [Slots -> Targets \cup {""}] /\ nvs'.prefix \in [Slots -> SubPrefixes \cup {""}]
      /\ nvs'.head \in {nvs.head, map.head} /\ nvs'.count \in {nvs.count, map.count}
      /\ \A i \in Slots : /\ nvs'.target[i] \in {nvs.target[i], map.target[i]}
                          /\ nvs'.prefix[i] \in {nvs.prefix[i], map.prefix[i]}
      /\ nvs' = [target |-> nvs'.target, prefix |-> nvs'.prefix, head |-> nvs'.head, count |-> nvs'.count]
  <2>1. CASE nvs' = [target |-> nvs.target, prefix |-> nvs.prefix, head |-> map.head, count |-> nvs.count]
    BY <2>1, <1>6
  <2>2. CASE nvs' = [target |-> nvs.target, prefix |-> nvs.prefix, head |-> nvs.head, count |-> map.count]
    BY <2>2, <1>6
  <2>3. CASE \E i \in Slots : nvs' = [target |-> [nvs.target EXCEPT ![i] = map.target[i]],
                                     prefix |-> nvs.prefix, head |-> nvs.head, count |-> nvs.count]
    <3>1. PICK i \in Slots : nvs' = [target |-> [nvs.target EXCEPT ![i] = map.target[i]],
                                    prefix |-> nvs.prefix, head |-> nvs.head, count |-> nvs.count]
      BY <2>3
    <3>2. /\ nvs'.target = [nvs.target EXCEPT ![i] = map.target[i]]
          /\ nvs'.prefix = nvs.prefix /\ nvs'.head = nvs.head /\ nvs'.count = nvs.count
      BY <3>1
    <3>3. nvs' = [target |-> nvs'.target, prefix |-> nvs'.prefix, head |-> nvs'.head, count |-> nvs'.count]
      BY <3>1
    <3> QED BY <3>2, <3>3, <1>6
  <2>4. CASE \E i \in Slots : nvs' = [target |-> nvs.target, prefix |-> [nvs.prefix EXCEPT ![i] = map.prefix[i]],
                                     head |-> nvs.head, count |-> nvs.count]
    <3>1. PICK i \in Slots : nvs' = [target |-> nvs.target, prefix |-> [nvs.prefix EXCEPT ![i] = map.prefix[i]],
                                    head |-> nvs.head, count |-> nvs.count]
      BY <2>4
    <3>2. /\ nvs'.prefix = [nvs.prefix EXCEPT ![i] = map.prefix[i]]
          /\ nvs'.target = nvs.target /\ nvs'.head = nvs.head /\ nvs'.count = nvs.count
      BY <3>1
    <3>3. nvs' = [target |-> nvs'.target, prefix |-> nvs'.prefix, head |-> nvs'.head, count |-> nvs'.count]
      BY <3>1
    <3> QED BY <3>2, <3>3, <1>6
  <2> QED BY <1>7, <2>1, <2>2, <2>3, <2>4
<1>9. nvs' \in Maps
  <2>1. nvs'.head \in Slots /\ nvs'.count \in 0 .. SUB_MAP_MAX
    BY <1>6, <1>8
  <2> QED BY <1>8, <2>1 DEF Maps
<1>10. \A i \in Slots : map.target[i] # setting => SameAt(i)'
  BY <1>4, <1>5, <1>8 DEF SameAt
<1>11. OneEach(nvs')
  <2> SUFFICES ASSUME NEW i \in Slots, NEW j \in Slots,
                      nvs'.target[i] = nvs'.target[j], nvs'.target[i] # ""
               PROVE  i = j
    BY DEF OneEach
  <2>1. CASE map.target[i] # setting /\ map.target[j] # setting
    <3>1. nvs'.target[i] = map.target[i] /\ nvs'.target[j] = map.target[j]
      BY <2>1, <1>4, <1>10 DEF SameAt
    <3>2. map.target[i] = map.target[j] /\ map.target[i] # ""
      BY <3>1
    <3> QED BY <3>2, <1>5 DEF OneEach
  <2>2. CASE map.target[i] = setting /\ map.target[j] = setting
    <3>1. setting # ""
      BY <1>5, SubAssumption
    <3>2. map.target[i] = map.target[j] /\ map.target[i] # ""
      BY <2>2, <3>1
    <3> QED BY <3>2, <1>5 DEF OneEach
  <2>3. ASSUME NEW a \in Slots, NEW b \in Slots, map.target[a] = setting, map.target[b] # setting,
               nvs'.target[a] = nvs'.target[b], nvs'.target[a] # ""
        PROVE  a = b
    <3>1. nvs'.target[b] = map.target[b] /\ nvs.target[b] = map.target[b]
      BY <2>3, <1>4, <1>5, <1>10 DEF SameAt
    <3>2. nvs'.target[a] = nvs.target[a]
      BY <2>3, <3>1, <1>8
    <3>3. nvs.target[a] = nvs.target[b] /\ nvs.target[a] # ""
      BY <2>3, <3>1, <3>2
    <3> QED BY <3>3, <1>5 DEF OneEach
  <2> QED BY <2>1, <2>2, <2>3
<1>12. ASSUME NEW n \in 1 .. k + 1 PROVE Field(nvs', FieldAt(n)) = Field(map, FieldAt(n))
  <2>0. n \in 1 .. Fields
    BY <1>0, <1>2
  <2>1. CASE n = k + 1
    <3>1. CASE FieldAt(n) = <<"head", 0>>
      <4>1. nvs'.head = map.head
        BY <2>1, <3>1, <1>7
      <4>2. Field(nvs', <<"head", 0>>) = Field(map, <<"head", 0>>)
        BY <4>1, FieldOf
      <4> QED BY <3>1, <4>2
    <3>2. CASE FieldAt(n) = <<"count", 0>>
      <4>1. nvs'.count = map.count
        BY <2>1, <3>2, <1>7
      <4>2. Field(nvs', <<"count", 0>>) = Field(map, <<"count", 0>>)
        BY <4>1, FieldOf
      <4> QED BY <3>2, <4>2
    <3>3. ASSUME NEW i \in Slots, FieldAt(n) = <<"target", i>> PROVE Field(nvs', FieldAt(n)) = Field(map, FieldAt(n))
      <4>1. nvs'.target = [nvs.target EXCEPT ![i] = map.target[i]]
        BY <2>1, <3>3, <1>7
      <4>2. nvs'.target[i] = map.target[i]
        BY <4>1, <1>6
      <4>3. Field(nvs', <<"target", i>>) = Field(map, <<"target", i>>)
        BY <4>2, FieldOf
      <4> QED BY <3>3, <4>3
    <3>4. ASSUME NEW i \in Slots, FieldAt(n) = <<"prefix", i>> PROVE Field(nvs', FieldAt(n)) = Field(map, FieldAt(n))
      <4>1. nvs'.prefix = [nvs.prefix EXCEPT ![i] = map.prefix[i]]
        BY <2>1, <3>4, <1>7
      <4>2. nvs'.prefix[i] = map.prefix[i]
        BY <4>1, <1>6
      <4>3. Field(nvs', <<"prefix", i>>) = Field(map, <<"prefix", i>>)
        BY <4>2, FieldOf
      <4> QED BY <3>4, <4>3
    <3> QED BY <2>0, <3>1, <3>2, <3>3, <3>4, FieldIs
  <2>2. CASE n # k + 1
    <3>1. Field(nvs, FieldAt(n)) = Field(map, FieldAt(n))
      <4>1. n \in 1 .. k
        BY <2>2
      <4> QED BY <4>1, <1>1 DEF WrittenSoFar
    <3>2. CASE FieldAt(n) = <<"head", 0>>
      <4>1. Field(nvs, <<"head", 0>>) = Field(map, <<"head", 0>>)
        BY <3>1, <3>2
      <4>2. nvs'.head = map.head
        BY <4>1, <1>8, FieldOf
      <4>3. Field(nvs', <<"head", 0>>) = Field(map, <<"head", 0>>)
        BY <4>2, FieldOf
      <4> QED BY <3>2, <4>3
    <3>3. CASE FieldAt(n) = <<"count", 0>>
      <4>1. Field(nvs, <<"count", 0>>) = Field(map, <<"count", 0>>)
        BY <3>1, <3>3
      <4>2. nvs'.count = map.count
        BY <4>1, <1>8, FieldOf
      <4>3. Field(nvs', <<"count", 0>>) = Field(map, <<"count", 0>>)
        BY <4>2, FieldOf
      <4> QED BY <3>3, <4>3
    <3>4. ASSUME NEW i \in Slots, FieldAt(n) = <<"target", i>> PROVE Field(nvs', FieldAt(n)) = Field(map, FieldAt(n))
      <4>1. Field(nvs, <<"target", i>>) = Field(map, <<"target", i>>)
        BY <3>1, <3>4
      <4>2. nvs.target[i] = map.target[i]
        BY <4>1, FieldOf
      <4>3. nvs'.target[i] = map.target[i]
        BY <4>2, <1>8
      <4>4. Field(nvs', <<"target", i>>) = Field(map, <<"target", i>>)
        BY <4>3, FieldOf
      <4> QED BY <3>4, <4>4
    <3>5. ASSUME NEW i \in Slots, FieldAt(n) = <<"prefix", i>> PROVE Field(nvs', FieldAt(n)) = Field(map, FieldAt(n))
      <4>1. Field(nvs, <<"prefix", i>>) = Field(map, <<"prefix", i>>)
        BY <3>1, <3>5
      <4>2. nvs.prefix[i] = map.prefix[i]
        BY <4>1, FieldOf
      <4>3. nvs'.prefix[i] = map.prefix[i]
        BY <4>2, <1>8
      <4>4. Field(nvs', <<"prefix", i>>) = Field(map, <<"prefix", i>>)
        BY <4>3, FieldOf
      <4> QED BY <3>5, <4>4
    <3> QED BY <2>0, <3>2, <3>3, <3>4, <3>5, FieldIs
  <2> QED BY <2>1, <2>2
<1>13. WrittenSoFar(k + 1)'
  BY <1>2, <1>4, <1>12 DEF WrittenSoFar
<1>14. \E m \in 0 .. Fields : WrittenSoFar(m)'
  <2>1. k + 1 \in 0 .. Fields
    BY <1>3
  <2> QED BY <2>1, <1>13
<1>15. saving' = << >> => nvs' = map'
  <2> SUFFICES ASSUME saving' = << >> PROVE nvs' = map'
    OBVIOUS
  <2>1. k + 1 = Fields
    <3>1. k + 1 \in 0 .. Fields
      BY <1>3
    <3>2. saving' = [n \in 1 .. Fields - (k + 1) |-> FieldAt(n + (k + 1))]
      <4>1. saving' = Tail(saving)
        BY <1>4
      <4> QED BY <4>1, <1>2, Zenon
    <3> QED BY <3>1, <3>2, SavingAfter
  <2>2. \A n \in 1 .. Fields : Field(nvs', FieldAt(n)) = Field(map, FieldAt(n))
    BY <1>12, <2>1
  <2> QED BY <2>2, <1>4, <1>5, <1>9, AllSame
<1> QED BY <1>4, <1>5, <1>9, <1>10, <1>11, <1>14, <1>15 DEF SubInv

\* Power fails in the middle of a save or outside of one.
LEMMA SubRestartInv ==
  ASSUME SubInv, sub_map_init
  PROVE  SubInv'
<1>0. Fields \in Nat
  BY SaveOrder
<1>1. /\ map' = nvs /\ nvs' = nvs /\ saving' = << >>
      /\ chosen' = [t \in DOMAIN chosen \ (IF saving = << >> THEN {} ELSE {setting}) |-> chosen[t]]
  BY DEF sub_map_init
<1>2. nvs \in Maps /\ OneEach(nvs)
  BY DEF SubInv
<1>3. WrittenSoFar(Fields)'
  <2>1. 1 .. Fields - Fields = {}
    BY <1>0
  <2>2. saving' = [n \in 1 .. Fields - Fields |-> FieldAt(n + Fields)]
    BY <1>1, <2>1
  <2> QED BY <1>1, <2>2 DEF WrittenSoFar
<1>4. \E k \in 0 .. Fields : WrittenSoFar(k)'
  BY <1>0, <1>3
<1>5. DOMAIN chosen' \subseteq Targets
  BY <1>1 DEF SubInv
<1>6. ASSUME NEW t \in DOMAIN chosen'
      PROVE  \E i \in Slots : nvs.target[i] = t /\ nvs.prefix[i] = chosen'[t]
  <2>1. t \in DOMAIN chosen /\ chosen'[t] = chosen[t] /\ (saving # << >> => t # setting)
    BY <1>1
  <2>2. PICK i \in Slots : map.target[i] = t /\ map.prefix[i] = chosen[t]
    BY <2>1 DEF SubInv
  <2>3. SameAt(i)
    <3>1. CASE saving = << >>
      BY <3>1 DEF SubInv, SameAt
    <3>2. CASE saving # << >>
      BY <3>2, <2>1, <2>2 DEF SubInv
    <3> QED BY <3>1, <3>2
  <2> QED BY <2>1, <2>2, <2>3 DEF SameAt
<1> QED BY <1>1, <1>2, <1>4, <1>5, <1>6 DEF SubInv

\* Steps that leave the map alone.
LEMMA SubStays ==
  ASSUME SubInv, UNCHANGED subVars
  PROVE  SubInv'
  BY DEF SubInv, subVars, OneEach, WrittenSoFar, SameAt

\* The one entry of a target is the one sub_map_get finds.
LEMMA OnePrefix ==
  ASSUME SubInv
  PROVE  SubPrefixKept
<1>1. OneEach(map) /\ map \in Maps
  BY DEF SubInv
<1>2. ASSUME NEW t \in Targets PROVE Cardinality(find_slot(t)) <= 1
  <2>1. CASE find_slot(t) = {}
    BY <2>1, FS_EmptySet
  <2>2. CASE find_slot(t) # {}
    <3>1. PICK i \in find_slot(t) : TRUE
      BY <2>2
    <3>2. find_slot(t) = {i}
      <4>1. t # ""
        BY SubAssumption
      <4> QED BY <4>1, <1>1, <3>1 DEF OneEach, find_slot
    <3>3. Cardinality({i}) = 1
      BY FS_Singleton
    <3> QED BY <3>2, <3>3
  <2> QED BY <2>1, <2>2
<1>3. ASSUME NEW t \in DOMAIN chosen PROVE find_slot(t) # {} /\ sub_map_get(t) = chosen[t]
  <2>0. t \in Targets /\ t # ""
    BY SubAssumption DEF SubInv
  <2>1. PICK i \in Slots : map.target[i] = t /\ map.prefix[i] = chosen[t]
    BY DEF SubInv
  <2>2. find_slot(t) = {i}
    BY <2>0, <2>1, <1>1 DEF find_slot, OneEach
  <2>3. i \in Nat
    <3>1. i \in 0 .. SUB_MAP_MAX - 1 /\ SUB_MAP_MAX \in Nat
      BY <2>1, SubAssumption DEF Slots
    <3> QED BY <3>1
  <2>4. (CHOOSE x \in {i} : \A j \in {i} : x <= j) = i
    BY <2>3
  <2>5. sub_map_get(t) = map.prefix[i]
    BY <2>2, <2>4 DEF sub_map_get
  <2> QED BY <2>1, <2>2, <2>5
<1> QED BY <1>2, <1>3 DEF SubPrefixKept

-----------------------------------------------------------------------------
(* Buffers, as the sets of what they hold.                                 *)

Ents(s) == {s[i] : i \in DOMAIN s}

\* The entries of a buffer are entries.
LEMMA Members ==
  ASSUME NEW s \in Seq(Entry)
  PROVE  /\ Len(s) \in Nat /\ DOMAIN s = 1 .. Len(s)
         /\ \A i \in DOMAIN s : s[i] \in Entry
         /\ Ents(s) \subseteq Entry
<1>1. Len(s) \in Nat /\ DOMAIN s = 1 .. Len(s)
  BY LenProperties
<1>2. ASSUME NEW i \in DOMAIN s PROVE s[i] \in Entry
  BY <1>1, ElementOfSeq
<1> QED BY <1>1, <1>2 DEF Ents

\* The fields of an entry.
LEMMA EntryIs ==
  ASSUME NEW e \in Entry
  PROVE  /\ e.id \in Ids /\ e.value \in Values /\ e.last_updated \in Nat
         /\ e.id.pfx \in EntityPrefixes /\ e.id.key \in Keys
<1>1. e.id \in Ids /\ e.value \in Values /\ e.last_updated \in 0 .. SEC_WRAP - 1
  BY DEF Entry
<1>2. SEC_WRAP \in Nat
  BY StoreAssumption
<1>3. e.last_updated \in Nat
  BY <1>1, <1>2
<1>4. e.id.pfx \in EntityPrefixes /\ e.id.key \in Keys
  BY <1>1 DEF Ids
<1> QED BY <1>1, <1>3, <1>4

\* Whoever holds every entity once holds one entry of an id.
LEMMA OneOf ==
  ASSUME NEW s, NEW x \in Ents(s), NEW y \in Ents(s), x.id = y.id,
         OnceIn(s) \/ (OnceBut(Doubtful, s) /\ x.id \notin Doubtful)
  PROVE  x = y
BY DEF OnceIn, OnceBut, Ents

\* find_in finds nothing exactly if no entry has the id.
LEMMA Found ==
  ASSUME NEW s, NEW id
  PROVE  find_in(s, id) = {} <=> \A x \in Ents(s) : x.id # id
BY DEF find_in, Ents

\* A buffer with one more entry.
LEMMA Appended ==
  ASSUME NEW s \in Seq(Entry), NEW e \in Entry
  PROVE  /\ Append(s, e) \in Seq(Entry) /\ Len(Append(s, e)) = Len(s) + 1
         /\ Ents(Append(s, e)) = Ents(s) \cup {e}
         /\ OnceIn(s) /\ (\A x \in Ents(s) : x.id # e.id) => OnceIn(Append(s, e))
<1> DEFINE b == Append(s, e)
<1>1. Len(s) \in Nat /\ DOMAIN s = 1 .. Len(s)
  BY Members
<1>2. b \in Seq(Entry) /\ Len(b) = Len(s) + 1
  OBVIOUS
<1>3. DOMAIN b = 1 .. Len(s) + 1
  BY <1>2, LenProperties
<1>4. b[Len(s) + 1] = e
  BY <1>1
<1>5. ASSUME NEW i \in 1 .. Len(s) PROVE b[i] = s[i]
  BY <1>1
<1> HIDE DEF b
<1>6. Ents(b) = Ents(s) \cup {e}
  <2>1. Ents(s) \cup {e} \subseteq Ents(b)
    <3>1. Len(s) + 1 \in DOMAIN b /\ DOMAIN s \subseteq DOMAIN b
      BY <1>1, <1>3
    <3> QED BY <3>1, <1>1, <1>4, <1>5 DEF Ents
  <2>2. ASSUME NEW i \in DOMAIN b PROVE b[i] \in Ents(s) \cup {e}
    <3>1. CASE i = Len(s) + 1
      BY <3>1, <1>4
    <3>2. CASE i # Len(s) + 1
      <4>1. i \in 1 .. Len(s)
        BY <3>2, <1>1, <1>3
      <4> QED BY <4>1, <1>1, <1>5 DEF Ents
    <3> QED BY <3>1, <3>2
  <2> QED BY <2>1, <2>2 DEF Ents
<1>7. ASSUME OnceIn(s), \A x \in Ents(s) : x.id # e.id,
             NEW i \in DOMAIN b, NEW j \in DOMAIN b, b[i].id = b[j].id
      PROVE  i = j
  <2>1. \A k \in 1 .. Len(s) : b[k].id # e.id
    BY <1>1, <1>5, <1>7 DEF Ents
  <2>2. i \in 1 .. Len(s) \/ i = Len(s) + 1
    BY <1>1, <1>3
  <2>3. j \in 1 .. Len(s) \/ j = Len(s) + 1
    BY <1>1, <1>3
  <2>4. CASE i \in 1 .. Len(s) /\ j \in 1 .. Len(s)
    BY <2>4, <1>1, <1>5, <1>7 DEF OnceIn
  <2> QED BY <2>1, <2>2, <2>3, <2>4, <1>4, <1>7
<1> QED BY <1>2, <1>6, <1>7 DEF b, OnceIn

\* Two buffers one after the other.
LEMMA Joined ==
  ASSUME NEW s \in Seq(Entry), NEW t \in Seq(Entry)
  PROVE  /\ s \o t \in Seq(Entry)
         /\ Ents(s \o t) = Ents(s) \cup Ents(t)
         /\ OnceBut(Doubtful, s) /\ OnceBut(Doubtful, t) /\ (\A x \in Ents(s), y \in Ents(t) : x.id # y.id)
              => OnceBut(Doubtful, s \o t)
<1> DEFINE b == s \o t
<1>1. /\ Len(s) \in Nat /\ DOMAIN s = 1 .. Len(s)
      /\ Len(t) \in Nat /\ DOMAIN t = 1 .. Len(t)
  BY Members
<1>2. /\ b \in Seq(Entry) /\ Len(b) = Len(s) + Len(t)
      /\ \A i \in 1 .. Len(s) + Len(t) : b[i] = IF i <= Len(s) THEN s[i] ELSE t[i - Len(s)]
  BY ConcatProperties
<1>3. DOMAIN b = 1 .. Len(s) + Len(t)
  BY <1>2, LenProperties
<1> HIDE DEF b
<1>4. ASSUME NEW i \in DOMAIN b
      PROVE  \/ i \in DOMAIN s /\ b[i] = s[i]
             \/ i - Len(s) \in DOMAIN t /\ b[i] = t[i - Len(s)] /\ i > Len(s)
  <2>1. CASE i <= Len(s)
    <3>1. i \in DOMAIN s
      BY <2>1, <1>1, <1>3
    <3> QED BY <2>1, <3>1, <1>2, <1>3
  <2>2. CASE ~(i <= Len(s))
    <3>1. i - Len(s) \in DOMAIN t /\ i > Len(s)
      BY <2>2, <1>1, <1>3
    <3> QED BY <2>2, <3>1, <1>2, <1>3
  <2> QED BY <2>1, <2>2
<1>5. Ents(b) = Ents(s) \cup Ents(t)
  <2>1. ASSUME NEW i \in DOMAIN s PROVE s[i] \in Ents(b)
    <3>1. i \in DOMAIN b /\ i <= Len(s)
      BY <1>1, <1>3
    <3>2. b[i] = s[i]
      BY <3>1, <1>2, <1>3
    <3> QED BY <3>1, <3>2 DEF Ents
  <2>2. ASSUME NEW i \in DOMAIN t PROVE t[i] \in Ents(b)
    <3>1. i + Len(s) \in DOMAIN b /\ ~(i + Len(s) <= Len(s)) /\ (i + Len(s)) - Len(s) = i
      BY <1>1, <1>3
    <3>2. b[i + Len(s)] = t[i]
      BY <3>1, <1>2, <1>3
    <3> QED BY <3>1, <3>2 DEF Ents
  <2> QED BY <2>1, <2>2, <1>4 DEF Ents
<1>6. ASSUME OnceBut(Doubtful, s), OnceBut(Doubtful, t), \A x \in Ents(s), y \in Ents(t) : x.id # y.id,
             NEW i \in DOMAIN b, NEW j \in DOMAIN b, b[i].id = b[j].id, b[i].id \notin Doubtful
      PROVE  i = j
  <2>1. CASE i \in DOMAIN s /\ b[i] = s[i] /\ j \in DOMAIN s /\ b[j] = s[j]
    BY <2>1, <1>6 DEF OnceBut
  <2>2. CASE /\ i - Len(s) \in DOMAIN t /\ b[i] = t[i - Len(s)]
             /\ j - Len(s) \in DOMAIN t /\ b[j] = t[j - Len(s)]
    <3>1. i - Len(s) = j - Len(s)
      BY <2>2, <1>6 DEF OnceBut
    <3>2. i \in Int /\ j \in Int
      BY <1>1, <1>3
    <3> QED BY <3>1, <3>2, <1>1
  <2>3. CASE i \in DOMAIN s /\ b[i] = s[i] /\ j - Len(s) \in DOMAIN t /\ b[j] = t[j - Len(s)]
    BY <2>3, <1>6 DEF Ents
  <2>4. CASE j \in DOMAIN s /\ b[j] = s[j] /\ i - Len(s) \in DOMAIN t /\ b[i] = t[i - Len(s)]
    BY <2>4, <1>6 DEF Ents
  <2> QED BY <2>1, <2>2, <2>3, <2>4, <1>4
<1> QED BY <1>2, <1>5, <1>6 DEF b, OnceBut

\* The scan finds a place, and no stamp in the table is smaller than its.
LEMMA OldestIs ==
  ASSUME NEW buf \in Seq(Entry), Len(buf) > 0
  PROVE  /\ Oldest(buf) \in DOMAIN buf
         /\ \A x \in Ents(buf) : buf[Oldest(buf)].last_updated <= x.last_updated
<1>1. Len(buf) \in Nat /\ DOMAIN buf = 1 .. Len(buf) /\ 1 \in DOMAIN buf
  BY Members
<1> DEFINE at(i) == buf[i].last_updated
<1>2. \A i \in DOMAIN buf : at(i) \in Nat
  BY Members, EntryIs
<1> DEFINE Stamps == {at(i) : i \in DOMAIN buf}
<1>3. PICK m \in Stamps : \A y \in Stamps : m <= y
  <2>1. Stamps \in SUBSET Nat /\ Stamps # {}
    BY <1>1, <1>2
  <2> HIDE DEF Stamps
  <2> QED BY <2>1, SmallestOf
<1> DEFINE Least == {i \in DOMAIN buf : at(i) = m}
<1>4. PICK i \in Least : \A j \in Least : i <= j
  <2>1. Least \in SUBSET Nat /\ Least # {}
    BY <1>1, <1>3
  <2> HIDE DEF Least
  <2> QED BY <2>1, SmallestOf
<1>5. ASSUME NEW j \in DOMAIN buf PROVE at(i) < at(j) \/ (at(i) = at(j) /\ i <= j)
  <2>1. at(i) = m /\ m <= at(j) /\ m \in Nat /\ at(j) \in Nat
    BY <1>2, <1>3, <1>4
  <2>2. CASE at(j) = m
    BY <2>1, <2>2, <1>4
  <2>3. CASE at(j) # m
    BY <2>1, <2>3
  <2> QED BY <2>2, <2>3
<1>6. /\ Oldest(buf) \in DOMAIN buf
      /\ \A j \in DOMAIN buf : \/ at(Oldest(buf)) < at(j)
                               \/ at(Oldest(buf)) = at(j) /\ Oldest(buf) <= j
  <2>1. \E k \in DOMAIN buf : \A j \in DOMAIN buf : at(k) < at(j) \/ (at(k) = at(j) /\ k <= j)
    BY <1>4, <1>5
  <2> QED BY <2>1 DEF Oldest
<1>7. ASSUME NEW j \in DOMAIN buf PROVE at(Oldest(buf)) <= at(j)
  <2>1. at(Oldest(buf)) \in Nat /\ at(j) \in Nat
    BY <1>2, <1>6
  <2> HIDE DEF at
  <2> QED BY <2>1, <1>6
<1> QED BY <1>6, <1>7 DEF Ents

\* The first of some places is one of them.
LEMMA FirstIs ==
  ASSUME NEW hits \in SUBSET Nat, hits # {}
  PROVE  First(hits) \in hits
<1>1. \E i \in hits : \A j \in hits : i <= j
  BY SmallestOf
<1> QED BY <1>1 DEF First

\* A write into a table: the entry is there, everything once, and what went
\* was the entry's old self or, when the table was full, an oldest entry.
LEMMA TableWriteIs ==
  ASSUME NEW max \in Nat \ {0}, NEW buf \in Seq(Entry), Len(buf) <= max, OnceIn(buf),
         NEW e \in Entry
  PROVE  LET b == TableWrite(buf, max, e.id, e) IN
         /\ b \in Seq(Entry) /\ Len(buf) <= Len(b) /\ Len(b) <= max /\ OnceIn(b)
         /\ \E D \in SUBSET Ents(buf) :
              /\ Ents(b) = (Ents(buf) \ D) \cup {e}
              /\ \A x \in Ents(buf) : x.id = e.id => x \in D
              /\ \A d \in D : \/ d.id = e.id
                              \/ /\ Len(buf) = max /\ Len(b) = max
                                 /\ \A x \in Ents(buf) : d.last_updated <= x.last_updated
<1> DEFINE b == TableWrite(buf, max, e.id, e)
<1>0. Len(buf) \in Nat /\ DOMAIN buf = 1 .. Len(buf) /\ \A i \in DOMAIN buf : buf[i] \in Entry
  BY Members
<1> DEFINE Goal == /\ b \in Seq(Entry) /\ Len(buf) <= Len(b) /\ Len(b) <= max /\ OnceIn(b)
                   /\ \E D \in SUBSET Ents(buf) :
                        /\ Ents(b) = (Ents(buf) \ D) \cup {e}
                        /\ \A x \in Ents(buf) : x.id = e.id => x \in D
                        /\ \A d \in D : \/ d.id = e.id
                                        \/ /\ Len(buf) = max /\ Len(b) = max
                                           /\ \A x \in Ents(buf) : d.last_updated <= x.last_updated
<1>1. ASSUME NEW i \in DOMAIN buf, b = [buf EXCEPT ![i] = e],
             \A j \in DOMAIN buf : buf[j].id = e.id => j = i,
             \/ buf[i].id = e.id
             \/ Len(buf) = max /\ \A x \in Ents(buf) : buf[i].last_updated <= x.last_updated
      PROVE  Goal
  <2>1. /\ b \in Seq(Entry) /\ Len(b) = Len(buf)
        /\ \A j \in 1 .. Len(buf) : b[j] = IF j = i THEN e ELSE buf[j]
    BY <1>0, <1>1, ExceptSeq
  <2>2. DOMAIN b = DOMAIN buf
    BY <1>0, <2>1, LenProperties
  <2>3. b[i] = e /\ \A j \in DOMAIN buf : j # i => b[j] = buf[j]
    BY <1>0, <2>1
  <2> HIDE DEF b
  <2>4. OnceIn(b)
    <3> SUFFICES ASSUME NEW j \in DOMAIN buf, NEW k \in DOMAIN buf, b[j].id = b[k].id
                 PROVE  j = k
      BY <2>2 DEF OnceIn
    <3> QED BY <2>3, <1>1 DEF OnceIn
  <2>5. Ents(b) = (Ents(buf) \ {buf[i]}) \cup {e}
    <3>1. ASSUME NEW j \in DOMAIN buf, j # i PROVE buf[j] # buf[i]
      BY <3>1 DEF OnceIn
    <3> QED BY <3>1, <2>2, <2>3 DEF Ents
  <2>6. {buf[i]} \in SUBSET Ents(buf)
    BY DEF Ents
  <2>7. \A x \in Ents(buf) : x.id = e.id => x \in {buf[i]}
    BY <1>1 DEF Ents
  <2>8. \A d \in {buf[i]} : \/ d.id = e.id
                            \/ /\ Len(buf) = max /\ Len(b) = max
                               /\ \A x \in Ents(buf) : d.last_updated <= x.last_updated
    BY <1>1, <2>1
  <2>9. Len(buf) <= Len(b) /\ Len(b) <= max
    BY <1>0, <2>1
  <2> QED BY <2>1, <2>4, <2>5, <2>6, <2>7, <2>8, <2>9
<1>2. CASE find_in(buf, e.id) # {}
  <2>1. PICK i \in DOMAIN buf : buf[i].id = e.id
    BY <1>2 DEF find_in
  <2>2. \A j \in DOMAIN buf : buf[j].id = e.id <=> j = i
    BY <2>1 DEF OnceIn
  <2>3. find_in(buf, e.id) = {i}
    BY <2>2 DEF find_in
  <2>4. b = [buf EXCEPT ![i] = e]
    <3>1. b = [buf EXCEPT ![First(find_in(buf, e.id))] = e]
      BY <1>2 DEF TableWrite
    <3>2. First({i}) = i
      <4>1. {i} \in SUBSET Nat /\ {i} # {}
        BY <1>0
      <4> QED BY <4>1, FirstIs
    <3> HIDE DEF b
    <3> QED BY <3>1, <3>2, <2>3
  <2> QED BY <1>1, <2>1, <2>2, <2>4
<1>3. CASE find_in(buf, e.id) = {} /\ Len(buf) < max
  <2>1. b = Append(buf, e)
    BY <1>3 DEF TableWrite
  <2>2. \A x \in Ents(buf) : x.id # e.id
    BY <1>3, Found
  <2>3. b \in Seq(Entry) /\ Len(b) = Len(buf) + 1 /\ Ents(b) = Ents(buf) \cup {e} /\ OnceIn(b)
    BY <2>1, <2>2, Appended
  <2> HIDE DEF b
  <2>4. Len(buf) <= Len(b) /\ Len(b) <= max
    BY <1>0, <1>3, <2>3
  <2>5. Ents(b) = (Ents(buf) \ {}) \cup {e} /\ {} \in SUBSET Ents(buf)
    BY <2>3
  <2>6. \E D \in SUBSET Ents(buf) :
              /\ Ents(b) = (Ents(buf) \ D) \cup {e}
              /\ \A x \in Ents(buf) : x.id = e.id => x \in D
              /\ \A d \in D : \/ d.id = e.id
                              \/ /\ Len(buf) = max /\ Len(b) = max
                                 /\ \A x \in Ents(buf) : d.last_updated <= x.last_updated
    <3> WITNESS {} \in SUBSET Ents(buf)
    <3> QED BY <2>2, <2>5
  <2> QED BY <2>3, <2>4, <2>6 DEF b
<1>4. CASE find_in(buf, e.id) = {} /\ ~(Len(buf) < max)
  <2>1. b = [buf EXCEPT ![Oldest(buf)] = e]
    BY <1>4 DEF TableWrite
  <2>2. Len(buf) = max /\ Len(buf) > 0
    <3>1. Len(buf) \in Nat /\ Len(buf) <= max /\ ~(Len(buf) < max)
      BY <1>0, <1>4
    <3> QED BY <3>1
  <2>3. \A j \in DOMAIN buf : buf[j].id # e.id
    BY <1>4 DEF find_in
  <2> QED BY <1>1, <2>1, <2>2, <2>3, OldestIs
<1> QED BY <1>2, <1>3, <1>4


\* What the compaction leaves: the entries kept, still once each.
LEMMA CompactedIs ==
  ASSUME NEW buf \in Seq(Entry), NEW kept
  PROVE  /\ Compacted(buf, kept) \in Seq(Entry) /\ Len(Compacted(buf, kept)) <= Len(buf)
         /\ Ents(Compacted(buf, kept)) = {buf[r] : r \in kept \cap DOMAIN buf}
         /\ OnceIn(buf) => OnceIn(Compacted(buf, kept))
<1>0. Len(buf) \in Nat /\ DOMAIN buf = 1 .. Len(buf) /\ \A i \in DOMAIN buf : buf[i] \in Entry
  BY Members
<1> DEFINE n == Len(buf)
           Fix(w) == w = [r \in 0 .. n |->
                            IF r = 0 THEN << >>
                            ELSE IF r \in kept THEN Append(w[r - 1], buf[r]) ELSE w[r - 1]]
           W == CHOOSE w : Fix(w)
           F == [r \in 1 .. n |-> [s \in Seq(Entry) |-> IF r \in kept THEN Append(s, buf[r]) ELSE s]]
<1>1. Compacted(buf, kept) = W[n]
  BY DEF Compacted
<1>2. Steps(n, Seq(Entry), F)
  <2>1. ASSUME NEW r \in 1 .. n, NEW s \in Seq(Entry)
        PROVE  (IF r \in kept THEN Append(s, buf[r]) ELSE s) \in Seq(Entry)
    BY <1>0, Appended
  <2> QED BY <2>1 DEF Steps
<1>3. PICK f \in [0 .. n -> Seq(Entry)] : f[0] = << >> /\ \A r \in 1 .. n : f[r] = F[r][f[r - 1]]
  <2>1. << >> \in Seq(Entry)
    OBVIOUS
  <2> HIDE DEF F, n
  <2>2. n \in Nat
    BY <1>0 DEF n
  <2>3. Solves(n, Seq(Entry), << >>, F)
    BY <2>1, <2>2, <1>2, FoldExists
  <2> QED BY <2>3 DEF Solves
<1>4. Fix(f)
  <2>1. ASSUME NEW r \in 1 .. n
        PROVE  f[r] = IF r \in kept THEN Append(f[r - 1], buf[r]) ELSE f[r - 1]
    <3>1. r - 1 \in 0 .. n
      BY <1>0
    <3>2. f[r - 1] \in Seq(Entry)
      BY <3>1
    <3> QED BY <3>2, <1>3
  <2>2. f = [r \in 0 .. n |-> f[r]]
    OBVIOUS
  <2>3. \A r \in 0 .. n : r # 0 => r \in 1 .. n
    BY <1>0
  <2>4. ASSUME NEW r \in 0 .. n
        PROVE  f[r] = IF r = 0 THEN << >>
                      ELSE IF r \in kept THEN Append(f[r - 1], buf[r]) ELSE f[r - 1]
    BY <2>1, <2>3, <1>3
  <2> HIDE DEF n
  <2> QED BY <2>2, <2>4
<1>5. Fix(W)
  <2> HIDE DEF Fix
  <2> QED BY <1>4
<1> HIDE DEF W
<1>6. /\ W[0] = << >>
      /\ \A r \in 1 .. n : W[r] = IF r \in kept THEN Append(W[r - 1], buf[r]) ELSE W[r - 1]
  <2>1. 0 \in 0 .. n /\ \A r \in 1 .. n : r \in 0 .. n /\ r # 0
    BY <1>0
  <2>2. \A r \in 0 .. n : W[r] = IF r = 0 THEN << >>
                      ELSE IF r \in kept THEN Append(W[r - 1], buf[r]) ELSE W[r - 1]
    BY <1>5
  <2> HIDE DEF n
  <2> QED BY <2>1, <2>2
<1> DEFINE Upto(r) == {buf[i] : i \in kept \cap (1 .. r)}
           Good(r) == /\ W[r] \in Seq(Entry) /\ Len(W[r]) <= r /\ Ents(W[r]) = Upto(r)
                      /\ OnceIn(buf) => OnceIn(W[r])
           T == {r \in 0 .. n : Good(r)}
<1>7. 0 \in T
  <2>1. << >> \in Seq(Entry) /\ Len(<< >>) = 0 /\ DOMAIN << >> = {} /\ 1 .. 0 = {}
    OBVIOUS
  <2>2. Upto(0) = {}
    BY <2>1
  <2>3. Ents(<< >>) = {} /\ OnceIn(<< >>)
    BY <2>1 DEF Ents, OnceIn
  <2>4. 0 \in 0 .. n /\ 0 <= 0
    BY <1>0
  <2> HIDE DEF Upto
  <2>5. Good(0)
    BY <1>6, <2>1, <2>2, <2>3, <2>4
  <2> QED BY <2>4, <2>5
<1>8. ASSUME NEW r \in 1 .. n, r - 1 \in T PROVE r \in T
  <2>1. Good(r - 1)
    BY <1>8
  <2>2. r \in DOMAIN buf /\ buf[r] \in Entry /\ r \in 0 .. n
    BY <1>0
  <2>3. CASE r \notin kept
    <3>1. W[r] = W[r - 1]
      BY <2>3, <1>6
    <3>2. Upto(r) = Upto(r - 1)
      <4>1. \A i \in kept : i \in 1 .. r <=> i \in 1 .. r - 1
        BY <2>3
      <4> QED BY <4>1
    <3>3. Len(W[r - 1]) \in Nat
      BY <2>1, Members
    <3>4. Len(W[r - 1]) <= r
      BY <2>1, <3>3
    <3> HIDE DEF Upto
    <3>5. Good(r)
      BY <2>1, <3>1, <3>2, <3>4
    <3> QED BY <3>5, <2>2
  <2>4. CASE r \in kept
    <3>1. W[r] = Append(W[r - 1], buf[r])
      BY <2>4, <1>6
    <3>2. Upto(r) = Upto(r - 1) \cup {buf[r]}
      <4>1. \A i \in kept : i \in 1 .. r <=> (i \in 1 .. r - 1 \/ i = r)
        OBVIOUS
      <4> QED BY <4>1, <2>4
    <3>3. ASSUME OnceIn(buf), NEW x \in Upto(r - 1) PROVE x.id # buf[r].id
      <4>1. PICK i \in kept \cap (1 .. r - 1) : x = buf[i]
        OBVIOUS
      <4>2. i \in DOMAIN buf /\ i # r
        BY <4>1, <1>0
      <4> QED BY <4>1, <4>2, <2>2, <3>3 DEF OnceIn
    <3>4. /\ W[r] \in Seq(Entry) /\ Len(W[r]) = Len(W[r - 1]) + 1
          /\ Ents(W[r]) = Ents(W[r - 1]) \cup {buf[r]}
          /\ OnceIn(W[r - 1]) /\ (\A x \in Ents(W[r - 1]) : x.id # buf[r].id) => OnceIn(W[r])
      BY <2>1, <2>2, <3>1, Appended
    <3>5. Len(W[r - 1]) \in Nat
      BY <2>1, Members
    <3>6. Len(W[r]) <= r
      BY <2>1, <3>4, <3>5
    <3> HIDE DEF Upto
    <3>7. OnceIn(buf) => OnceIn(W[r])
      BY <2>1, <3>3, <3>4
    <3>8. Good(r)
      BY <2>1, <3>2, <3>4, <3>6, <3>7
    <3> QED BY <3>8, <2>2
  <2> QED BY <2>3, <2>4
<1>9. Good(n)
  <2>1. n \in Nat /\ n \in 0 .. n
    BY <1>0
  <2> HIDE DEF T, n
  <2>2. \A r \in 0 .. n : r \in T
    BY <1>7, <1>8, <2>1, UpTo
  <2> QED BY <2>1, <2>2 DEF T
<1> QED BY <1>0, <1>1, <1>9

\* A prune keeps what is young enough, and nothing else.
LEMMA PruneIs ==
  ASSUME NEW buf \in Seq(Entry), OnceIn(buf), NEW ttl_s, NEW now_s
  PROVE  LET b == Prune(buf, ttl_s, now_s) IN
         /\ b \in Seq(Entry) /\ Len(b) <= Len(buf) /\ OnceIn(b)
         /\ Ents(b) \subseteq Ents(buf)
         /\ \A x \in Ents(buf) : x \in Ents(b) \/ ~(Age(x, now_s) <= ttl_s)
<1> DEFINE b == Prune(buf, ttl_s, now_s)
           kept == {r \in DOMAIN buf : Age(buf[r], now_s) <= ttl_s}
<1>1. CASE ttl_s = 0
  <2>1. b = buf
    BY <1>1 DEF Prune
  <2>2. Len(buf) \in Nat
    BY Members
  <2> QED BY <2>1, <2>2
<1>2. CASE ttl_s # 0
  <2>1. b = Compacted(buf, kept)
    BY <1>2 DEF Prune
  <2> HIDE DEF b
  <2>2. b \in Seq(Entry) /\ Len(b) <= Len(buf) /\ OnceIn(b) /\ Ents(b) = {buf[r] : r \in kept \cap DOMAIN buf}
    BY <2>1, CompactedIs
  <2>3. ASSUME NEW i \in DOMAIN buf, Age(buf[i], now_s) <= ttl_s PROVE buf[i] \in Ents(b)
    BY <2>2, <2>3
  <2>4. Ents(b) \subseteq Ents(buf)
    BY <2>2 DEF Ents
  <2>5. \A x \in Ents(buf) : x \in Ents(b) \/ ~(Age(x, now_s) <= ttl_s)
    BY <2>3 DEF Ents
  <2> QED BY <2>2, <2>4, <2>5 DEF b
<1> QED BY <1>1, <1>2

-----------------------------------------------------------------------------
(* Rings.  The places in use are the first "count".                        *)

RingOK(r, max) ==
    /\ r \in Ring(max)
    /\ r.count < max => r.head = r.count
    /\ \A s \in 0 .. r.count - 1 : r.slot[s] \in Entry
    /\ \A s, t \in 0 .. r.count - 1 :
          r.slot[s].id = r.slot[t].id => s = t \/ r.slot[s].id \in Doubtful

InRing(r) == {r.slot[s] : s \in 0 .. r.count - 1}

\* What % does to an index of a ring.
LEMMA ModIs ==
  ASSUME NEW m \in Nat \ {0}, NEW j \in 0 .. m - 1
  PROVE  j % m = j /\ (j + m) % m = j /\ (j + 2 * m) % m = j
<1>1. j % m = j
  OBVIOUS
<1>2. ASSUME NEW x \in Nat PROVE x = m * (x \div m) + (x % m) /\ x % m \in 0 .. m - 1 /\ x \div m \in Nat
  OBVIOUS
<1>3. (j + m) % m = j
  <2> DEFINE q == (j + m) \div m
             e == (j + m) % m
  <2>1. j + m = m * q + e /\ e \in 0 .. m - 1 /\ q \in Nat
    BY <1>2
  <2> HIDE DEF q, e
  <2>2. q # 0
    BY <2>1
  <2>3. ~(q >= 2)
    <3> SUFFICES ASSUME q >= 2 PROVE FALSE
      OBVIOUS
    <3>1. m * q >= m * 2
      BY <2>1
    <3> QED BY <3>1, <2>1
  <2>4. q = 1
    BY <2>1, <2>2, <2>3
  <2>5. e = j
    BY <2>1, <2>4
  <2> QED BY <2>5 DEF e
<1>4. (j + 2 * m) % m = j
  <2> DEFINE q == (j + 2 * m) \div m
             e == (j + 2 * m) % m
  <2>1. j + 2 * m = m * q + e /\ e \in 0 .. m - 1 /\ q \in Nat
    BY <1>2
  <2> HIDE DEF q, e
  <2>2. q # 0 /\ q # 1
    BY <2>1
  <2>3. ~(q >= 3)
    <3> SUFFICES ASSUME q >= 3 PROVE FALSE
      OBVIOUS
    <3>1. m * q >= m * 3
      BY <2>1
    <3> QED BY <3>1, <2>1
  <2>4. q = 2
    BY <2>1, <2>2, <2>3
  <2>5. e = j
    BY <2>1, <2>4
  <2> QED BY <2>5 DEF e
<1> QED BY <1>1, <1>3, <1>4

\* The places from the oldest on are the places in use, each once.
LEMMA Places ==
  ASSUME NEW max \in Nat \ {0}, NEW head \in 0 .. max - 1, NEW count \in 0 .. max,
         count < max => head = count
  PROVE  LET at(i) == ring_index(head, count, i, max) IN
         /\ \A i \in 0 .. count - 1 : at(i) \in 0 .. count - 1
         /\ \A i, j \in 0 .. count - 1 : at(i) = at(j) => i = j
         /\ \A s \in 0 .. count - 1 : \E i \in 0 .. count - 1 : at(i) = s
<1> DEFINE at(i) == ring_index(head, count, i, max)
<1>1. CASE count < max
  <2>1. ASSUME NEW i \in 0 .. count - 1 PROVE at(i) = i
    <3>1. ((head + max * 2) - count) + i = i + 2 * max /\ i \in 0 .. max - 1
      BY <1>1
    <3>2. at(i) = (i + 2 * max) % max
      BY <3>1 DEF ring_index
    <3> QED BY <3>1, <3>2, ModIs
  <2> HIDE DEF at
  <2>2. /\ \A i \in 0 .. count - 1 : at(i) \in 0 .. count - 1
        /\ \A i, j \in 0 .. count - 1 : at(i) = at(j) => i = j
        /\ \A s \in 0 .. count - 1 : \E i \in 0 .. count - 1 : at(i) = s
    BY <2>1
  <2> QED BY <2>2 DEF at
<1>2. CASE count = max
  <2>1. ASSUME NEW i \in 0 .. max - 1
        PROVE  at(i) = IF head + i < max THEN head + i ELSE head + i - max
    <3>1. CASE head + i < max
      <4>1. ((head + max * 2) - count) + i = (head + i) + max /\ head + i \in 0 .. max - 1
        BY <1>2, <3>1
      <4>2. at(i) = ((head + i) + max) % max
        BY <4>1 DEF ring_index
      <4>3. ((head + i) + max) % max = head + i
        BY <4>1, ModIs
      <4> QED BY <3>1, <4>2, <4>3
    <3>2. CASE ~(head + i < max)
      <4>1. ((head + max * 2) - count) + i = (head + i - max) + 2 * max /\ head + i - max \in 0 .. max - 1
        BY <1>2, <3>2
      <4>2. at(i) = ((head + i - max) + 2 * max) % max
        BY <4>1 DEF ring_index
      <4>3. ((head + i - max) + 2 * max) % max = head + i - max
        BY <4>1, ModIs
      <4> QED BY <3>2, <4>2, <4>3
    <3> QED BY <3>1, <3>2
  <2> HIDE DEF at
  <2>2. \A i \in 0 .. max - 1 : at(i) \in 0 .. max - 1
    BY <2>1
  <2>3. \A i, j \in 0 .. max - 1 : at(i) = at(j) => i = j
    BY <2>1
  <2>4. ASSUME NEW s \in 0 .. max - 1 PROVE \E i \in 0 .. max - 1 : at(i) = s
    <3>1. CASE s >= head
      <4>1. s - head \in 0 .. max - 1 /\ head + (s - head) = s /\ s < max
        BY <3>1
      <4>2. at(s - head) = s
        BY <4>1, <2>1
      <4> QED BY <4>1, <4>2
    <3>2. CASE ~(s >= head)
      <4>1. s - head + max \in 0 .. max - 1 /\ head + (s - head + max) = s + max /\ ~(s + max < max)
            /\ s + max - max = s
        BY <3>2
      <4>2. at(s - head + max) = s
        BY <4>1, <2>1
      <4> QED BY <4>1, <4>2
    <3> QED BY <3>1, <3>2
  <2> QED BY <1>2, <2>2, <2>3, <2>4 DEF at
<1> QED BY <1>1, <1>2

\* The fields of a sound ring.
LEMMA RingParts ==
  ASSUME NEW max \in Nat \ {0}, NEW r, RingOK(r, max)
  PROVE  /\ r.head \in 0 .. max - 1 /\ r.count \in 0 .. max
         /\ r.count < max => r.head = r.count
         /\ r.slot \in [0 .. max - 1 -> Entry \cup {<< >>}]
         /\ \A s \in 0 .. r.count - 1 : s \in 0 .. max - 1 /\ r.slot[s] \in Entry
         /\ \A s, t \in 0 .. r.count - 1 :
               r.slot[s].id = r.slot[t].id => s = t \/ r.slot[s].id \in Doubtful
         /\ r = [slot |-> r.slot, head |-> r.head, count |-> r.count]
<1>1. r \in Ring(max)
  BY DEF RingOK
<1>2. /\ r.head \in 0 .. max - 1 /\ r.count \in 0 .. max
      /\ r.slot \in [0 .. max - 1 -> Entry \cup {<< >>}]
      /\ r = [slot |-> r.slot, head |-> r.head, count |-> r.count]
  BY <1>1 DEF Ring
<1>3. \A s \in 0 .. r.count - 1 : s \in 0 .. max - 1
  BY <1>2
<1> QED BY <1>2, <1>3 DEF RingOK

\* The walk from the oldest entry on meets every entry of the ring once.
LEMMA RingSeqIs ==
  ASSUME NEW max \in Nat \ {0}, NEW r, RingOK(r, max)
  PROVE  /\ RingSeq(r, max) \in Seq(Entry)
         /\ Ents(RingSeq(r, max)) = InRing(r)
         /\ OnceBut(Doubtful, RingSeq(r, max))
<1> DEFINE at(i) == ring_index(r.head, r.count, i, max)
           b == RingSeq(r, max)
<1>1. /\ r.count \in Nat
      /\ \A s \in 0 .. r.count - 1 : r.slot[s] \in Entry
      /\ \A s, t \in 0 .. r.count - 1 :
            r.slot[s].id = r.slot[t].id => s = t \/ r.slot[s].id \in Doubtful
  <2>1. max \in Nat /\ r.count \in 0 .. max
    BY RingParts
  <2>2. r.count \in Nat
    BY <2>1
  <2> QED BY <2>2, RingParts
<1>2. /\ \A i \in 0 .. r.count - 1 : at(i) \in 0 .. r.count - 1
      /\ \A i, j \in 0 .. r.count - 1 : at(i) = at(j) => i = j
      /\ \A s \in 0 .. r.count - 1 : \E i \in 0 .. r.count - 1 : at(i) = s
  <2>1. r.head \in 0 .. max - 1 /\ r.count \in 0 .. max /\ (r.count < max => r.head = r.count)
    BY RingParts
  <2> QED BY <2>1, Places
<1> HIDE DEF at
<1>3. b = [i \in 1 .. r.count |-> r.slot[at(i - 1)]]
  BY DEF RingSeq, at
<1>4. \A i \in 1 .. r.count : i - 1 \in 0 .. r.count - 1
  BY <1>1
<1>5. \A i \in 1 .. r.count : r.slot[at(i - 1)] \in Entry
  BY <1>1, <1>2, <1>4
<1>6. b \in Seq(Entry)
  <2>1. [i \in 1 .. r.count |-> r.slot[at(i - 1)]] \in Seq(Entry)
    BY <1>1, <1>5
  <2> QED BY <1>3, <2>1
<1> HIDE DEF b
<1>7. DOMAIN b = 1 .. r.count /\ \A i \in 1 .. r.count : b[i] = r.slot[at(i - 1)]
  BY <1>3
<1>8. Ents(b) = InRing(r)
  <2>1. ASSUME NEW i \in 1 .. r.count PROVE b[i] \in InRing(r)
    BY <1>2, <1>4, <1>7 DEF InRing
  <2>2. ASSUME NEW s \in 0 .. r.count - 1 PROVE r.slot[s] \in Ents(b)
    <3>1. PICK i \in 0 .. r.count - 1 : at(i) = s
      BY <1>2
    <3>2. i + 1 \in 1 .. r.count /\ (i + 1) - 1 = i
      BY <1>1
    <3>3. b[i + 1] = r.slot[s]
      BY <3>1, <3>2, <1>7
    <3> QED BY <3>2, <3>3, <1>7 DEF Ents
  <2> QED BY <2>1, <2>2, <1>7 DEF Ents, InRing
<1>9. OnceBut(Doubtful, b)
  <2> SUFFICES ASSUME NEW i \in 1 .. r.count, NEW j \in 1 .. r.count, b[i].id = b[j].id,
                      b[i].id \notin Doubtful
               PROVE  i = j
    BY <1>7 DEF OnceBut
  <2>0. /\ i - 1 \in 0 .. r.count - 1 /\ j - 1 \in 0 .. r.count - 1
        /\ r.slot[at(i - 1)].id = r.slot[at(j - 1)].id /\ r.slot[at(i - 1)].id \notin Doubtful
    BY <1>4, <1>7
  <2>1. at(i - 1) = at(j - 1)
    <3>1. at(i - 1) \in 0 .. r.count - 1 /\ at(j - 1) \in 0 .. r.count - 1
      BY <1>2, <2>0
    <3> QED BY <2>0, <3>1, <1>1
  <2>2. i - 1 = j - 1
    BY <2>1, <1>2, <1>4
  <2> QED BY <2>2, <1>1
<1> QED BY <1>6, <1>8, <1>9 DEF b

\* A write into a ring, under the id of the entry or one it is cut down from.
LEMMA RingWriteIs ==
  ASSUME NEW max \in Nat \ {0}, NEW r, RingOK(r, max), NEW id, NEW e \in Entry,
         e.id = id \/ e.id \in Doubtful
  PROVE  LET b == RingWrite(r, max, id, e) IN
         /\ RingOK(b, max)
         /\ e \in InRing(b)
         /\ InRing(b) \subseteq InRing(r) \cup {e}
<1> DEFINE at(i) == ring_index(r.head, r.count, i, max)
           hits == find_in(RingSeq(r, max), id)
           b == RingWrite(r, max, id, e)
<1>0. /\ max \in Nat /\ max > 0 /\ r.head \in 0 .. max - 1 /\ r.count \in 0 .. max
      /\ r.count < max => r.head = r.count
  BY RingParts
<1>1. /\ r.slot \in [0 .. max - 1 -> Entry \cup {<< >>}]
      /\ \A s \in 0 .. r.count - 1 : s \in 0 .. max - 1 /\ r.slot[s] \in Entry
      /\ \A s, t \in 0 .. r.count - 1 :
            r.slot[s].id = r.slot[t].id => s = t \/ r.slot[s].id \in Doubtful
      /\ r = [slot |-> r.slot, head |-> r.head, count |-> r.count]
  BY RingParts
<1>2. hits \in SUBSET (1 .. r.count) /\ \A i \in hits : r.slot[at(i - 1)].id = id
  BY DEF find_in, RingSeq
<1>3. ASSUME NEW s \in 0 .. max - 1, NEW c \in r.count .. max, NEW h \in 0 .. max - 1,
             c < max => h = c,
             b = [slot |-> [r.slot EXCEPT ![s] = e], head |-> h, count |-> c],
             s \in 0 .. c - 1,
             \A t \in 0 .. c - 1 : t # s => t \in 0 .. r.count - 1 /\ (r.slot[t].id # e.id \/ e.id \in Doubtful)
      PROVE  RingOK(b, max) /\ e \in InRing(b) /\ InRing(b) \subseteq InRing(r) \cup {e}
  <2>1. b.slot = [r.slot EXCEPT ![s] = e] /\ b.head = h /\ b.count = c
    BY <1>3
  <2>2. b.slot[s] = e /\ \A t \in 0 .. max - 1 : t # s => b.slot[t] = r.slot[t]
    BY <2>1, <1>1
  <2>3. \A t \in 0 .. c - 1 : t # s => b.slot[t] = r.slot[t] /\ r.slot[t] \in Entry
    BY <2>2, <1>1, <1>3
  <2>4. b \in Ring(max)
    <3>1. [r.slot EXCEPT ![s] = e] \in [0 .. max - 1 -> Entry \cup {<< >>}]
      BY <1>1
    <3>2. c \in 0 .. max
      BY <1>0
    <3> QED BY <3>1, <3>2, <1>3 DEF Ring
  <2>5. \A t \in 0 .. c - 1 : b.slot[t] \in Entry
    BY <2>2, <2>3
  <2>6. ASSUME NEW t \in 0 .. c - 1, NEW u \in 0 .. c - 1, b.slot[t].id = b.slot[u].id
        PROVE  t = u \/ b.slot[t].id \in Doubtful
    BY <2>2, <2>3, <2>6, <1>1, <1>3
  <2>7. RingOK(b, max)
    BY <2>1, <2>4, <2>5, <2>6, <1>3 DEF RingOK
  <2>8. e \in InRing(b)
    BY <2>1, <2>2, <1>3 DEF InRing
  <2>9. InRing(b) \subseteq InRing(r) \cup {e}
    BY <2>1, <2>2, <2>3, <1>3 DEF InRing
  <2> QED BY <2>7, <2>8, <2>9
<1>4. CASE hits # {}
  <2> DEFINE s == at(First(hits) - 1)
  <2>1. s \in 0 .. r.count - 1 /\ r.slot[s].id = id
    <3>1. hits \in SUBSET Nat /\ \A i \in hits : i - 1 \in 0 .. r.count - 1
      BY <1>0, <1>2
    <3>2. First(hits) \in hits
      BY <3>1, <1>4, FirstIs
    <3>3. \A i \in 0 .. r.count - 1 : at(i) \in 0 .. r.count - 1
      BY <1>0, Places
    <3> HIDE DEF hits, at
    <3> QED BY <3>1, <3>2, <3>3, <1>2
  <2>2. b = [r EXCEPT !.slot[s] = e]
    BY <1>4 DEF RingWrite
  <2> HIDE DEF b, s
  <2>6. b = [slot |-> [r.slot EXCEPT ![s] = e], head |-> r.head, count |-> r.count]
    BY <2>2, <1>1
  <2>7. \A t \in 0 .. r.count - 1 : t # s => t \in 0 .. r.count - 1 /\ (r.slot[t].id # e.id \/ e.id \in Doubtful)
    BY <2>1, <1>1
  <2>8. s \in 0 .. max - 1 /\ r.count \in r.count .. max
    BY <1>0, <2>1
  <2>9. RingOK(b, max) /\ e \in InRing(b) /\ InRing(b) \subseteq InRing(r) \cup {e}
    BY <1>0, <1>3, <2>1, <2>6, <2>7, <2>8
  <2> QED BY <2>9 DEF b
<1>5. CASE hits = {}
  <2> DEFINE c == IF r.count < max THEN r.count + 1 ELSE max
             h == (r.head + 1) % max
  <2>1. b = [slot |-> [r.slot EXCEPT ![r.head] = e], head |-> h, count |-> c]
    BY <1>5 DEF RingWrite
  <2>2. \A t \in 0 .. r.count - 1 : r.slot[t].id # e.id \/ e.id \in Doubtful
    <3> SUFFICES ASSUME NEW t \in 0 .. r.count - 1, r.slot[t].id = id PROVE FALSE
      OBVIOUS
    <3>1. PICK i \in 0 .. r.count - 1 : at(i) = t
      BY <1>0, Places
    <3>2. i + 1 \in 1 .. r.count /\ (i + 1) - 1 = i
      BY <1>0
    <3>3. i + 1 \in hits
      BY <3>1, <3>2 DEF find_in, RingSeq
    <3> QED BY <3>3, <1>5
  <2>3. c \in r.count .. max /\ r.head \in 0 .. c - 1
    BY <1>0
  <2>4. h \in 0 .. max - 1
    BY <1>0
  <2>5. c < max => h = c
    <3> SUFFICES ASSUME c < max PROVE h = c
      OBVIOUS
    <3>1. c = r.count + 1 /\ r.head = r.count /\ c \in 0 .. max - 1
      BY <1>0
    <3> HIDE DEF c
    <3>2. h = c % max
      BY <3>1
    <3> HIDE DEF h
    <3> QED BY <3>1, <3>2, ModIs
  <2>6. \A t \in 0 .. c - 1 : t # r.head => t \in 0 .. r.count - 1
    BY <1>0
  <2> HIDE DEF b, c, h
  <2>7. RingOK(b, max) /\ e \in InRing(b) /\ InRing(b) \subseteq InRing(r) \cup {e}
    BY <1>0, <1>3, <2>1, <2>2, <2>3, <2>4, <2>5, <2>6
  <2> QED BY <2>7 DEF b
<1> QED BY <1>4, <1>5

\* An empty ring is sound.
LEMMA RingEmpty ==
  ASSUME NEW max \in Nat \ {0}
  PROVE  RingOK(EmptyRing(max), max) /\ InRing(EmptyRing(max)) = {}
<1> DEFINE r == EmptyRing(max)
<1>1. r = [slot |-> [i \in 0 .. max - 1 |-> << >>], head |-> 0, count |-> 0]
  BY DEF EmptyRing
<1>2. 0 \in 0 .. max - 1 /\ 0 \in 0 .. max /\ 0 .. 0 - 1 = {}
  OBVIOUS
<1>3. [i \in 0 .. max - 1 |-> << >>] \in [0 .. max - 1 -> Entry \cup {<< >>}]
  OBVIOUS
<1>4. r.head = 0 /\ r.count = 0
  BY <1>1
<1>5. r \in Ring(max)
  BY <1>1, <1>2, <1>3 DEF Ring
<1> HIDE DEF r
<1>6. RingOK(r, max) /\ InRing(r) = {}
  BY <1>2, <1>4, <1>5 DEF RingOK, InRing
<1> QED BY <1>6 DEF r

-----------------------------------------------------------------------------
(* The store.                                                              *)

TableOK(buf, max, f) ==
    /\ buf \in Seq(Entry) /\ Len(buf) <= max /\ OnceIn(buf)
    /\ \A x \in Ents(buf) : x.id.pfx = f

Stores == [pub : Seq(Entry), mon : Seq(Entry), own : Seq(Entry),
           tmp : Ring(ENTITY_TMP_MAX), pool : Ring(ENTITY_POOL_MAX)]

Sound(st) ==
    /\ st \in Stores
    /\ TableOK(st.pub, ENTITY_PUB_MAX, "pub")
    /\ TableOK(st.mon, ENTITY_MON_MAX, "mon")
    /\ TableOK(st.own, ENTITY_OWN_MAX, "own")
    /\ RingOK(st.tmp, ENTITY_TMP_MAX) /\ \A x \in InRing(st.tmp) : x.id.pfx = "tmp"
    /\ RingOK(st.pool, ENTITY_POOL_MAX)
    /\ \A x \in InRing(st.pool) : x.id.pfx \notin {"pub", "mon", "own", "tmp"}

Held(st) == Ents(st.pub) \cup Ents(st.mon) \cup Ents(st.own) \cup InRing(st.tmp) \cup InRing(st.pool)

\* The sizes of the buffers and the times to live are numbers.
LEMMA Limits ==
  /\ ENTITY_PUB_MAX \in Nat \ {0} /\ ENTITY_MON_MAX \in Nat \ {0} /\ ENTITY_OWN_MAX \in Nat \ {0}
  /\ ENTITY_TMP_MAX \in Nat \ {0} /\ ENTITY_POOL_MAX \in Nat \ {0} /\ NATIVE_MAX \in Nat \ {0}
  /\ SEC_WRAP \in Nat \ {0} /\ OWN_TTL_S \in Nat /\ PUB_TTL_S \in Nat
BY StoreAssumption

\* A store is its five buffers.
LEMMA StoreIs ==
  ASSUME NEW st \in Stores
  PROVE  st = [pub |-> st.pub, mon |-> st.mon, own |-> st.own, tmp |-> st.tmp, pool |-> st.pool]
BY DEF Stores

\* The search walks over every entry that is held, and over each once.
LEMMA SearchedIs ==
  ASSUME NEW st, Sound(st)
  PROVE  /\ Searched(st) \in Seq(Entry) /\ Ents(Searched(st)) = Held(st)
         /\ OnceBut(Doubtful, Searched(st))
<1> DEFINE tmp == RingSeq(st.tmp, ENTITY_TMP_MAX)
           pool == RingSeq(st.pool, ENTITY_POOL_MAX)
           a == st.pub \o st.mon
           b == a \o st.own
           c == b \o tmp
           d == c \o pool
<1>1. /\ st.pub \in Seq(Entry) /\ OnceBut(Doubtful, st.pub) /\ (\A x \in Ents(st.pub) : x.id.pfx = "pub")
      /\ st.mon \in Seq(Entry) /\ OnceBut(Doubtful, st.mon) /\ (\A x \in Ents(st.mon) : x.id.pfx = "mon")
      /\ st.own \in Seq(Entry) /\ OnceBut(Doubtful, st.own) /\ (\A x \in Ents(st.own) : x.id.pfx = "own")
  BY DEF Sound, TableOK, OnceIn, OnceBut
<1>2. tmp \in Seq(Entry) /\ Ents(tmp) = InRing(st.tmp) /\ OnceBut(Doubtful, tmp)
  BY Limits, RingSeqIs DEF Sound
<1>3. pool \in Seq(Entry) /\ Ents(pool) = InRing(st.pool) /\ OnceBut(Doubtful, pool)
  BY Limits, RingSeqIs DEF Sound
<1>4. /\ \A x \in Ents(tmp) : x.id.pfx = "tmp"
      /\ \A x \in Ents(pool) : x.id.pfx \notin {"pub", "mon", "own", "tmp"}
  BY <1>2, <1>3 DEF Sound
<1>5. Searched(st) = d
  BY DEF Searched
<1> HIDE DEF tmp, pool
<1>6. a \in Seq(Entry) /\ Ents(a) = Ents(st.pub) \cup Ents(st.mon) /\ OnceBut(Doubtful, a)
  <2>1. \A x \in Ents(st.pub), y \in Ents(st.mon) : x.id # y.id
    BY <1>1
  <2> QED BY <1>1, <2>1, Joined
<1> HIDE DEF a
<1>7. b \in Seq(Entry) /\ Ents(b) = Ents(a) \cup Ents(st.own) /\ OnceBut(Doubtful, b)
  <2>1. \A x \in Ents(a), y \in Ents(st.own) : x.id # y.id
    BY <1>1, <1>6
  <2> QED BY <1>1, <1>6, <2>1, Joined
<1> HIDE DEF b
<1>8. c \in Seq(Entry) /\ Ents(c) = Ents(b) \cup Ents(tmp) /\ OnceBut(Doubtful, c)
  <2>1. \A x \in Ents(b), y \in Ents(tmp) : x.id # y.id
    BY <1>1, <1>4, <1>6, <1>7
  <2> QED BY <1>2, <1>7, <2>1, Joined
<1> HIDE DEF c
<1>9. d \in Seq(Entry) /\ Ents(d) = Ents(c) \cup Ents(pool) /\ OnceBut(Doubtful, d)
  <2>1. \A x \in Ents(c), y \in Ents(pool) : x.id # y.id
    BY <1>1, <1>4, <1>6, <1>7, <1>8
  <2> QED BY <1>3, <1>8, <2>1, Joined
<1> HIDE DEF d
<1> QED BY <1>2, <1>3, <1>5, <1>6, <1>7, <1>8, <1>9 DEF Held

\* No two entries of a store have the same id, but a doubtful one.
LEMMA HeldOnce ==
  ASSUME NEW st, Sound(st), NEW x \in Held(st), NEW y \in Held(st), x.id = y.id,
         x.id \notin Doubtful
  PROVE  x = y
BY SearchedIs, OneOf

\* An entry under pub is in the pub table.
LEMMA HeldIs ==
  ASSUME NEW st, Sound(st), NEW x \in Held(st)
  PROVE  /\ x \in Entry
         /\ x.id.pfx = "pub" => x \in Ents(st.pub)
<1>1. x \in Entry
  BY SearchedIs, Members
<1>2. x.id.pfx = "pub" => x \in Ents(st.pub)
  BY DEF Held, Sound, TableOK
<1> QED BY <1>1, <1>2

\* The ids of a store are those of its entries.
LEMMA IdsHeld ==
  ASSUME NEW st, Sound(st)
  PROVE  IdsIn(st) = {x.id : x \in Held(st)}
<1>1. Ents(Searched(st)) = Held(st)
  BY SearchedIs
<1> QED BY <1>1 DEF IdsIn, Ents

\* What find_entry finds of an entity that is stored.
LEMMA FindIs ==
  ASSUME NEW st, Sound(st), NEW i \in DOMAIN Searched(st), Searched(st)[i].id \notin Doubtful
  PROVE  find_entry(st, Searched(st)[i].id) = {Searched(st)[i]}
<1> DEFINE s == Searched(st)
<1>1. s \in Seq(Entry) /\ OnceBut(Doubtful, s)
  BY SearchedIs
<1>2. i \in Nat
  <2>1. Len(s) \in Nat /\ DOMAIN s = 1 .. Len(s)
    BY <1>1, Members
  <2> HIDE DEF s
  <2> QED BY <2>1 DEF s
<1> HIDE DEF s
<1>3. find_in(s, s[i].id) = {i}
  BY <1>1 DEF find_in, OnceBut, s
<1>4. First({i}) = i
  BY <1>2, FirstIs
<1>5. FirstOf(s, s[i].id) = {s[i]}
  BY <1>3, <1>4 DEF FirstOf
<1> QED BY <1>5 DEF find_entry, s

\* What entity_get walks over.
LEMMA GetIs ==
  ASSUME NEW st, Sound(st)
  PROVE  /\ entity_get(st) \in Seq(Entry)
         /\ Ents(entity_get(st)) = Ents(st.pub) \cup Ents(st.own) \cup InRing(st.pool)
<1> DEFINE pool == RingSeq(st.pool, ENTITY_POOL_MAX)
           a == st.pub \o st.own
<1>1. st.pub \in Seq(Entry) /\ st.own \in Seq(Entry)
  BY DEF Sound, TableOK
<1>2. pool \in Seq(Entry) /\ Ents(pool) = InRing(st.pool)
  BY Limits, RingSeqIs DEF Sound
<1> HIDE DEF pool
<1>3. a \in Seq(Entry) /\ Ents(a) = Ents(st.pub) \cup Ents(st.own)
  BY <1>1, Joined
<1> HIDE DEF a
<1>4. a \o pool \in Seq(Entry) /\ Ents(a \o pool) = Ents(a) \cup Ents(pool)
  BY <1>2, <1>3, Joined
<1>5. entity_get(st) = a \o pool
  BY DEF entity_get, a, pool
<1> QED BY <1>2, <1>3, <1>4, <1>5

\* The store after power-on.
LEMMA EmptyStore ==
  Sound(entity_store_init) /\ Held(entity_store_init) = {}
<1> DEFINE st == entity_store_init
<1>1. st = [pub |-> << >>, mon |-> << >>, own |-> << >>,
            tmp |-> EmptyRing(ENTITY_TMP_MAX), pool |-> EmptyRing(ENTITY_POOL_MAX)]
  BY DEF entity_store_init
<1>2. << >> \in Seq(Entry) /\ Len(<< >>) = 0 /\ OnceIn(<< >>) /\ Ents(<< >>) = {}
  <2>1. DOMAIN << >> = {}
    OBVIOUS
  <2> QED BY <2>1, EmptySeq DEF OnceIn, Ents
<1>3. /\ RingOK(EmptyRing(ENTITY_TMP_MAX), ENTITY_TMP_MAX) /\ InRing(EmptyRing(ENTITY_TMP_MAX)) = {}
      /\ RingOK(EmptyRing(ENTITY_POOL_MAX), ENTITY_POOL_MAX) /\ InRing(EmptyRing(ENTITY_POOL_MAX)) = {}
  BY Limits, RingEmpty
<1>4. EmptyRing(ENTITY_TMP_MAX) \in Ring(ENTITY_TMP_MAX) /\ EmptyRing(ENTITY_POOL_MAX) \in Ring(ENTITY_POOL_MAX)
  BY <1>3 DEF RingOK
<1>5. st \in Stores
  BY <1>1, <1>2, <1>4 DEF Stores
<1>6. /\ st.pub = << >> /\ st.mon = << >> /\ st.own = << >>
      /\ st.tmp = EmptyRing(ENTITY_TMP_MAX) /\ st.pool = EmptyRing(ENTITY_POOL_MAX)
  BY <1>1
<1> HIDE DEF st
<1>7. /\ TableOK(st.pub, ENTITY_PUB_MAX, "pub") /\ TableOK(st.mon, ENTITY_MON_MAX, "mon")
      /\ TableOK(st.own, ENTITY_OWN_MAX, "own")
  <2>1. 0 <= ENTITY_PUB_MAX /\ 0 <= ENTITY_MON_MAX /\ 0 <= ENTITY_OWN_MAX
    BY Limits
  <2> QED BY <1>2, <1>6, <2>1 DEF TableOK
<1>8. Sound(st) /\ Held(st) = {}
  BY <1>2, <1>3, <1>5, <1>6, <1>7 DEF Sound, Held
<1> QED BY <1>8 DEF st

\* tmp is cleared.
LEMMA ClearIs ==
  ASSUME NEW st, Sound(st)
  PROVE  LET b == entity_tmp_clear(st) IN
         /\ Sound(b) /\ Held(b) \subseteq Held(st)
         /\ b.pub = st.pub /\ b.mon = st.mon /\ b.own = st.own
<1> DEFINE b == entity_tmp_clear(st)
<1>1. st \in Stores
  BY DEF Sound
<1>2. b = [pub |-> st.pub, mon |-> st.mon, own |-> st.own,
           tmp |-> EmptyRing(ENTITY_TMP_MAX), pool |-> st.pool]
  <2>1. b = [st EXCEPT !.tmp = EmptyRing(ENTITY_TMP_MAX)]
    BY DEF entity_tmp_clear
  <2> HIDE DEF b
  <2> QED BY <2>1, <1>1, StoreIs
<1>3. RingOK(EmptyRing(ENTITY_TMP_MAX), ENTITY_TMP_MAX) /\ InRing(EmptyRing(ENTITY_TMP_MAX)) = {}
  BY Limits, RingEmpty
<1> HIDE DEF b
<1>4. b \in Stores
  <2>1. EmptyRing(ENTITY_TMP_MAX) \in Ring(ENTITY_TMP_MAX)
    BY <1>3 DEF RingOK
  <2> QED BY <2>1, <1>1, <1>2 DEF Stores
<1>5. /\ b.pub = st.pub /\ b.mon = st.mon /\ b.own = st.own /\ b.pool = st.pool
      /\ b.tmp = EmptyRing(ENTITY_TMP_MAX)
  BY <1>2
<1>6. Sound(b)
  BY <1>3, <1>4, <1>5 DEF Sound
<1>7. Held(b) \subseteq Held(st)
  BY <1>3, <1>5 DEF Held
<1> QED BY <1>5, <1>6, <1>7 DEF b

\* One buffer of a sound store replaced by another of its kind.
Replaced(b, st) ==
    /\ b \in Stores
    /\ \/ /\ TableOK(b.pub, ENTITY_PUB_MAX, "pub")
          /\ b.mon = st.mon /\ b.own = st.own /\ b.tmp = st.tmp /\ b.pool = st.pool
       \/ /\ TableOK(b.mon, ENTITY_MON_MAX, "mon")
          /\ b.pub = st.pub /\ b.own = st.own /\ b.tmp = st.tmp /\ b.pool = st.pool
       \/ /\ TableOK(b.own, ENTITY_OWN_MAX, "own")
          /\ b.pub = st.pub /\ b.mon = st.mon /\ b.tmp = st.tmp /\ b.pool = st.pool
       \/ /\ RingOK(b.tmp, ENTITY_TMP_MAX) /\ \A x \in InRing(b.tmp) : x.id.pfx = "tmp"
          /\ b.pub = st.pub /\ b.mon = st.mon /\ b.own = st.own /\ b.pool = st.pool
       \/ /\ RingOK(b.pool, ENTITY_POOL_MAX)
          /\ \A x \in InRing(b.pool) : x.id.pfx \notin {"pub", "mon", "own", "tmp"}
          /\ b.pub = st.pub /\ b.mon = st.mon /\ b.own = st.own /\ b.tmp = st.tmp

\* Replacing one buffer by a sound one keeps the store sound.
LEMMA StillSound ==
  ASSUME NEW st, Sound(st), NEW b, Replaced(b, st)
  PROVE  Sound(b)
BY DEF Sound, Replaced

\* A write keeps a table sound and puts the entry in.
LEMMA WriteTable ==
  ASSUME NEW max \in Nat \ {0}, NEW buf, NEW e \in Entry, TableOK(buf, max, e.id.pfx)
  PROVE  LET b == TableWrite(buf, max, e.id, e) IN
         TableOK(b, max, e.id.pfx) /\ e \in Ents(b) /\ Ents(b) \subseteq Ents(buf) \cup {e}
<1> DEFINE b == TableWrite(buf, max, e.id, e)
<1>1. buf \in Seq(Entry) /\ Len(buf) <= max /\ OnceIn(buf) /\ \A x \in Ents(buf) : x.id.pfx = e.id.pfx
  BY DEF TableOK
<1>2. /\ b \in Seq(Entry) /\ Len(b) <= max /\ OnceIn(b)
      /\ \E D \in SUBSET Ents(buf) : Ents(b) = (Ents(buf) \ D) \cup {e}
  BY <1>1, TableWriteIs
<1> HIDE DEF b
<1>3. e \in Ents(b) /\ Ents(b) \subseteq Ents(buf) \cup {e}
  BY <1>2
<1>4. TableOK(b, max, e.id.pfx)
  BY <1>1, <1>2, <1>3 DEF TableOK
<1> QED BY <1>3, <1>4 DEF b

\* What fill_entry makes: under the id as far as it fits.
LEMMA FillIs ==
  ASSUME NEW id \in Ids, NEW val \in Values, NEW sec \in 0 .. SEC_WRAP - 1
  PROVE  LET e == fill_entry(id, val, sec) IN
         /\ e \in Entry /\ e.id = IdCut[id] /\ e.value = ValueCut[val] /\ e.last_updated = sec
         /\ e.id.pfx = id.pfx /\ IdCut[e.id] = e.id
<1>1. IdCut[id] \in Ids /\ ValueCut[val] \in Values
  BY CutAssumption
<1>2. IdCut[id].pfx = id.pfx /\ IdCut[IdCut[id]] = IdCut[id]
  BY CutAssumption
<1> QED BY <1>1, <1>2 DEF fill_entry, Entry

\* What handlers store fits, or goes to the pool.
Storable(id) == IdCut[id] = id \/ id.pfx \notin Reserved

\* What is stored under a cut-down id is doubtful.
LEMMA CutDown ==
  ASSUME NEW id \in Ids, Storable(id)
  PROVE  IdCut[id] = id \/ IdCut[id] \in Doubtful
BY CutAssumption DEF Storable, Doubtful

\* A table or ring takes the entry, the rest of the store stays.
LEMMA PushIs ==
  ASSUME NEW st, Sound(st), NEW nat, NEW id \in Ids, Storable(id), NEW val \in Values,
         NEW sec \in 0 .. SEC_WRAP - 1
  PROVE  LET b == entity_push(st, nat, id, val, sec)
             e == fill_entry(id, val, sec)
         IN /\ Sound(b)
            /\ Blocked(nat, id) => b = st
            /\ ~Blocked(nat, id) => e \in Held(b) /\ Held(b) \subseteq Held(st) \cup {e}
            /\ b.pub = st.pub \/ (id.pfx = "pub" /\ b.pub = TableWrite(st.pub, ENTITY_PUB_MAX, e.id, e))
            /\ b.mon = st.mon \/ (id.pfx = "mon" /\ b.mon = TableWrite(st.mon, ENTITY_MON_MAX, e.id, e))
            /\ b.own = st.own \/ (id.pfx = "own" /\ b.own = TableWrite(st.own, ENTITY_OWN_MAX, e.id, e))
<1> DEFINE b == entity_push(st, nat, id, val, sec)
           e == fill_entry(id, val, sec)
           Goal == /\ Sound(b)
                   /\ Blocked(nat, id) => b = st
                   /\ ~Blocked(nat, id) => e \in Held(b) /\ Held(b) \subseteq Held(st) \cup {e}
                   /\ b.pub = st.pub \/ (id.pfx = "pub" /\ b.pub = TableWrite(st.pub, ENTITY_PUB_MAX, e.id, e))
                   /\ b.mon = st.mon \/ (id.pfx = "mon" /\ b.mon = TableWrite(st.mon, ENTITY_MON_MAX, e.id, e))
                   /\ b.own = st.own \/ (id.pfx = "own" /\ b.own = TableWrite(st.own, ENTITY_OWN_MAX, e.id, e))
<1>1. /\ e \in Entry /\ e.id.pfx = id.pfx /\ (e.id = id \/ e.id \in Doubtful)
      /\ id.pfx \in Reserved => e.id = id
  BY FillIs, CutDown DEF Storable
<1>2. /\ st \in Stores /\ TableOK(st.pub, ENTITY_PUB_MAX, "pub") /\ TableOK(st.mon, ENTITY_MON_MAX, "mon")
      /\ TableOK(st.own, ENTITY_OWN_MAX, "own")
      /\ RingOK(st.tmp, ENTITY_TMP_MAX) /\ (\A x \in InRing(st.tmp) : x.id.pfx = "tmp")
      /\ RingOK(st.pool, ENTITY_POOL_MAX)
      /\ \A x \in InRing(st.pool) : x.id.pfx \notin {"pub", "mon", "own", "tmp"}
  BY DEF Sound
<1>3. st = [pub |-> st.pub, mon |-> st.mon, own |-> st.own, tmp |-> st.tmp, pool |-> st.pool]
  BY <1>2, StoreIs
<1>4. /\ st.pub \in Seq(Entry) /\ st.mon \in Seq(Entry) /\ st.own \in Seq(Entry)
      /\ st.tmp \in Ring(ENTITY_TMP_MAX) /\ st.pool \in Ring(ENTITY_POOL_MAX)
  BY <1>2 DEF Stores
<1> HIDE DEF e
<1>5. CASE Blocked(nat, id)
  <2>0. id.pfx = "pub"
    BY <1>5 DEF Blocked
  <2>1. b = st
    BY <2>0, <1>5 DEF entity_push
  <2> HIDE DEF b
  <2>2. Goal
    BY <1>5, <2>1
  <2> QED BY <2>2 DEF b, e
<1>6. CASE id.pfx = "pub" /\ ~Blocked(nat, id)
  <2> DEFINE w == TableWrite(st.pub, ENTITY_PUB_MAX, e.id, e)
  <2>1. TableOK(w, ENTITY_PUB_MAX, "pub") /\ e \in Ents(w) /\ Ents(w) \subseteq Ents(st.pub) \cup {e}
    <3> DEFINE v(buf) == TableWrite(buf, ENTITY_PUB_MAX, e.id, e)
    <3>1. e.id.pfx = "pub" /\ TableOK(st.pub, ENTITY_PUB_MAX, "pub") /\ ENTITY_PUB_MAX \in Nat \ {0}
      BY <1>1, <1>2, <1>6, Limits
    <3>2. \A buf : TableOK(buf, ENTITY_PUB_MAX, e.id.pfx) =>
             TableOK(v(buf), ENTITY_PUB_MAX, e.id.pfx) /\ e \in Ents(v(buf)) /\ Ents(v(buf)) \subseteq Ents(buf) \cup {e}
      BY <3>1, <1>1, WriteTable
    <3> HIDE DEF v
    <3>3. TableOK(v(st.pub), ENTITY_PUB_MAX, "pub") /\ e \in Ents(v(st.pub)) /\ Ents(v(st.pub)) \subseteq Ents(st.pub) \cup {e}
      BY <3>1, <3>2
    <3> QED BY <3>3 DEF v
  <2>2. b = [st EXCEPT !.pub = w]
    <3>1. e.id = id
      BY <1>1, <1>6 DEF Reserved
    <3>2. b = [st EXCEPT !.pub = TableWrite(st.pub, ENTITY_PUB_MAX, id, e)]
      BY <1>6 DEF entity_push, e
    <3> QED BY <3>1, <3>2
  <2> HIDE DEF b, w
  <2>3. b = [pub |-> w, mon |-> st.mon, own |-> st.own, tmp |-> st.tmp, pool |-> st.pool]
    BY <2>2, <1>3
  <2>4. b.pub = w /\ b.mon = st.mon /\ b.own = st.own /\ b.tmp = st.tmp /\ b.pool = st.pool
    BY <2>3
  <2>5. b \in Stores
    BY <2>1, <2>3, <1>4 DEF Stores, TableOK
  <2>6. Sound(b)
    BY <2>1, <2>4, <2>5, StillSound DEF Replaced
  <2>7. e \in Held(b) /\ Held(b) \subseteq Held(st) \cup {e}
    BY <2>1, <2>4 DEF Held
  <2>8. Goal
    BY <2>4, <2>6, <2>7, <1>6 DEF w
  <2> QED BY <2>8 DEF b, e
<1>7. CASE id.pfx = "mon"
  <2> DEFINE w == TableWrite(st.mon, ENTITY_MON_MAX, e.id, e)
  <2>0. ~Blocked(nat, id)
    BY <1>7 DEF Blocked
  <2>1. TableOK(w, ENTITY_MON_MAX, "mon") /\ e \in Ents(w) /\ Ents(w) \subseteq Ents(st.mon) \cup {e}
    <3> DEFINE v(buf) == TableWrite(buf, ENTITY_MON_MAX, e.id, e)
    <3>1. e.id.pfx = "mon" /\ TableOK(st.mon, ENTITY_MON_MAX, "mon") /\ ENTITY_MON_MAX \in Nat \ {0}
      BY <1>1, <1>2, <1>7, Limits
    <3>2. \A buf : TableOK(buf, ENTITY_MON_MAX, e.id.pfx) =>
             TableOK(v(buf), ENTITY_MON_MAX, e.id.pfx) /\ e \in Ents(v(buf)) /\ Ents(v(buf)) \subseteq Ents(buf) \cup {e}
      BY <3>1, <1>1, WriteTable
    <3> HIDE DEF v
    <3>3. TableOK(v(st.mon), ENTITY_MON_MAX, "mon") /\ e \in Ents(v(st.mon)) /\ Ents(v(st.mon)) \subseteq Ents(st.mon) \cup {e}
      BY <3>1, <3>2
    <3> QED BY <3>3 DEF v
  <2>2. b = [st EXCEPT !.mon = w]
    <3>1. e.id = id
      BY <1>1, <1>7 DEF Reserved
    <3>2. b = [st EXCEPT !.mon = TableWrite(st.mon, ENTITY_MON_MAX, id, e)]
      BY <1>7, <2>0 DEF entity_push, e
    <3> QED BY <3>1, <3>2
  <2> HIDE DEF b, w
  <2>3. b = [pub |-> st.pub, mon |-> w, own |-> st.own, tmp |-> st.tmp, pool |-> st.pool]
    BY <2>2, <1>3
  <2>4. b.mon = w /\ b.pub = st.pub /\ b.own = st.own /\ b.tmp = st.tmp /\ b.pool = st.pool
    BY <2>3
  <2>5. b \in Stores
    BY <2>1, <2>3, <1>4 DEF Stores, TableOK
  <2>6. Sound(b)
    BY <2>1, <2>4, <2>5, StillSound DEF Replaced
  <2>7. e \in Held(b) /\ Held(b) \subseteq Held(st) \cup {e}
    BY <2>1, <2>4 DEF Held
  <2>8. Goal
    BY <2>0, <2>4, <2>6, <2>7, <1>7 DEF w
  <2> QED BY <2>8 DEF b, e
<1>8. CASE id.pfx = "own"
  <2> DEFINE w == TableWrite(st.own, ENTITY_OWN_MAX, e.id, e)
  <2>0. ~Blocked(nat, id)
    BY <1>8 DEF Blocked
  <2>1. TableOK(w, ENTITY_OWN_MAX, "own") /\ e \in Ents(w) /\ Ents(w) \subseteq Ents(st.own) \cup {e}
    <3> DEFINE v(buf) == TableWrite(buf, ENTITY_OWN_MAX, e.id, e)
    <3>1. e.id.pfx = "own" /\ TableOK(st.own, ENTITY_OWN_MAX, "own") /\ ENTITY_OWN_MAX \in Nat \ {0}
      BY <1>1, <1>2, <1>8, Limits
    <3>2. \A buf : TableOK(buf, ENTITY_OWN_MAX, e.id.pfx) =>
             TableOK(v(buf), ENTITY_OWN_MAX, e.id.pfx) /\ e \in Ents(v(buf)) /\ Ents(v(buf)) \subseteq Ents(buf) \cup {e}
      BY <3>1, <1>1, WriteTable
    <3> HIDE DEF v
    <3>3. TableOK(v(st.own), ENTITY_OWN_MAX, "own") /\ e \in Ents(v(st.own)) /\ Ents(v(st.own)) \subseteq Ents(st.own) \cup {e}
      BY <3>1, <3>2
    <3> QED BY <3>3 DEF v
  <2>2. b = [st EXCEPT !.own = w]
    <3>1. e.id = id
      BY <1>1, <1>8 DEF Reserved
    <3>2. b = [st EXCEPT !.own = TableWrite(st.own, ENTITY_OWN_MAX, id, e)]
      BY <1>8, <2>0 DEF entity_push, e
    <3> QED BY <3>1, <3>2
  <2> HIDE DEF b, w
  <2>3. b = [pub |-> st.pub, mon |-> st.mon, own |-> w, tmp |-> st.tmp, pool |-> st.pool]
    BY <2>2, <1>3
  <2>4. b.own = w /\ b.pub = st.pub /\ b.mon = st.mon /\ b.tmp = st.tmp /\ b.pool = st.pool
    BY <2>3
  <2>5. b \in Stores
    BY <2>1, <2>3, <1>4 DEF Stores, TableOK
  <2>6. Sound(b)
    BY <2>1, <2>4, <2>5, StillSound DEF Replaced
  <2>7. e \in Held(b) /\ Held(b) \subseteq Held(st) \cup {e}
    BY <2>1, <2>4 DEF Held
  <2>8. Goal
    BY <2>0, <2>4, <2>6, <2>7, <1>8 DEF w
  <2> QED BY <2>8 DEF b, e
<1>9. CASE id.pfx = "tmp"
  <2> DEFINE w == RingWrite(st.tmp, ENTITY_TMP_MAX, id, e)
  <2>0. ~Blocked(nat, id)
    BY <1>9 DEF Blocked
  <2>1. RingOK(w, ENTITY_TMP_MAX) /\ e \in InRing(w) /\ InRing(w) \subseteq InRing(st.tmp) \cup {e}
    BY <1>1, <1>2, RingWriteIs, Limits
  <2>2. b = [st EXCEPT !.tmp = w]
    BY <1>9, <2>0 DEF entity_push, e
  <2> HIDE DEF b, w
  <2>3. b = [pub |-> st.pub, mon |-> st.mon, own |-> st.own, tmp |-> w, pool |-> st.pool]
    BY <2>2, <1>3
  <2>4. b.tmp = w /\ b.pub = st.pub /\ b.mon = st.mon /\ b.own = st.own /\ b.pool = st.pool
    BY <2>3
  <2>5. b \in Stores
    BY <2>1, <2>3, <1>4 DEF Stores, RingOK
  <2>6. \A x \in InRing(w) : x.id.pfx = "tmp"
    BY <2>1, <1>1, <1>2, <1>9
  <2>7. Sound(b)
    BY <2>1, <2>4, <2>5, <2>6, StillSound DEF Replaced
  <2>8. e \in Held(b) /\ Held(b) \subseteq Held(st) \cup {e}
    BY <2>1, <2>4 DEF Held
  <2>9. Goal
    BY <2>0, <2>4, <2>7, <2>8
  <2> QED BY <2>9 DEF b, e
<1>10. CASE id.pfx \notin {"pub", "mon", "own", "tmp"}
  <2> DEFINE w == RingWrite(st.pool, ENTITY_POOL_MAX, id, e)
  <2>0. ~Blocked(nat, id)
    BY <1>10 DEF Blocked
  <2>1. RingOK(w, ENTITY_POOL_MAX) /\ e \in InRing(w) /\ InRing(w) \subseteq InRing(st.pool) \cup {e}
    BY <1>1, <1>2, RingWriteIs, Limits
  <2>2. b = [st EXCEPT !.pool = w]
    BY <1>10, <2>0 DEF entity_push, e
  <2> HIDE DEF b, w
  <2>3. b = [pub |-> st.pub, mon |-> st.mon, own |-> st.own, tmp |-> st.tmp, pool |-> w]
    BY <2>2, <1>3
  <2>4. b.pool = w /\ b.pub = st.pub /\ b.mon = st.mon /\ b.own = st.own /\ b.tmp = st.tmp
    BY <2>3
  <2>5. b \in Stores
    BY <2>1, <2>3, <1>4 DEF Stores, RingOK
  <2>6. \A x \in InRing(w) : x.id.pfx \notin {"pub", "mon", "own", "tmp"}
    BY <2>1, <1>1, <1>2, <1>10
  <2>7. Sound(b)
    BY <2>1, <2>4, <2>5, <2>6, StillSound DEF Replaced
  <2>8. e \in Held(b) /\ Held(b) \subseteq Held(st) \cup {e}
    BY <2>1, <2>4 DEF Held
  <2>9. Goal
    BY <2>0, <2>4, <2>7, <2>8
  <2> QED BY <2>9 DEF b, e
<1> QED BY <1>5, <1>6, <1>7, <1>8, <1>9, <1>10

\* Expired entries go, nothing else does.
LEMMA PrunedIs ==
  ASSUME NEW st, Sound(st)
  PROVE  /\ Sound(Pruned(st)) /\ Held(Pruned(st)) \subseteq Held(st)
         /\ Pruned(st).mon = st.mon
         /\ \A x \in Ents(st.pub) : x \in Ents(Pruned(st).pub) \/ ~(Age(x, now) <= PUB_TTL_S)
         /\ \A x \in Ents(st.own) : x \in Ents(Pruned(st).own) \/ ~(Age(x, now) <= OWN_TTL_S)
         /\ Ents(Pruned(st).pub) \subseteq Ents(st.pub) /\ Ents(Pruned(st).own) \subseteq Ents(st.own)
<1> DEFINE p == Prune(st.pub, PUB_TTL_S, now)
           o == Prune(st.own, OWN_TTL_S, now)
           b == Pruned(st)
<1>1. /\ st \in Stores /\ TableOK(st.pub, ENTITY_PUB_MAX, "pub") /\ TableOK(st.own, ENTITY_OWN_MAX, "own")
      /\ TableOK(st.mon, ENTITY_MON_MAX, "mon")
  BY DEF Sound
<1>2. /\ p \in Seq(Entry) /\ Len(p) <= Len(st.pub) /\ OnceIn(p) /\ Ents(p) \subseteq Ents(st.pub)
      /\ \A x \in Ents(st.pub) : x \in Ents(p) \/ ~(Age(x, now) <= PUB_TTL_S)
  BY <1>1, PruneIs DEF TableOK
<1>3. /\ o \in Seq(Entry) /\ Len(o) <= Len(st.own) /\ OnceIn(o) /\ Ents(o) \subseteq Ents(st.own)
      /\ \A x \in Ents(st.own) : x \in Ents(o) \/ ~(Age(x, now) <= OWN_TTL_S)
  BY <1>1, PruneIs DEF TableOK
<1>4. b = [pub |-> p, mon |-> st.mon, own |-> o, tmp |-> st.tmp, pool |-> st.pool]
  <2> DEFINE c == entity_own_prune(st, now)
  <2>1. c = [st EXCEPT !.own = o]
    BY DEF entity_own_prune
  <2>2. b = [c EXCEPT !.pub = Prune(c.pub, PUB_TTL_S, now)]
    BY DEF Pruned, entity_pub_prune
  <2> HIDE DEF c, o, p, b
  <2>3. c = [pub |-> st.pub, mon |-> st.mon, own |-> o, tmp |-> st.tmp, pool |-> st.pool]
    BY <2>1, <1>1, StoreIs
  <2>4. c.pub = st.pub
    BY <2>3
  <2>5. b = [c EXCEPT !.pub = p]
    BY <2>2, <2>4 DEF p
  <2> QED BY <2>3, <2>5
<1> HIDE DEF b, o, p
<1>5. b.pub = p /\ b.mon = st.mon /\ b.own = o /\ b.tmp = st.tmp /\ b.pool = st.pool
  BY <1>4
<1>6. TableOK(p, ENTITY_PUB_MAX, "pub") /\ TableOK(o, ENTITY_OWN_MAX, "own")
  <2>1. Len(p) <= ENTITY_PUB_MAX /\ Len(o) <= ENTITY_OWN_MAX
    <3>1. /\ Len(p) \in Nat /\ Len(o) \in Nat /\ Len(st.pub) \in Nat /\ Len(st.own) \in Nat
          /\ Len(st.pub) <= ENTITY_PUB_MAX /\ Len(st.own) <= ENTITY_OWN_MAX
      BY <1>1, <1>2, <1>3, Members DEF TableOK
    <3>2. ENTITY_PUB_MAX \in Nat /\ ENTITY_OWN_MAX \in Nat /\ Len(p) <= Len(st.pub) /\ Len(o) <= Len(st.own)
      BY <1>2, <1>3, Limits
    <3> QED BY <3>1, <3>2
  <2> QED BY <2>1, <1>1, <1>2, <1>3 DEF TableOK
<1>7. b \in Stores
  BY <1>1, <1>2, <1>3, <1>4 DEF Stores
<1>8. Sound(b)
  BY <1>5, <1>6, <1>7 DEF Sound
<1>9. Held(b) \subseteq Held(st)
  BY <1>2, <1>3, <1>5 DEF Held
<1> QED BY <1>2, <1>3, <1>5, <1>8, <1>9 DEF b

-----------------------------------------------------------------------------
(* The writes of one handler.                                              *)

Writes == {w \in [id : Ids, value : Values] : Storable(w.id)}

\* What was given to some of the ids.
Givens == UNION {[D -> Values] : D \in SUBSET Ids}
Given(g, id, val) == [x \in DOMAIN g \cup {id} |-> IF x = id THEN val ELSE g[x]]
GivenBy(g, w) == IF Blocked(native, w.id) THEN g ELSE Given(g, w.id, w.value)
Left(g, st) == [id \in DOMAIN g \cap IdsIn(st) |-> g[id]]

IsHistory(G, items) ==
    G[0] = written /\ \A k \in 1 .. Len(items) : G[k] = GivenBy(G[k - 1], items[k])

Exact(st, g) ==
    \A x \in Held(st) :
        /\ IdCut[x.id] = x.id
        /\ x.id \notin Doubtful => x.id \in DOMAIN g /\ x.value = ValueCut[g[x.id]]

SoundStores == {st \in Stores : Sound(st)}

\* The parts of one of the writes.
LEMMA WriteAt ==
  ASSUME NEW items \in Seq(Writes), NEW k \in 1 .. Len(items)
  PROVE  items[k].id \in Ids /\ Storable(items[k].id) /\ items[k].value \in Values
<1>1. items[k] \in Writes
  BY ElementOfSeq
<1> QED BY <1>1 DEF Writes

\* The history after one value was given.
LEMMA GivenIs ==
  ASSUME NEW g \in Givens, NEW id \in Ids, NEW val \in Values
  PROVE  LET h == Given(g, id, val) IN
         h \in Givens /\ DOMAIN h = DOMAIN g \cup {id} /\ h[id] = val
         /\ \A x \in DOMAIN g : x # id => h[x] = g[x]
<1> DEFINE h == Given(g, id, val)
<1>1. PICK D \in SUBSET Ids : g \in [D -> Values]
  BY DEF Givens
<1>2. h \in [D \cup {id} -> Values]
  BY <1>1 DEF Given
<1>3. h \in Givens
  <2>1. D \cup {id} \in SUBSET Ids
    BY <1>1
  <2> HIDE DEF h
  <2> QED BY <2>1, <1>2 DEF Givens
<1> QED BY <1>3 DEF Given

\* PushAll runs through the writes one by one.
LEMMA PushAllSteps ==
  ASSUME NEW st, Sound(st), NEW items \in Seq(Writes), now \in 0 .. SEC_WRAP - 1
  PROVE  \E W : /\ W[0] = st
                /\ \A k \in 1 .. Len(items) :
                      W[k] = entity_push(W[k - 1], native, items[k].id, items[k].value, now)
                /\ PushAll(st, items) = W[Len(items)]
<1> DEFINE n == Len(items)
           push(s, k) == entity_push(s, native, items[k].id, items[k].value, now)
           Fix(w) == w = [k \in 0 .. n |-> IF k = 0 THEN st ELSE push(w[k - 1], k)]
           W == CHOOSE w : Fix(w)
           F == [k \in 1 .. n |-> [s \in SoundStores |-> push(s, k)]]
<1>0. n \in Nat
  BY LenProperties
<1>1. PushAll(st, items) = W[n]
  BY DEF PushAll
<1>2. ASSUME NEW k \in 1 .. n, NEW s \in SoundStores PROVE push(s, k) \in SoundStores
  <2>1. Sound(push(s, k))
    BY WriteAt, PushIs DEF SoundStores
  <2> HIDE DEF push
  <2> QED BY <2>1 DEF SoundStores, Sound
<1> HIDE DEF push, n
<1>3. Steps(n, SoundStores, F)
  BY <1>2 DEF Steps
<1>4. st \in SoundStores
  BY DEF SoundStores, Sound
<1>5. PICK f \in [0 .. n -> SoundStores] : f[0] = st /\ \A k \in 1 .. n : f[k] = F[k][f[k - 1]]
  <2> HIDE DEF F
  <2>1. Solves(n, SoundStores, st, F)
    BY <1>0, <1>3, <1>4, FoldExists
  <2> QED BY <2>1 DEF Solves
<1>6. Fix(f)
  <2>1. ASSUME NEW k \in 1 .. n PROVE f[k] = push(f[k - 1], k)
    <3>1. k - 1 \in 0 .. n
      BY <1>0
    <3>2. f[k - 1] \in SoundStores
      BY <3>1
    <3> QED BY <3>2, <1>5
  <2>2. f = [k \in 0 .. n |-> f[k]]
    OBVIOUS
  <2>3. \A k \in 0 .. n : k # 0 => k \in 1 .. n
    BY <1>0
  <2>4. ASSUME NEW k \in 0 .. n PROVE f[k] = IF k = 0 THEN st ELSE push(f[k - 1], k)
    BY <2>1, <2>3, <1>5
  <2> QED BY <2>2, <2>4
<1>7. Fix(W)
  <2> HIDE DEF Fix
  <2> QED BY <1>6
<1> HIDE DEF W
<1>8. W[0] = st /\ \A k \in 1 .. n : W[k] = push(W[k - 1], k)
  <2>1. 0 \in 0 .. n /\ \A k \in 1 .. n : k \in 0 .. n /\ k # 0
    BY <1>0
  <2>2. \A k \in 0 .. n : W[k] = IF k = 0 THEN st ELSE push(W[k - 1], k)
    BY <1>7
  <2> QED BY <2>1, <2>2
<1> QED BY <1>1, <1>8 DEF n, push

\* So does the history.
LEMMA WrittenSteps ==
  ASSUME NEW items \in Seq(Writes), written \in Givens
  PROVE  \E G : /\ IsHistory(G, items)
                /\ \A st : Written(st, items) = Left(G[Len(items)], st)
<1> DEFINE n == Len(items)
           Fix(w) == w = [k \in 0 .. n |->
                            IF k = 0 THEN written
                            ELSE IF Blocked(native, items[k].id) THEN w[k - 1]
                            ELSE [id \in DOMAIN w[k - 1] \cup {items[k].id} |->
                                    IF id = items[k].id THEN items[k].value ELSE w[k - 1][id]]]
           W == CHOOSE w : Fix(w)
           F == [k \in 1 .. n |-> [s \in Givens |-> GivenBy(s, items[k])]]
<1>0. n \in Nat
  BY LenProperties
<1>1. \A st : Written(st, items) = Left(W[n], st)
  BY DEF Written, Left
<1>2. ASSUME NEW k \in 1 .. n, NEW s \in Givens PROVE GivenBy(s, items[k]) \in Givens
  <2>1. items[k].id \in Ids /\ items[k].value \in Values
    BY WriteAt
  <2>2. Given(s, items[k].id, items[k].value) \in Givens
    BY <2>1, GivenIs
  <2> QED BY <2>2 DEF GivenBy
<1>a. \A w : Fix(w) <=> w = [k \in 0 .. n |-> IF k = 0 THEN written ELSE GivenBy(w[k - 1], items[k])]
  BY DEF GivenBy, Given
<1> HIDE DEF n, Fix
<1>3. Steps(n, Givens, F)
  BY <1>2 DEF Steps
<1>5. PICK f \in [0 .. n -> Givens] : f[0] = written /\ \A k \in 1 .. n : f[k] = F[k][f[k - 1]]
  <2> HIDE DEF F
  <2>1. Solves(n, Givens, written, F)
    BY <1>0, <1>3, FoldExists
  <2> QED BY <2>1 DEF Solves
<1>6. Fix(f)
  <2>1. ASSUME NEW k \in 1 .. n PROVE f[k] = GivenBy(f[k - 1], items[k])
    <3>1. k - 1 \in 0 .. n
      BY <1>0
    <3>2. f[k - 1] \in Givens
      BY <3>1
    <3> QED BY <3>2, <1>5
  <2>2. f = [k \in 0 .. n |-> f[k]]
    OBVIOUS
  <2>3. \A k \in 0 .. n : k # 0 => k \in 1 .. n
    BY <1>0
  <2>4. ASSUME NEW k \in 0 .. n PROVE f[k] = IF k = 0 THEN written ELSE GivenBy(f[k - 1], items[k])
    BY <2>1, <2>3, <1>5
  <2>5. f = [k \in 0 .. n |-> IF k = 0 THEN written ELSE GivenBy(f[k - 1], items[k])]
    BY <2>2, <2>4
  <2> QED BY <2>5, <1>a
<1>7. Fix(W)
  BY <1>6
<1> HIDE DEF W
<1>8. W[0] = written /\ \A k \in 1 .. n : W[k] = GivenBy(W[k - 1], items[k])
  <2>1. 0 \in 0 .. n /\ \A k \in 1 .. n : k \in 0 .. n /\ k # 0
    BY <1>0
  <2>2. W = [k \in 0 .. n |-> IF k = 0 THEN written ELSE GivenBy(W[k - 1], items[k])]
    BY <1>7, <1>a
  <2>3. \A k \in 0 .. n : W[k] = IF k = 0 THEN written ELSE GivenBy(W[k - 1], items[k])
    BY <2>2
  <2> QED BY <2>1, <2>3
<1>9. IsHistory(W, items)
  BY <1>8 DEF IsHistory, n
<1> QED BY <1>1, <1>9 DEF n

\* Through one write, what is stored stays what was given last.
LEMMA ExactStep ==
  ASSUME NEW st, Sound(st), NEW g \in Givens, Exact(st, g),
         NEW w, w.id \in Ids, Storable(w.id), w.value \in Values, now \in 0 .. SEC_WRAP - 1
  PROVE  LET b == entity_push(st, native, w.id, w.value, now)
         IN Sound(b) /\ GivenBy(g, w) \in Givens /\ Exact(b, GivenBy(g, w))
<1> DEFINE id == w.id
           val == w.value
           b == entity_push(st, native, id, val, now)
           e == fill_entry(id, val, now)
           h == Given(g, id, val)
<1>1. /\ Sound(b) /\ (Blocked(native, id) => b = st)
      /\ ~Blocked(native, id) => e \in Held(b) /\ Held(b) \subseteq Held(st) \cup {e}
  BY PushIs
<1>2. CASE Blocked(native, id)
  BY <1>1, <1>2 DEF GivenBy
<1>3. CASE ~Blocked(native, id)
  <2>1. h \in Givens /\ DOMAIN h = DOMAIN g \cup {id} /\ h[id] = val /\ \A x \in DOMAIN g : x # id => h[x] = g[x]
    BY GivenIs
  <2>2. /\ e.id = IdCut[id] /\ e.value = ValueCut[val] /\ IdCut[e.id] = e.id
        /\ e.id = id \/ e.id \in Doubtful
    BY FillIs, CutDown
  <2>0. GivenBy(g, w) = h
    BY <1>3 DEF GivenBy
  <2> HIDE DEF b, e, h
  <2>3. ASSUME NEW x \in Held(b)
        PROVE  /\ IdCut[x.id] = x.id
               /\ x.id \notin Doubtful => x.id \in DOMAIN h /\ x.value = ValueCut[h[x.id]]
    <3>1. CASE x = e
      BY <3>1, <2>1, <2>2
    <3>2. CASE x # e
      <4>0. x \in Held(st)
        BY <3>2, <1>1, <1>3
      <4>1. IdCut[x.id] = x.id
        BY <4>0 DEF Exact
      <4>2. ASSUME x.id \notin Doubtful
            PROVE  x.id \in DOMAIN h /\ x.value = ValueCut[h[x.id]]
        <5>1. x.id # e.id
          BY <3>2, <4>2, <1>1, <1>3, HeldOnce
        <5>2. x.id # id
          BY <5>1, <4>1, <2>2
        <5>3. x.id \in DOMAIN g /\ x.value = ValueCut[g[x.id]]
          BY <4>0, <4>2 DEF Exact
        <5> QED BY <5>2, <5>3, <2>1
      <4> QED BY <4>1, <4>2
    <3> QED BY <3>1, <3>2
  <2>4. Exact(b, h)
    BY <2>3 DEF Exact
  <2> QED BY <1>1, <1>3, <2>0, <2>1, <2>4 DEF b
<1> QED BY <1>2, <1>3

\* Store and history still agree after all the writes of a handler.
LEMMA WritesExact ==
  ASSUME Sound(store), written \in Givens, Exact(store, written),
         NEW items \in Seq(Writes), now \in 0 .. SEC_WRAP - 1
  PROVE  /\ Sound(PushAll(store, items))
         /\ \A st : Sound(st) /\ Held(st) \subseteq Held(PushAll(store, items)) =>
                Written(st, items) \in Givens /\ Exact(st, Written(st, items))
<1> DEFINE n == Len(items)
<1>0. n \in Nat
  BY LenProperties
<1>1. PICK W : /\ W[0] = store
               /\ \A k \in 1 .. n :
                      W[k] = entity_push(W[k - 1], native, items[k].id, items[k].value, now)
               /\ PushAll(store, items) = W[n]
  BY PushAllSteps
<1>2. PICK G : /\ IsHistory(G, items)
               /\ \A st : Written(st, items) = Left(G[n], st)
  BY WrittenSteps
<1>3. Sound(W[n]) /\ G[n] \in Givens /\ Exact(W[n], G[n])
  <2> DEFINE Good(k) == Sound(W[k]) /\ G[k] \in Givens /\ Exact(W[k], G[k])
             T == {k \in 0 .. n : Good(k)}
  <2>1. 0 \in T
    <3>1. 0 \in 0 .. n
      BY <1>0
    <3>2. Good(0)
      BY <1>1, <1>2 DEF IsHistory
    <3> HIDE DEF Good
    <3> QED BY <3>1, <3>2
  <2>2. ASSUME NEW k \in 1 .. n, k - 1 \in T PROVE k \in T
    <3>1. Good(k - 1)
      BY <2>2
    <3>2. items[k].id \in Ids /\ Storable(items[k].id) /\ items[k].value \in Values
      BY WriteAt
    <3>3. W[k] = entity_push(W[k - 1], native, items[k].id, items[k].value, now)
      BY <1>1
    <3>4. G[k] = GivenBy(G[k - 1], items[k])
      BY <1>2 DEF IsHistory
    <3>5. Good(k)
      BY <3>1, <3>2, <3>3, <3>4, ExactStep
    <3> HIDE DEF Good
    <3> QED BY <3>5
  <2>3. n \in T
    <3> HIDE DEF T, n
    <3>1. \A k \in 0 .. n : k \in T
      BY <1>0, <2>1, <2>2, UpTo
    <3> QED BY <3>1, <1>0
  <2> QED BY <2>3
<1>4. ASSUME NEW st, Sound(st), Held(st) \subseteq Held(W[n])
      PROVE  Written(st, items) \in Givens /\ Exact(st, Written(st, items))
  <2> DEFINE h == Written(st, items)
  <2>3. h = [id \in DOMAIN G[n] \cap IdsIn(st) |-> G[n][id]]
    BY <1>2 DEF Left
  <2> HIDE DEF h
  <2>4. h \in Givens
    <3>1. PICK D \in SUBSET Ids : G[n] \in [D -> Values]
      BY <1>3 DEF Givens
    <3>2. h \in [D \cap IdsIn(st) -> Values] /\ D \cap IdsIn(st) \in SUBSET Ids
      BY <2>3, <3>1
    <3> QED BY <3>2 DEF Givens
  <2>5. ASSUME NEW x \in Held(st)
        PROVE  /\ IdCut[x.id] = x.id
               /\ x.id \notin Doubtful => x.id \in DOMAIN h /\ x.value = ValueCut[h[x.id]]
    <3>1. x.id \in IdsIn(st)
      BY <1>4, IdsHeld
    <3>2. /\ IdCut[x.id] = x.id
          /\ x.id \notin Doubtful => x.id \in DOMAIN G[n] /\ x.value = ValueCut[G[n][x.id]]
      BY <1>3, <1>4 DEF Exact
    <3> QED BY <2>3, <3>1, <3>2
  <2> QED BY <2>4, <2>5 DEF Exact, h
<1> QED BY <1>1, <1>3, <1>4

-----------------------------------------------------------------------------
(* What a table loses.  Along the writes of a handler the entries of the   *)
(* table are old ones or stamped "now", so whatever is written over was    *)
(* the oldest of the old, or of this very second as all the others.        *)

LostFairly(old, new, max) ==
    \A x \in Ents(old) : (\A y \in Ents(new) : y.id # x.id) =>
        /\ Len(new) = max
        /\ \A z \in Ents(old) \cap Ents(new) :
              x.last_updated <= z.last_updated \/ now <= z.last_updated

OldOrNow(old, new) == \A y \in Ents(new) : y \in Ents(old) \/ y.last_updated = now

\* One more write: what it writes over was the oldest, or is as young as can be.
LEMMA WriteLoses ==
  ASSUME NEW max \in Nat \ {0}, NEW old \in Seq(Entry), OnceIn(old),
         NEW buf \in Seq(Entry), Len(buf) <= max, OnceIn(buf),
         LostFairly(old, buf, max), OldOrNow(old, buf),
         NEW e \in Entry, e.last_updated = now
  PROVE  LET b == TableWrite(buf, max, e.id, e) IN LostFairly(old, b, max) /\ OldOrNow(old, b)
<1> DEFINE b == TableWrite(buf, max, e.id, e)
<1>1. /\ b \in Seq(Entry) /\ Len(buf) <= Len(b) /\ Len(b) <= max /\ OnceIn(b)
      /\ \E D \in SUBSET Ents(buf) :
           /\ Ents(b) = (Ents(buf) \ D) \cup {e}
           /\ \A x \in Ents(buf) : x.id = e.id => x \in D
           /\ \A d \in D : \/ d.id = e.id
                           \/ /\ Len(buf) = max /\ Len(b) = max
                              /\ \A x \in Ents(buf) : d.last_updated <= x.last_updated
  BY TableWriteIs
<1> HIDE DEF b
<1>2. PICK D \in SUBSET Ents(buf) :
           /\ Ents(b) = (Ents(buf) \ D) \cup {e}
           /\ \A d \in D : \/ d.id = e.id
                           \/ /\ Len(buf) = max /\ Len(b) = max
                              /\ \A x \in Ents(buf) : d.last_updated <= x.last_updated
  BY <1>1
<1>3. Len(buf) \in Nat /\ Len(b) \in Nat /\ now \in Nat
  <2>1. now \in Nat
    BY EntryIs
  <2> QED BY <2>1, <1>1, Members
<1>4. OldOrNow(old, b)
  BY <1>2 DEF OldOrNow
<1>5. ASSUME NEW x \in Ents(old), \A y \in Ents(b) : y.id # x.id
      PROVE  /\ Len(b) = max
             /\ \A z \in Ents(old) \cap Ents(b) :
                   x.last_updated <= z.last_updated \/ now <= z.last_updated
  <2>0. e \in Ents(b) /\ e.id # x.id /\ now <= e.last_updated
    <3>1. now <= now
      BY <1>3
    <3> QED BY <3>1, <1>2, <1>5
  <2>1. CASE \A y \in Ents(buf) : y.id # x.id
    <3>1. /\ Len(buf) = max
          /\ \A z \in Ents(old) \cap Ents(buf) :
                x.last_updated <= z.last_updated \/ now <= z.last_updated
      BY <2>1 DEF LostFairly
    <3>2. Len(b) = max
      BY <3>1, <1>1, <1>3
    <3> QED BY <2>0, <3>1, <3>2, <1>2
  <2>2. ASSUME NEW y \in Ents(buf), y.id = x.id
        PROVE  /\ Len(b) = max
               /\ \A z \in Ents(old) \cap Ents(b) :
                     x.last_updated <= z.last_updated \/ now <= z.last_updated
    <3>1. y \in D /\ y.id # e.id
      BY <2>0, <2>2, <1>2, <1>5
    <3>2. Len(b) = max /\ \A z \in Ents(buf) : y.last_updated <= z.last_updated
      BY <3>1, <1>2
    <3>3. y = x \/ y.last_updated = now
      BY <2>2, OneOf DEF OldOrNow
    <3> QED BY <2>0, <3>2, <3>3, <1>2
  <2> QED BY <2>1, <2>2
<1>6. LostFairly(old, b, max)
  BY <1>5 DEF LostFairly
<1> QED BY <1>4, <1>6 DEF b

\* All the writes of one handler.
LEMMA WritesLose ==
  ASSUME Sound(store), NEW items \in Seq(Writes), now \in 0 .. SEC_WRAP - 1
  PROVE  LET st == PushAll(store, items) IN
         /\ Sound(st)
         /\ LostFairly(store.pub, st.pub, ENTITY_PUB_MAX)
         /\ LostFairly(store.mon, st.mon, ENTITY_MON_MAX)
         /\ LostFairly(store.own, st.own, ENTITY_OWN_MAX)
         /\ (\A k \in 1 .. Len(items) : items[k].id.pfx = "mon")
               => st.pub = store.pub /\ st.own = store.own
<1> DEFINE n == Len(items)
<1>0. n \in Nat
  BY LenProperties
<1>1. PICK W : /\ W[0] = store
               /\ \A k \in 1 .. n :
                      W[k] = entity_push(W[k - 1], native, items[k].id, items[k].value, now)
               /\ PushAll(store, items) = W[n]
  BY PushAllSteps
<1>2. /\ store.pub \in Seq(Entry) /\ OnceIn(store.pub)
      /\ store.mon \in Seq(Entry) /\ OnceIn(store.mon)
      /\ store.own \in Seq(Entry) /\ OnceIn(store.own)
  BY DEF Sound, TableOK
<1> DEFINE OnlyMon == \A k \in 1 .. n : items[k].id.pfx = "mon"
           Fair(st) == /\ LostFairly(store.pub, st.pub, ENTITY_PUB_MAX) /\ OldOrNow(store.pub, st.pub)
                       /\ LostFairly(store.mon, st.mon, ENTITY_MON_MAX) /\ OldOrNow(store.mon, st.mon)
                       /\ LostFairly(store.own, st.own, ENTITY_OWN_MAX) /\ OldOrNow(store.own, st.own)
           Good(k) == /\ Sound(W[k]) /\ Fair(W[k])
                      /\ OnlyMon => W[k].pub = store.pub /\ W[k].own = store.own
           T == {k \in 0 .. n : Good(k)}
<1>3. 0 \in T
  <2>1. Fair(store)
    BY DEF LostFairly, OldOrNow
  <2>2. Good(0)
    BY <2>1, <1>1
  <2>3. 0 \in 0 .. n
    BY <1>0
  <2> HIDE DEF Good
  <2> QED BY <2>2, <2>3
<1>4. ASSUME NEW k \in 1 .. n, k - 1 \in T PROVE k \in T
  <2> DEFINE st == W[k - 1]
             b == W[k]
             e == fill_entry(items[k].id, items[k].value, now)
  <2>1. Good(k - 1)
    BY <1>4
  <2>2. items[k].id \in Ids /\ Storable(items[k].id) /\ items[k].value \in Values
    BY WriteAt
  <2>3. b = entity_push(st, native, items[k].id, items[k].value, now)
    BY <1>1
  <2>4. e \in Entry /\ e.last_updated = now
    BY <2>2, FillIs
  <2>5. Sound(st) /\ Fair(st)
    BY <2>1
  <2>6. /\ Sound(b)
        /\ b.pub = st.pub \/ (items[k].id.pfx = "pub" /\ b.pub = TableWrite(st.pub, ENTITY_PUB_MAX, e.id, e))
        /\ b.mon = st.mon \/ (items[k].id.pfx = "mon" /\ b.mon = TableWrite(st.mon, ENTITY_MON_MAX, e.id, e))
        /\ b.own = st.own \/ (items[k].id.pfx = "own" /\ b.own = TableWrite(st.own, ENTITY_OWN_MAX, e.id, e))
    <3> DEFINE id == items[k].id
               val == items[k].value
               c == entity_push(st, native, id, val, now)
    <3>0. id \in Ids /\ Storable(id) /\ val \in Values /\ Sound(st)
      BY <2>2, <2>5
    <3>1. /\ Sound(c)
          /\ c.pub = st.pub \/ (id.pfx = "pub" /\ c.pub = TableWrite(st.pub, ENTITY_PUB_MAX, e.id, e))
          /\ c.mon = st.mon \/ (id.pfx = "mon" /\ c.mon = TableWrite(st.mon, ENTITY_MON_MAX, e.id, e))
          /\ c.own = st.own \/ (id.pfx = "own" /\ c.own = TableWrite(st.own, ENTITY_OWN_MAX, e.id, e))
      <4> DEFINE d == fill_entry(id, val, now)
      <4> HIDE DEF st, Fair, id, val
      <4>1. /\ Sound(c)
            /\ c.pub = st.pub \/ (id.pfx = "pub" /\ c.pub = TableWrite(st.pub, ENTITY_PUB_MAX, d.id, d))
            /\ c.mon = st.mon \/ (id.pfx = "mon" /\ c.mon = TableWrite(st.mon, ENTITY_MON_MAX, d.id, d))
            /\ c.own = st.own \/ (id.pfx = "own" /\ c.own = TableWrite(st.own, ENTITY_OWN_MAX, d.id, d))
        BY <3>0, PushIs
      <4> HIDE DEF c
      <4> QED BY <4>1 DEF id, val
    <3> HIDE DEF c, st, e
    <3>2. b = c
      BY <2>3 DEF c
    <3> HIDE DEF b
    <3> QED BY <3>1, <3>2
  <2>7. OnlyMon => b.pub = store.pub /\ b.own = store.own
    BY <2>1, <2>6
  <2> HIDE DEF st, b, e
  <2>8. LostFairly(store.pub, b.pub, ENTITY_PUB_MAX) /\ OldOrNow(store.pub, b.pub)
    <3>1. st.pub \in Seq(Entry) /\ Len(st.pub) <= ENTITY_PUB_MAX /\ OnceIn(st.pub)
      BY <2>5 DEF Sound, TableOK
    <3> QED BY <3>1, <2>4, <2>5, <2>6, <1>2, WriteLoses, Limits
  <2>9. LostFairly(store.mon, b.mon, ENTITY_MON_MAX) /\ OldOrNow(store.mon, b.mon)
    <3>1. st.mon \in Seq(Entry) /\ Len(st.mon) <= ENTITY_MON_MAX /\ OnceIn(st.mon)
      BY <2>5 DEF Sound, TableOK
    <3> QED BY <3>1, <2>4, <2>5, <2>6, <1>2, WriteLoses, Limits
  <2>10. LostFairly(store.own, b.own, ENTITY_OWN_MAX) /\ OldOrNow(store.own, b.own)
    <3>1. st.own \in Seq(Entry) /\ Len(st.own) <= ENTITY_OWN_MAX /\ OnceIn(st.own)
      BY <2>5 DEF Sound, TableOK
    <3> QED BY <3>1, <2>4, <2>5, <2>6, <1>2, WriteLoses, Limits
  <2>11. Good(k)
    BY <2>6, <2>7, <2>8, <2>9, <2>10 DEF b
  <2> HIDE DEF Good
  <2> QED BY <2>11
<1>5. Good(n)
  <2> HIDE DEF T, n
  <2>1. \A k \in 0 .. n : k \in T
    BY <1>0, <1>3, <1>4, UpTo
  <2> QED BY <2>1, <1>0 DEF T
<1> QED BY <1>1, <1>5

\* What the loss of entities by writing or by expiry means for the tables.
LEMMA FairLoss ==
  ASSUME Sound(store), Sound(store'),
         \/ LostFairly(store.pub, store'.pub, ENTITY_PUB_MAX)
         \/ \A x \in Ents(store.pub) : x \in Ents(store'.pub) \/ ~(Age(x, now) <= PUB_TTL_S),
         LostFairly(store.mon, store'.mon, ENTITY_MON_MAX),
         \/ LostFairly(store.own, store'.own, ENTITY_OWN_MAX)
         \/ \A x \in Ents(store.own) : x \in Ents(store'.own) \/ ~(Age(x, now) <= OWN_TTL_S),
         now \in 0 .. SEC_WRAP - 1
  PROVE  OnlyOldestLost
<1> DEFINE Fair(f, max) ==
      \A i \in DOMAIN store[f] : find_in(store'[f], store[f][i].id) = {} =>
            \/ Expired(store[f][i])
            \/ /\ Len(store'[f]) = max
               /\ \A j \in DOMAIN store[f] : store[f][j] \in ToSet(store'[f]) =>
                        \/ store[f][i].last_updated <= store[f][j].last_updated
                        \/ now <= store[f][j].last_updated
<1>1. ASSUME NEW f, NEW max, LostFairly(store[f], store'[f], max) PROVE Fair(f, max)
  <2>1. ToSet(store'[f]) = Ents(store'[f])
    BY DEF ToSet, Ents
  <2> SUFFICES ASSUME NEW i \in DOMAIN store[f], find_in(store'[f], store[f][i].id) = {}
               PROVE  /\ Len(store'[f]) = max
                      /\ \A j \in DOMAIN store[f] : store[f][j] \in ToSet(store'[f]) =>
                            \/ store[f][i].last_updated <= store[f][j].last_updated
                            \/ now <= store[f][j].last_updated
    OBVIOUS
  <2>2. store[f][i] \in Ents(store[f]) /\ \A j \in DOMAIN store[f] : store[f][j] \in Ents(store[f])
    BY DEF Ents
  <2>3. \A y \in Ents(store'[f]) : y.id # store[f][i].id
    BY Found
  <2> QED BY <1>1, <2>1, <2>2, <2>3 DEF LostFairly
<1>2. ASSUME NEW x \in Entry, x.id.pfx = "pub", ~(Age(x, now) <= PUB_TTL_S) PROVE Expired(x)
  <2>1. Age(x, now) \in Nat /\ PUB_TTL_S \in Nat
    <3>1. x.last_updated \in Nat /\ now \in Nat
      BY EntryIs, Limits
    <3> QED BY <3>1, Limits DEF Age
  <2>2. Age(x, now) > PUB_TTL_S
    BY <2>1, <1>2
  <2> QED BY <2>2, <1>2 DEF Expired
<1>3. ASSUME NEW x \in Entry, x.id.pfx = "own", ~(Age(x, now) <= OWN_TTL_S) PROVE Expired(x)
  <2>1. Age(x, now) \in Nat /\ OWN_TTL_S \in Nat
    <3>1. x.last_updated \in Nat /\ now \in Nat
      BY EntryIs, Limits
    <3> QED BY <3>1, Limits DEF Age
  <2>2. Age(x, now) > OWN_TTL_S
    BY <2>1, <1>3
  <2> QED BY <2>2, <1>3 DEF Expired
<1>4. ASSUME NEW f, NEW max,
             \A x \in Ents(store[f]) : x \in Ents(store'[f]) \/ Expired(x)
      PROVE  Fair(f, max)
  <2> SUFFICES ASSUME NEW i \in DOMAIN store[f], find_in(store'[f], store[f][i].id) = {}
               PROVE  Expired(store[f][i])
    OBVIOUS
  <2>1. store[f][i] \notin Ents(store'[f])
    BY Found
  <2> QED BY <1>4, <2>1 DEF Ents
<1>5. /\ \A x \in Ents(store.pub) : x \in Entry /\ x.id.pfx = "pub"
      /\ \A x \in Ents(store.own) : x \in Entry /\ x.id.pfx = "own"
  BY Members DEF Sound, TableOK
<1>6. Fair("pub", ENTITY_PUB_MAX)
  <2>1. CASE LostFairly(store.pub, store'.pub, ENTITY_PUB_MAX)
    BY <2>1, <1>1
  <2>2. CASE \A x \in Ents(store.pub) : x \in Ents(store'.pub) \/ ~(Age(x, now) <= PUB_TTL_S)
    <3>1. \A x \in Ents(store["pub"]) : x \in Ents(store'["pub"]) \/ Expired(x)
      BY <2>2, <1>2, <1>5
    <3> QED BY <3>1, <1>4
  <2> QED BY <2>1, <2>2
<1>7. Fair("mon", ENTITY_MON_MAX)
  BY <1>1
<1>8. Fair("own", ENTITY_OWN_MAX)
  <2>1. CASE LostFairly(store.own, store'.own, ENTITY_OWN_MAX)
    BY <2>1, <1>1
  <2>2. CASE \A x \in Ents(store.own) : x \in Ents(store'.own) \/ ~(Age(x, now) <= OWN_TTL_S)
    <3>1. \A x \in Ents(store["own"]) : x \in Ents(store'["own"]) \/ Expired(x)
      BY <2>2, <1>3, <1>5
    <3> QED BY <3>1, <1>4
  <2> QED BY <2>1, <2>2
<1>9. /\ DOMAIN Room = {"pub", "mon", "own"}
      /\ Room["pub"] = ENTITY_PUB_MAX /\ Room["mon"] = ENTITY_MON_MAX /\ Room["own"] = ENTITY_OWN_MAX
  BY DEF Room
<1> HIDE DEF Fair
<1>10. \A f \in DOMAIN Room : Fair(f, Room[f])
  BY <1>6, <1>7, <1>8, <1>9
<1> QED BY <1>10 DEF Fair, OnlyOldestLost

\* A batch carries every native entity the node has to send.
LEMMA NothingOwed ==
  ASSUME NEW st, Sound(st), \A id \in unsent : id.pfx = "pub"
  PROVE  Owed(st) = {}
<1> SUFFICES ASSUME NEW id \in Owed(st) PROVE FALSE
  OBVIOUS
<1>1. /\ id.pfx = "pub" /\ id \in IdsIn(st) /\ entity_is_native(native, id.key)
      /\ \A i \in DOMAIN Batch(st) : Batch(st)[i].id # id
  BY DEF Owed
<1>2. PICK x \in Held(st) : x.id = id
  BY <1>1, IdsHeld
<1>3. x \in Ents(st.pub)
  BY <1>1, <1>2, HeldIs
<1> DEFINE s == entity_get(st)
           kept == {i \in DOMAIN s : InBatch(s[i])}
<1>4. s \in Seq(Entry) /\ x \in Ents(s)
  BY <1>3, GetIs
<1>5. PICK i \in DOMAIN s : x = s[i]
  BY <1>4 DEF Ents
<1>6. i \in kept \cap DOMAIN s
  BY <1>1, <1>2, <1>5 DEF InBatch
<1>7. x \in Ents(Compacted(s, kept))
  <2>1. Ents(Compacted(s, kept)) = {s[r] : r \in kept \cap DOMAIN s}
    BY <1>4, CompactedIs
  <2> HIDE DEF s, kept
  <2> QED BY <2>1, <1>5, <1>6
<1>8. Batch(st) = Compacted(s, kept)
  BY DEF Batch
<1> HIDE DEF s, kept
<1> QED BY <1>1, <1>2, <1>7, <1>8 DEF Ents

-----------------------------------------------------------------------------
(* The sender.                                                             *)

SinceOK(s) == s \in [Timers -> Nat] /\ \A t \in Timers : s[t] <= Interval[t]

DataInv == Sound(store) /\ written \in Givens /\ Exact(store, written)

SenderInv ==
    /\ native \in Seq(Keys) /\ Len(native) <= NATIVE_MAX
    /\ now \in 0 .. SEC_WRAP - 1
    /\ SinceOK(since)
    /\ g_pending_send \in BOOLEAN /\ uplink \in BOOLEAN
    /\ link \in Links
    /\ scanning \in 0 .. MaxScans
    /\ unsent \subseteq {id \in Ids : id.pfx = "pub"}
    /\ unsent # {} => g_pending_send

\* The timers and what they are compared with.
LEMMA Intervals ==
  /\ Timers = {"basics", "ping", "send", "mon", "scan"}
  /\ \A t \in Timers : Interval[t] \in Nat \ {0}
<1>1. Timers = {"basics", "ping", "send", "mon", "scan"}
  BY DEF Timers, Interval
<1>2. /\ Interval["basics"] = BASICS_INTERVAL /\ Interval["ping"] = PING_INTERVAL
      /\ Interval["send"] = FORCE_SEND_INTERVAL /\ Interval["mon"] = MON_INTERVAL
      /\ Interval["scan"] = SCAN_INTERVAL
  BY DEF Interval
<1>3. {BASICS_INTERVAL, PING_INTERVAL, FORCE_SEND_INTERVAL, MON_INTERVAL, SCAN_INTERVAL} \subseteq Nat \ {0}
  BY SenderAssumption
<1> QED BY <1>1, <1>2, <1>3

\* A timer set back to 0.
LEMMA Stopped ==
  ASSUME NEW s, SinceOK(s), NEW t
  PROVE  SinceOK([s EXCEPT ![t] = 0])
<1>1. s \in [Timers -> Nat] /\ \A u \in Timers : s[u] <= Interval[u] /\ 0 <= Interval[u]
  BY Intervals DEF SinceOK
<1>2. [s EXCEPT ![t] = 0] \in [Timers -> Nat]
  BY <1>1
<1>3. ASSUME NEW u \in Timers PROVE [s EXCEPT ![t] = 0][u] <= Interval[u]
  <2>1. [s EXCEPT ![t] = 0][u] \in {0, s[u]}
    BY <1>1
  <2> HIDE DEF SinceOK
  <2> QED BY <2>1, <1>1
<1> QED BY <1>2, <1>3 DEF SinceOK

\* The timers after update_wifi_scan.
LEMMA ScanStamps ==
  ASSUME SinceOK(since)
  PROVE  SinceOK(AfterScan)
<1>1. since \in [Timers -> Nat] /\ \A u \in Timers : since[u] <= Interval[u] /\ 0 <= Interval[u]
  BY Intervals DEF SinceOK
<1>2. AfterScan \in [Timers -> Nat] /\ \A u \in Timers : AfterScan[u] \in {0, since[u]}
  BY <1>1 DEF AfterScan
<1> QED BY <1>1, <1>2 DEF SinceOK

\* The timers after power-on.
LEMMA BootStamps == SinceOK(SinceBoot)
<1>1. /\ BASICS_INTERVAL \in Nat /\ PING_INTERVAL \in Nat /\ FORCE_SEND_INTERVAL \in Nat
      /\ MON_INTERVAL \in Nat /\ SCAN_INTERVAL \in Nat
  BY SenderAssumption
<1>2. MON_INTERVAL \div 2 \in Nat /\ MON_INTERVAL \div 2 <= MON_INTERVAL
  BY <1>1
<1>3. SinceBoot \in [Timers -> Nat]
  BY <1>1, <1>2, Intervals DEF SinceBoot
<1>4. /\ SinceBoot["basics"] = 0 /\ SinceBoot["ping"] = 0 /\ SinceBoot["send"] = FORCE_SEND_INTERVAL
      /\ SinceBoot["mon"] = MON_INTERVAL \div 2 /\ SinceBoot["scan"] = SCAN_INTERVAL
  BY DEF SinceBoot
<1>5. /\ Interval["basics"] = BASICS_INTERVAL /\ Interval["ping"] = PING_INTERVAL
      /\ Interval["send"] = FORCE_SEND_INTERVAL /\ Interval["mon"] = MON_INTERVAL
      /\ Interval["scan"] = SCAN_INTERVAL
  BY DEF Interval
<1>6. /\ 0 <= BASICS_INTERVAL /\ 0 <= PING_INTERVAL /\ FORCE_SEND_INTERVAL <= FORCE_SEND_INTERVAL
      /\ SCAN_INTERVAL <= SCAN_INTERVAL
  BY <1>1
<1>7. \A t \in Timers : SinceBoot[t] <= Interval[t]
  BY <1>2, <1>4, <1>5, <1>6, Intervals
<1> QED BY <1>3, <1>7 DEF SinceOK

\* A list of one write.
LEMMA OneWrite ==
  ASSUME NEW id \in Ids, Storable(id), NEW val \in Values
  PROVE  /\ Write(id, val) \in Writes
         /\ <<Write(id, val)>> \in Seq(Writes) /\ Len(<<Write(id, val)>>) = 1
         /\ <<Write(id, val)>>[1] = Write(id, val)
         /\ Write(id, val).id = id
<1>1. Write(id, val) \in Writes /\ Write(id, val).id = id
  BY DEF Write, Writes
<1> QED BY <1>1

\* The measurements fit.
LEMMA BasicsFit ==
  Id("mon", BasicsKey) \in Ids /\ Storable(Id("mon", BasicsKey)) /\ Id("mon", BasicsKey).pfx = "mon"
<1>1. Id("mon", BasicsKey) \in Ids /\ Id("mon", BasicsKey).pfx = "mon"
  BY SenderAssumption DEF Id, Ids, EntityPrefixes
<1> QED BY <1>1, SenderAssumption DEF Storable

\* What update_wifi_scan and send_batch write is under mon.
LEMMA BasicsWrites ==
  ASSUME NEW val \in Values
  PROVE  /\ Freshened(val) \in Seq(Writes)
         /\ Freshened(val) \o <<basics(val)>> \in Seq(Writes)
         /\ \A k \in 1 .. Len(Freshened(val) \o <<basics(val)>>) :
                (Freshened(val) \o <<basics(val)>>)[k].id.pfx = "mon"
<1>1. /\ basics(val) \in Writes /\ <<basics(val)>> \in Seq(Writes) /\ Len(<<basics(val)>>) = 1
      /\ <<basics(val)>>[1] = basics(val) /\ basics(val).id.pfx = "mon"
  <2> QED BY BasicsFit, OneWrite DEF basics
<1>2. << >> \in Seq(Writes) /\ Len(<< >>) = 0
  BY EmptySeq
<1>3. CASE Due("basics")
  <2>1. Freshened(val) = <<basics(val)>>
    BY <1>3 DEF Freshened
  <2> DEFINE s == <<basics(val)>>
  <2>2. /\ s \o s \in Seq(Writes) /\ Len(s \o s) = 2
        /\ \A i \in 1 .. 2 : (s \o s)[i] = IF i <= 1 THEN s[i] ELSE s[i - 1]
    <3>1. s \in Seq(Writes) /\ Len(s) = 1
      BY <1>1
    <3> HIDE DEF s
    <3>2. Len(s) + Len(s) = 2
      BY <3>1
    <3> QED BY <3>1, <3>2, ConcatProperties
  <2>3. (s \o s)[1] = s[1] /\ (s \o s)[2] = s[1]
    <3> HIDE DEF s
    <3> QED BY <2>2
  <2>4. \A k \in 1 .. 2 : k = 1 \/ k = 2
    OBVIOUS
  <2>5. \A k \in 1 .. 2 : (s \o s)[k].id.pfx = "mon"
    <3> HIDE DEF s
    <3> QED BY <2>3, <2>4, <1>1 DEF s
  <2> QED BY <2>1, <2>2, <2>5, <1>1
<1>4. CASE ~Due("basics")
  <2>1. Freshened(val) = << >>
    BY <1>4 DEF Freshened
  <2>2. << >> \o <<basics(val)>> = <<basics(val)>>
    BY <1>1, ConcatEmptySeq
  <2>3. \A k \in 1 .. 1 : k = 1
    OBVIOUS
  <2> QED BY <2>1, <2>2, <2>3, <1>1, <1>2
<1> QED BY <1>3, <1>4

\* The store and its history after the writes of a handler.
LEMMA Becomes ==
  ASSUME DataInv, now \in 0 .. SEC_WRAP - 1, NEW items \in Seq(Writes),
         NEW st, Sound(st), Held(st) \subseteq Held(PushAll(store, items)),
         store' = st, written' = Written(st, items)
  PROVE  DataInv'
<1>1. Sound(store) /\ written \in Givens /\ Exact(store, written)
  BY DEF DataInv
<1>2. Written(st, items) \in Givens /\ Exact(st, Written(st, items))
  BY <1>1, WritesExact
<1> QED BY <1>2 DEF DataInv

\* An empty list of writes.
LEMMA NothingWritten ==
  ASSUME Sound(store), now \in 0 .. SEC_WRAP - 1
  PROVE  PushAll(store, << >>) = store /\ << >> \in Seq(Writes)
<1>1. << >> \in Seq(Writes) /\ Len(<< >>) = 0
  BY EmptySeq
<1> DEFINE none == << >>
<1> HIDE DEF none
<1>2. PICK W : /\ W[0] = store
               /\ \A k \in 1 .. Len(none) :
                      W[k] = entity_push(W[k - 1], native, none[k].id, none[k].value, now)
               /\ PushAll(store, none) = W[Len(none)]
  <2>1. none \in Seq(Writes)
    BY <1>1 DEF none
  <2> QED BY <2>1, PushAllSteps
<1>3. none = << >> /\ Len(none) = 0
  BY <1>1 DEF none
<1> QED BY <1>1, <1>2, <1>3

\* A table that did not change has lost nothing.
LEMMA Untouched ==
  ASSUME NEW s, NEW max PROVE LostFairly(s, s, max)
BY DEF LostFairly

\* Steps that leave the tables alone lose nothing.
LEMMA StoreStays ==
  ASSUME Sound(store), now \in 0 .. SEC_WRAP - 1, Sound(store'),
         store'.pub = store.pub, store'.mon = store.mon, store'.own = store.own
  PROVE  OnlyOldestLost
BY Untouched, FairLoss

\* A handler that writes entities.
LEMMA TakenInv ==
  ASSUME DataInv, SenderInv, NEW items \in Seq(Writes), NEW ask \in BOOLEAN, TakeItems(items, ask)
  PROVE  DataInv' /\ SenderInv' /\ OnlyOldestLost
<1> DEFINE st == PushAll(store, items)
           pubs == {items[i].id : i \in {j \in DOMAIN items : items[j].id.pfx = "pub"}}
<1>1. /\ store' = st /\ written' = Written(st, items)
      /\ g_pending_send' = (g_pending_send \/ (ask /\ pubs # {}))
      /\ unsent' = (unsent \cup IF ask THEN {id \in pubs : ~Blocked(native, id)} ELSE {}) \cap IdsIn(st)
      /\ native' = native /\ now' = now /\ since' = since /\ link' = link
      /\ uplink' = uplink /\ scanning' = scanning
  BY DEF TakeItems, StoreBecomes
<1>2. Sound(store) /\ now \in 0 .. SEC_WRAP - 1
  BY DEF DataInv, SenderInv
<1>3. /\ Sound(st)
      /\ LostFairly(store.pub, st.pub, ENTITY_PUB_MAX)
      /\ LostFairly(store.mon, st.mon, ENTITY_MON_MAX)
      /\ LostFairly(store.own, st.own, ENTITY_OWN_MAX)
  BY <1>2, WritesLose
<1>4. pubs \subseteq {id \in Ids : id.pfx = "pub"}
  <2>1. DOMAIN items = 1 .. Len(items)
    BY LenProperties
  <2>2. \A i \in DOMAIN items : items[i].id \in Ids
    BY <2>1, WriteAt
  <2> QED BY <2>2
<1> HIDE DEF st, pubs
<1>5. DataInv'
  BY <1>1, <1>2, <1>3, Becomes DEF st
<1>6. OnlyOldestLost
  BY <1>1, <1>2, <1>3, FairLoss
<1>7. unsent' \subseteq {id \in Ids : id.pfx = "pub"}
  BY <1>1, <1>4 DEF SenderInv
<1>8. g_pending_send' \in BOOLEAN /\ (unsent' # {} => g_pending_send')
  <2>1. g_pending_send \in BOOLEAN /\ (unsent # {} => g_pending_send)
    BY DEF SenderInv
  <2>2. unsent' # {} => unsent # {} \/ (ask /\ pubs # {})
    BY <1>1
  <2> QED BY <1>1, <2>1, <2>2
<1>9. SenderInv'
  BY <1>1, <1>7, <1>8 DEF SenderInv
<1> QED BY <1>5, <1>6, <1>9

\* A pass of the sender that builds no batch.
LEMMA NoBatchInv ==
  ASSUME DataInv, SenderInv, NEW val \in Values, NEW timers, SinceOK(timers),
         NoBatch(val, timers), native' = native, now' = now, link' = link,
         scanning' \in 0 .. MaxScans
  PROVE  DataInv' /\ SenderInv' /\ OnlyOldestLost
<1> DEFINE items == Freshened(val)
           st == PushAll(store, items)
<1>1. /\ store' = st /\ written' = Written(st, items) /\ since' = timers
      /\ unsent' = unsent \cap IdsIn(store') /\ g_pending_send' = g_pending_send /\ uplink' = uplink
  BY DEF NoBatch, StoreBecomes
<1>2. Sound(store) /\ now \in 0 .. SEC_WRAP - 1 /\ items \in Seq(Writes)
  BY BasicsWrites DEF DataInv, SenderInv
<1> HIDE DEF items
<1>3. /\ Sound(st)
      /\ LostFairly(store.pub, st.pub, ENTITY_PUB_MAX)
      /\ LostFairly(store.mon, st.mon, ENTITY_MON_MAX)
      /\ LostFairly(store.own, st.own, ENTITY_OWN_MAX)
  BY <1>2, WritesLose
<1> HIDE DEF st
<1>4. DataInv'
  BY <1>1, <1>2, <1>3, Becomes DEF st
<1>5. OnlyOldestLost
  BY <1>1, <1>2, <1>3, FairLoss
<1>6. unsent' \subseteq {id \in Ids : id.pfx = "pub"} /\ (unsent' # {} => unsent # {})
  BY <1>1 DEF SenderInv
<1>7. SenderInv'
  BY <1>1, <1>6 DEF SenderInv
<1> QED BY <1>4, <1>5, <1>7

\* A pass that builds one, whether it leaves or not.
LEMMA BatchInv ==
  ASSUME DataInv, SenderInv, NEW val \in Values, NEW taken \in BOOLEAN,
         send_batch(val, taken), native' = native, now' = now, link' = link,
         scanning' \in 0 .. MaxScans
  PROVE  DataInv' /\ SenderInv' /\ OnlyOldestLost
<1> DEFINE items == Freshened(val) \o <<basics(val)>>
           all == PushAll(store, items)
           st == Pruned(all)
           left == Fits(st) /\ (link = "ws" \/ (link = "lora" /\ taken))
<1>1. /\ store' = st /\ written' = Written(st, items)
      /\ since' = [AfterScan EXCEPT !.send = 0]
      /\ g_pending_send' = (g_pending_send /\ ~left)
      /\ uplink' = (uplink \/ (left /\ link = "lora"))
      /\ unsent' = IF left THEN Owed(st) ELSE unsent \cap IdsIn(st)
  BY DEF send_batch, StoreBecomes
<1>2. Sound(store) /\ now \in 0 .. SEC_WRAP - 1
  BY DEF DataInv, SenderInv
<1>3. items \in Seq(Writes) /\ \A k \in 1 .. Len(items) : items[k].id.pfx = "mon"
  BY BasicsWrites
<1> HIDE DEF items
<1>4. /\ Sound(all) /\ LostFairly(store.mon, all.mon, ENTITY_MON_MAX)
      /\ all.pub = store.pub /\ all.own = store.own
  BY <1>2, <1>3, WritesLose
<1> HIDE DEF all
<1>5. /\ Sound(st) /\ Held(st) \subseteq Held(all) /\ st.mon = all.mon
      /\ \A x \in Ents(all.pub) : x \in Ents(st.pub) \/ ~(Age(x, now) <= PUB_TTL_S)
      /\ \A x \in Ents(all.own) : x \in Ents(st.own) \/ ~(Age(x, now) <= OWN_TTL_S)
  BY <1>4, PrunedIs
<1>6. Owed(st) = {}
  BY <1>5, NothingOwed DEF SenderInv
<1> HIDE DEF st
<1>7. DataInv'
  BY <1>1, <1>2, <1>3, <1>5, Becomes DEF all
<1>8. OnlyOldestLost
  BY <1>1, <1>2, <1>4, <1>5, FairLoss
<1>9. SinceOK(since')
  <2>1. SinceOK(AfterScan)
    BY ScanStamps DEF SenderInv
  <2>2. SinceOK([AfterScan EXCEPT !["send"] = 0])
    BY <2>1, Stopped
  <2> QED BY <2>2, <1>1
<1>10. unsent' \subseteq unsent /\ (left => unsent' = {})
  BY <1>1, <1>6
<1> HIDE DEF left
<1>11. /\ g_pending_send' \in BOOLEAN /\ uplink' \in BOOLEAN
       /\ unsent' # {} => g_pending_send'
  <2>1. g_pending_send \in BOOLEAN /\ uplink \in BOOLEAN /\ (unsent # {} => g_pending_send)
    BY DEF SenderInv
  <2> QED BY <1>1, <1>10, <2>1
<1>12. unsent' \subseteq {id \in Ids : id.pfx = "pub"}
  BY <1>10 DEF SenderInv
<1>13. SenderInv'
  BY <1>9, <1>11, <1>12 DEF SenderInv
<1> QED BY <1>7, <1>8, <1>13

\* Any pass of the sender.
LEMMA TickInv ==
  ASSUME DataInv, SenderInv, NEW val \in Values, NEW queued \in BOOLEAN, NEW taken \in BOOLEAN,
         data_sender_tick(val, queued, taken)
  PROVE  DataInv' /\ SenderInv' /\ OnlyOldestLost
<1>1. /\ native' = native /\ now' = now /\ link' = link
      /\ queued => scanning < MaxScans
      /\ scanning' = scanning + (IF Due("scan") /\ queued THEN 1 ELSE 0)
  BY DEF data_sender_tick
<1>2. scanning' \in 0 .. MaxScans
  <2>1. scanning \in 0 .. MaxScans /\ MaxScans \in Nat
    BY SenderAssumption DEF SenderInv
  <2>2. CASE queued
    <3>1. scanning < MaxScans /\ scanning' \in {scanning, scanning + 1}
      <4>1. scanning + 0 = scanning
        BY <2>1
      <4> QED BY <4>1, <2>2, <1>1
    <3> QED BY <2>1, <3>1
  <2>3. CASE ~queued
    <3>1. scanning' = scanning + 0
      BY <2>3, <1>1
    <3> QED BY <2>1, <3>1
  <2> QED BY <2>2, <2>3
<1>3. SinceOK(AfterScan)
  BY ScanStamps DEF SenderInv
<1>4. SinceOK([AfterScan EXCEPT !["ping"] = 0]) /\ SinceOK([AfterScan EXCEPT !["send"] = 0])
  BY <1>3, Stopped
<1>5. SinceOK([AfterScan EXCEPT !["mon"] = IF g_wifi_connected THEN 0 ELSE @])
  <2>1. CASE g_wifi_connected
    BY <2>1, <1>3, Stopped
  <2>2. CASE ~g_wifi_connected
    <3>1. AfterScan = [AfterScan EXCEPT !["mon"] = AfterScan["mon"]]
      BY <1>3 DEF SinceOK
    <3> QED BY <3>1, <2>2, <1>3
  <2> QED BY <2>1, <2>2
<1>6. CASE send_batch(val, taken)
  BY <1>1, <1>2, <1>6, BatchInv
<1>7. CASE \E timers : SinceOK(timers) /\ NoBatch(val, timers)
  BY <1>1, <1>2, <1>7, NoBatchInv
<1>8. send_batch(val, taken) \/ \E timers : SinceOK(timers) /\ NoBatch(val, timers)
  <2>1. \/ send_ping(val) \/ send_batch_offline(val) \/ send_batch_skipped(val)
        \/ send_batch(val, taken) \/ send_mon_batch(val) \/ NoBatch(val, AfterScan)
    BY DEF data_sender_tick
  <2>2. CASE send_ping(val)
    BY <2>2, <1>4 DEF send_ping
  <2>3. CASE send_batch_offline(val)
    BY <2>3, <1>3 DEF send_batch_offline
  <2>4. CASE send_batch_skipped(val)
    BY <2>4, <1>4 DEF send_batch_skipped
  <2>5. CASE send_mon_batch(val)
    BY <2>5, <1>5 DEF send_mon_batch
  <2> QED BY <2>1, <2>2, <2>3, <2>4, <2>5, <1>3
<1> QED BY <1>6, <1>7, <1>8

-----------------------------------------------------------------------------
(* The whole.                                                              *)

DfInv == SubInv /\ DataInv /\ SenderInv

\* The map and the store right after power-on.
LEMMA Booted ==
  ASSUME NEW val \in Values
  PROVE  LET st == entity_push(entity_store_init, << >>, Id("mon", BasicsKey), val, 0)
             given == [x \in {Id("mon", BasicsKey)} |-> val]
         IN Sound(st) /\ given \in Givens /\ Exact(st, given)
<1> DEFINE id == Id("mon", BasicsKey)
           st == entity_push(entity_store_init, << >>, id, val, 0)
           e == fill_entry(id, val, 0)
           given == [x \in {id} |-> val]
<1>1. id \in Ids /\ Storable(id) /\ id.pfx = "mon" /\ IdCut[id] = id
  BY BasicsFit, SenderAssumption
<1>2. 0 \in 0 .. SEC_WRAP - 1
  BY Limits
<1>3. ~Blocked(<< >>, id)
  BY <1>1 DEF Blocked
<1> HIDE DEF id
<1>4. Sound(st) /\ Held(st) \subseteq Held(entity_store_init) \cup {e}
  BY <1>1, <1>2, <1>3, EmptyStore, PushIs
<1>5. e.id = id /\ e.value = ValueCut[val] /\ IdCut[id] = id
  BY <1>1, <1>2, FillIs
<1>6. given = [x \in {id} |-> val]
  OBVIOUS
<1> HIDE DEF given, st, e
<1>7. given \in Givens
  <2>1. given \in [{id} -> Values] /\ {id} \in SUBSET Ids
    BY <1>1, <1>6
  <2> QED BY <2>1 DEF Givens
<1>8. Exact(st, given)
  BY <1>4, <1>5, <1>6, EmptyStore DEF Exact
<1> QED BY <1>4, <1>7, <1>8 DEF given, st, id

\* Power-on.
LEMMA DfInitInv == DfInit => DfInv
<1> SUFFICES ASSUME DfInit PROVE DfInv
  OBVIOUS
<1>1. SubInv
  BY SubInitInv DEF DfInit
<1>2. /\ native = << >> /\ now = 0 /\ link = "none" /\ uplink = FALSE /\ scanning = 0 /\ unsent = {}
      /\ since = SinceBoot /\ g_pending_send = FALSE
      /\ \E val \in Values :
            /\ store = entity_push(entity_store_init, << >>, Id("mon", BasicsKey), val, now)
            /\ written = [x \in {Id("mon", BasicsKey)} |-> val]
  BY DEF DfInit, DsInit, data_sender_init
<1>3. DataInv
  <2>1. PICK val \in Values :
            /\ store = entity_push(entity_store_init, << >>, Id("mon", BasicsKey), val, 0)
            /\ written = [x \in {Id("mon", BasicsKey)} |-> val]
    BY <1>2
  <2> QED BY <2>1, Booted DEF DataInv
<1>4. SenderInv
  <2>1. << >> \in Seq(Keys) /\ Len(<< >>) = 0 /\ 0 <= NATIVE_MAX /\ 0 \in 0 .. SEC_WRAP - 1
        /\ 0 \in 0 .. MaxScans
    BY Limits, EmptySeq, SenderAssumption
  <2>2. native \in Seq(Keys) /\ Len(native) <= NATIVE_MAX
    BY <1>2, <2>1
  <2> QED BY <1>2, <2>1, <2>2, BootStamps DEF SenderInv, Links
<1> QED BY <1>1, <1>3, <1>4 DEF DfInv

\* The list of natives stays within its room.
LEMMA NativeLoaded ==
  ASSUME NEW names \in Seq(Keys), native \in Seq(Keys), Len(native) <= NATIVE_MAX, on_identified(names)
  PROVE  native' \in Seq(Keys) /\ Len(native') <= NATIVE_MAX
<1> DEFINE n == Len(names)
           Lists == {s \in Seq(Keys) : Len(s) <= NATIVE_MAX}
           Fix(w) == w = [k \in 0 .. n |-> IF k = 0 THEN native ELSE entity_load_native(w[k - 1], names[k])]
           W == CHOOSE w : Fix(w)
           F == [k \in 1 .. n |-> [s \in Lists |-> entity_load_native(s, names[k])]]
<1>0. n \in Nat
  BY LenProperties
<1>1. native' = W[n]
  BY DEF on_identified
<1>2. ASSUME NEW k \in 1 .. n, NEW s \in Lists PROVE entity_load_native(s, names[k]) \in Lists
  <2>1. names[k] \in Keys
    BY ElementOfSeq
  <2>2. s \in Seq(Keys) /\ Len(s) <= NATIVE_MAX /\ Len(s) \in Nat /\ NATIVE_MAX \in Nat
    BY LenProperties, Limits
  <2>3. CASE Len(s) >= NATIVE_MAX \/ entity_is_native(s, names[k])
    BY <2>3 DEF entity_load_native
  <2>4. CASE ~(Len(s) >= NATIVE_MAX \/ entity_is_native(s, names[k]))
    <3>1. entity_load_native(s, names[k]) = Append(s, names[k])
      BY <2>4 DEF entity_load_native
    <3>2. Append(s, names[k]) \in Seq(Keys) /\ Len(Append(s, names[k])) = Len(s) + 1
      BY <2>1, <2>2
    <3>3. Len(s) + 1 <= NATIVE_MAX
      BY <2>2, <2>4
    <3> QED BY <3>1, <3>2, <3>3
  <2> QED BY <2>3, <2>4
<1>3. native \in Lists
  OBVIOUS
<1> HIDE DEF n, Lists
<1>4. Steps(n, Lists, F)
  BY <1>2 DEF Steps
<1>5. PICK f \in [0 .. n -> Lists] : f[0] = native /\ \A k \in 1 .. n : f[k] = F[k][f[k - 1]]
  <2> HIDE DEF F
  <2>1. Solves(n, Lists, native, F)
    BY <1>0, <1>3, <1>4, FoldExists
  <2> QED BY <2>1 DEF Solves
<1>6. Fix(f)
  <2>1. ASSUME NEW k \in 1 .. n PROVE f[k] = entity_load_native(f[k - 1], names[k])
    <3>1. k - 1 \in 0 .. n
      BY <1>0
    <3>2. f[k - 1] \in Lists
      BY <3>1
    <3> QED BY <3>2, <1>5
  <2>2. f = [k \in 0 .. n |-> f[k]]
    OBVIOUS
  <2>3. \A k \in 0 .. n : k # 0 => k \in 1 .. n
    BY <1>0
  <2>4. ASSUME NEW k \in 0 .. n PROVE f[k] = IF k = 0 THEN native ELSE entity_load_native(f[k - 1], names[k])
    BY <2>1, <2>3, <1>5
  <2> QED BY <2>2, <2>4
<1>7. Fix(W)
  <2> HIDE DEF Fix
  <2> QED BY <1>6
<1> HIDE DEF W
<1>8. W[0] = native /\ \A k \in 1 .. n : W[k] = entity_load_native(W[k - 1], names[k])
  <2>1. 0 \in 0 .. n /\ \A k \in 1 .. n : k \in 0 .. n /\ k # 0
    BY <1>0
  <2>2. \A k \in 0 .. n : W[k] = IF k = 0 THEN native ELSE entity_load_native(W[k - 1], names[k])
    BY <1>7
  <2> QED BY <2>1, <2>2
<1> DEFINE T == {k \in 0 .. n : W[k] \in Lists}
<1>9. 0 \in T
  <2>1. 0 \in 0 .. n
    BY <1>0
  <2> QED BY <2>1, <1>3, <1>8
<1>10. ASSUME NEW k \in 1 .. n, k - 1 \in T PROVE k \in T
  BY <1>2, <1>8, <1>10
<1>11. W[n] \in Lists
  <2> HIDE DEF T
  <2>1. \A k \in 0 .. n : k \in T
    BY <1>0, <1>9, <1>10, UpTo
  <2> QED BY <2>1, <1>0 DEF T
<1> QED BY <1>1, <1>11 DEF Lists

\* What is posted gets its prefix.
LEMMA Classified ==
  ASSUME NEW nat, NEW id \in HttpIds
  PROVE  entity_classify(nat, id) \in Ids /\ Storable(entity_classify(nat, id))
<1>1. id \in [pfx : Reserved \cup {"bare"}, key : Keys]
  BY FlowAssumption
<1>2. id \in Ids /\ id.key \in Keys
  BY <1>1 DEF Ids, EntityPrefixes, Reserved
<1>3. Id("pub", id.key) \in Ids /\ Id("own", id.key) \in Ids
  BY <1>2 DEF Id, Ids, EntityPrefixes
<1> DEFINE named == IF id.pfx # "bare" THEN id
                    ELSE Id(IF entity_is_native(nat, id.key) THEN "pub" ELSE "own", id.key)
<1>4. named \in Ids
  BY <1>2, <1>3
<1>5. entity_classify(nat, id) = IdCut[named]
  BY DEF entity_classify
<1> HIDE DEF named
<1>6. IdCut[named] \in Ids /\ IdCut[IdCut[named]] = IdCut[named]
  BY <1>4, CutAssumption
<1> QED BY <1>5, <1>6 DEF Storable

\* Writes made one by one from what a message lists.
LEMMA ManyWrites ==
  ASSUME NEW S, NEW items \in Seq(S), NEW F, \A x \in S : F[x] \in Writes
  PROVE  [i \in DOMAIN items |-> F[items[i]]] \in Seq(Writes)
<1>1. Len(items) \in Nat /\ DOMAIN items = 1 .. Len(items)
  BY LenProperties
<1>2. \A i \in 1 .. Len(items) : F[items[i]] \in Writes
  BY ElementOfSeq
<1>3. [i \in 1 .. Len(items) |-> F[items[i]]] \in Seq(Writes)
  BY <1>1, <1>2
<1> QED BY <1>1, <1>3

-----------------------------------------------------------------------------
(* The steps.                                                              *)

\* The parts of the invariant.
LEMMA Whole ==
  ASSUME DataInv', SenderInv', SubInv'
  PROVE  DfInv'
BY DEF DfInv

\* A step that writes entities and leaves the map alone.
LEMMA TakenStep ==
  ASSUME DfInv, NEW items \in Seq(Writes), NEW ask \in BOOLEAN, TakeItems(items, ask),
         UNCHANGED subVars
  PROVE  DfInv' /\ OnlyOldestLost
<1>1. DataInv /\ SenderInv /\ SubInv
  BY DEF DfInv
<1>2. DataInv' /\ SenderInv' /\ OnlyOldestLost
  BY <1>1, TakenInv
<1>3. SubInv'
  BY <1>1, SubStays
<1> QED BY <1>2, <1>3, Whole

\* POST /data.
LEMMA PostedStep ==
  ASSUME DfInv, NEW id \in HttpIds, NEW val \in Values, Posted(id, val)
  PROVE  DfInv' /\ OnlyOldestLost
<1> DEFINE c == entity_classify(native, id)
<1>1. c \in Ids /\ Storable(c)
  BY Classified
<1>2. TakeItems(<<Write(c, val)>>, TRUE) /\ UNCHANGED subVars
  BY DEF Posted, handle_data_post
<1> HIDE DEF c
<1>3. <<Write(c, val)>> \in Seq(Writes)
  BY <1>1, OneWrite
<1> QED BY <1>2, <1>3, TakenStep

\* POST /data/batch with any number of items.
LEMMA PostedManyStep ==
  ASSUME DfInv, NEW items \in Seq([id : HttpIds, value : Values]), PostedMany(items)
  PROVE  DfInv' /\ OnlyOldestLost
<1> DEFINE S == [id : HttpIds, value : Values]
           F == [x \in S |-> Write(entity_classify(native, x.id), x.value)]
           many == [i \in DOMAIN items |-> Write(entity_classify(native, items[i].id), items[i].value)]
<1>1. \A x \in S : F[x] \in Writes
  <2> SUFFICES ASSUME NEW x \in S PROVE F[x] \in Writes
    OBVIOUS
  <2>1. entity_classify(native, x.id) \in Ids /\ Storable(entity_classify(native, x.id)) /\ x.value \in Values
    BY Classified
  <2>2. F[x] = Write(entity_classify(native, x.id), x.value)
    OBVIOUS
  <2> QED BY <2>1, <2>2 DEF Write, Writes
<1>2. \A i \in DOMAIN items : F[items[i]] = Write(entity_classify(native, items[i].id), items[i].value)
  <2>1. \A i \in DOMAIN items : items[i] \in S
    BY ElementOfSeq, LenProperties
  <2> QED BY <2>1
<1>3. many = [i \in DOMAIN items |-> F[items[i]]]
  BY <1>2
<1>4. [i \in DOMAIN items |-> F[items[i]]] \in Seq(Writes)
  <2> HIDE DEF F
  <2> QED BY <1>1, ManyWrites
<1>5. TakeItems(many, TRUE) /\ UNCHANGED subVars
  BY DEF PostedMany, handle_data_batch
<1> HIDE DEF many, F
<1> QED BY <1>3, <1>4, <1>5, TakenStep

\* What measurements and scripts store, one entity at a time.
LEMMA PushedStep ==
  ASSUME DfInv, NEW id \in Ids, Storable(id), NEW val \in Values, entity_pushed(id, val),
         UNCHANGED subVars
  PROVE  DfInv' /\ OnlyOldestLost
<1>1. TakeItems(<<Write(id, val)>>, FALSE)
  BY DEF entity_pushed
<1>2. <<Write(id, val)>> \in Seq(Writes)
  BY OneWrite
<1> QED BY <1>1, <1>2, TakenStep

\* The prefix a sender has is one an entity may have, and not reserved.
LEMMA PrefixOf ==
  ASSUME SubInv, NEW t
  PROVE  sub_map_get(t) \in EntityPrefixes \ Reserved
<1>1. SubPrefixes \cup {""} \subseteq EntityPrefixes \ Reserved /\ "sub" \in SubPrefixes
  BY FlowAssumption, SubAssumption DEF EntityPrefixes, Reserved
<1>2. CASE find_slot(t) = {}
  BY <1>1, <1>2 DEF sub_map_get
<1>3. CASE find_slot(t) # {}
  <2>1. map.prefix \in [Slots -> SubPrefixes \cup {""}]
    BY DEF SubInv, Maps
  <2>2. find_slot(t) \subseteq Nat
    <3>1. SUB_MAP_MAX \in Nat
      BY SubAssumption
    <3> QED BY <3>1 DEF find_slot, Slots
  <2>3. PICK i \in find_slot(t) : \A j \in find_slot(t) : i <= j
    BY <2>2, <1>3, SmallestOf
  <2>4. (CHOOSE k \in find_slot(t) : \A j \in find_slot(t) : k <= j) \in find_slot(t)
    BY <2>3
  <2>5. (CHOOSE k \in find_slot(t) : \A j \in find_slot(t) : k <= j) \in Slots
    BY <2>4 DEF find_slot
  <2>6. sub_map_get(t) = map.prefix[CHOOSE k \in find_slot(t) : \A j \in find_slot(t) : k <= j]
    BY <1>3 DEF sub_map_get
  <2> QED BY <2>1, <2>5, <2>6, <1>1
<1> QED BY <1>2, <1>3

\* A message of a remote node with any number of entities.
LEMMA RemoteStep ==
  ASSUME DfInv, NEW t, NEW data \in Seq([key : RemoteKeys, value : Values]),
         push_remote_entities(t, data)
  PROVE  DfInv' /\ OnlyOldestLost
<1> DEFINE S == [key : RemoteKeys, value : Values]
           pfx == sub_map_get(t)
           F == [d \in S |-> Write(Id(pfx, d.key), d.value)]
           many == [i \in DOMAIN data |-> Write(Id(pfx, data[i].key), data[i].value)]
<1>1. pfx \in EntityPrefixes \ Reserved
  BY PrefixOf DEF DfInv
<1>2. TakeItems(many, FALSE) /\ UNCHANGED subVars
  BY DEF push_remote_entities
<1> HIDE DEF pfx
<1>3. \A d \in S : F[d] \in Writes
  <2> SUFFICES ASSUME NEW d \in S PROVE F[d] \in Writes
    OBVIOUS
  <2>1. d.key \in Keys /\ d.value \in Values
    BY FlowAssumption
  <2>2. Id(pfx, d.key) \in Ids /\ Storable(Id(pfx, d.key))
    BY <1>1, <2>1 DEF Id, Ids, Storable
  <2>3. F[d] = Write(Id(pfx, d.key), d.value)
    OBVIOUS
  <2> QED BY <2>1, <2>2, <2>3 DEF Write, Writes
<1>4. \A i \in DOMAIN data : F[data[i]] = Write(Id(pfx, data[i].key), data[i].value)
  <2>1. \A i \in DOMAIN data : data[i] \in S
    BY ElementOfSeq, LenProperties
  <2> QED BY <2>1
<1>5. many = [i \in DOMAIN data |-> F[data[i]]]
  BY <1>4
<1>6. [i \in DOMAIN data |-> F[data[i]]] \in Seq(Writes)
  <2> HIDE DEF F
  <2> QED BY <1>3, ManyWrites
<1> HIDE DEF many, F
<1> QED BY <1>2, <1>5, <1>6, TakenStep

\* The worker's answer writes one entity or none.
LEMMA ScanStep ==
  ASSUME DfInv, NEW ok \in BOOLEAN, NEW val \in Values, ScanAnswered(ok, val)
  PROVE  DfInv' /\ OnlyOldestLost
<1> DEFINE items == IF ok THEN <<Write(Id("mon", BasicsKey), val)>> ELSE << >>
           st == PushAll(store, items)
<1>1. /\ store' = st /\ written' = Written(st, items)
      /\ scanning > 0 /\ scanning' = scanning - 1
      /\ unsent' = unsent \cap IdsIn(store')
      /\ native' = native /\ now' = now /\ since' = since /\ link' = link
      /\ g_pending_send' = g_pending_send /\ uplink' = uplink /\ UNCHANGED subVars
  BY DEF ScanAnswered, data_sender_on_net_result, StoreBecomes
<1>2. DataInv /\ SenderInv /\ SubInv
  BY DEF DfInv
<1>3. Sound(store) /\ now \in 0 .. SEC_WRAP - 1
  BY <1>2 DEF DataInv, SenderInv
<1>4. items \in Seq(Writes)
  <2>1. Id("mon", BasicsKey) \in Ids /\ Storable(Id("mon", BasicsKey))
    BY BasicsFit
  <2>2. <<Write(Id("mon", BasicsKey), val)>> \in Seq(Writes)
    BY <2>1, OneWrite
  <2>3. << >> \in Seq(Writes)
    BY EmptySeq
  <2> QED BY <2>2, <2>3
<1> HIDE DEF items
<1>5. /\ Sound(st)
      /\ LostFairly(store.pub, st.pub, ENTITY_PUB_MAX)
      /\ LostFairly(store.mon, st.mon, ENTITY_MON_MAX)
      /\ LostFairly(store.own, st.own, ENTITY_OWN_MAX)
  BY <1>3, <1>4, WritesLose
<1> HIDE DEF st
<1>6. DataInv'
  BY <1>1, <1>2, <1>3, <1>4, <1>5, Becomes DEF st
<1>7. OnlyOldestLost
  BY <1>1, <1>3, <1>5, FairLoss
<1>8. scanning' \in 0 .. MaxScans
  <2>1. scanning \in 0 .. MaxScans /\ MaxScans \in Nat
    BY <1>2, SenderAssumption DEF SenderInv
  <2> QED BY <1>1, <2>1
<1>9. unsent' \subseteq {id \in Ids : id.pfx = "pub"} /\ (unsent' # {} => unsent # {})
  BY <1>1, <1>2 DEF SenderInv
<1>10. SenderInv'
  BY <1>1, <1>2, <1>8, <1>9 DEF SenderInv
<1>11. SubInv'
  BY <1>1, <1>2, SubStays
<1> QED BY <1>6, <1>7, <1>10, <1>11, Whole

\* Steps that leave the store and its history alone.
LEMMA StoreKept ==
  ASSUME DfInv, store' = store, written' = written
  PROVE  DataInv' /\ OnlyOldestLost
<1>1. DataInv'
  BY DEF DfInv, DataInv
<1>2. Sound(store) /\ Sound(store') /\ now \in 0 .. SEC_WRAP - 1
  BY DEF DfInv, DataInv, SenderInv
<1>3. OnlyOldestLost
  BY <1>2, StoreStays
<1> QED BY <1>1, <1>3

\* The session comes up and brings the natives.
LEMMA SessionStep ==
  ASSUME DfInv, NEW names \in Seq(Keys), SessionReady(names)
  PROVE  DfInv' /\ OnlyOldestLost
<1>1. /\ on_identified(names) /\ UNCHANGED subVars /\ link' = "ws"
      /\ store' = store /\ written' = written /\ unsent' = unsent /\ now' = now
      /\ since' = since /\ g_pending_send' = g_pending_send /\ uplink' = uplink /\ scanning' = scanning
  BY DEF SessionReady, on_identified, dataVars, sendVars
<1>2. SenderInv /\ SubInv
  BY DEF DfInv
<1>3. native' \in Seq(Keys) /\ Len(native') <= NATIVE_MAX
  BY <1>1, <1>2, NativeLoaded DEF SenderInv
<1>4. SenderInv'
  BY <1>1, <1>2, <1>3 DEF SenderInv, Links
<1> QED BY <1>1, <1>2, <1>4, StoreKept, SubStays, Whole

\* The scripts are replaced and tmp is cleared.
LEMMA ScriptsStep ==
  ASSUME DfInv, ScriptsReplaced
  PROVE  DfInv' /\ OnlyOldestLost
<1> DEFINE st == entity_tmp_clear(store)
           none == << >>
<1>1. /\ store' = st /\ written' = Written(st, none) /\ UNCHANGED subVars
      /\ native' = native /\ now' = now /\ since' = since /\ link' = link /\ unsent' = unsent
      /\ g_pending_send' = g_pending_send /\ uplink' = uplink /\ scanning' = scanning
  BY DEF ScriptsReplaced, ScriptsReset, StoreBecomes, sendVars
<1>2. DataInv /\ SenderInv /\ SubInv
  BY DEF DfInv
<1>3. Sound(store) /\ now \in 0 .. SEC_WRAP - 1
  BY <1>2 DEF DataInv, SenderInv
<1>4. PushAll(store, none) = store /\ none \in Seq(Writes)
  BY <1>3, NothingWritten
<1>5. /\ Sound(st) /\ Held(st) \subseteq Held(store)
      /\ st.pub = store.pub /\ st.mon = store.mon /\ st.own = store.own
  BY <1>3, ClearIs
<1> HIDE DEF st, none
<1>6. DataInv'
  BY <1>1, <1>2, <1>3, <1>4, <1>5, Becomes
<1>7. OnlyOldestLost
  BY <1>1, <1>3, <1>5, StoreStays
<1>8. SenderInv'
  BY <1>1, <1>2 DEF SenderInv
<1> QED BY <1>1, <1>2, <1>6, <1>7, <1>8, SubStays, Whole

\* Time passes.
LEMMA TimeStep ==
  ASSUME DfInv, Time
  PROVE  DfInv' /\ OnlyOldestLost
<1>1. /\ now' = (now + 1) % SEC_WRAP
      /\ since' = [t \in Timers |-> IF since[t] < Interval[t] THEN since[t] + 1 ELSE since[t]]
      /\ store' = store /\ written' = written /\ unsent' = unsent /\ native' = native
      /\ g_pending_send' = g_pending_send /\ link' = link /\ uplink' = uplink /\ scanning' = scanning
      /\ UNCHANGED subVars
  BY DEF Time, TimePasses, dataVars
<1>2. SenderInv /\ SubInv
  BY DEF DfInv
<1>3. now' \in 0 .. SEC_WRAP - 1
  <2>1. now + 1 \in Nat /\ SEC_WRAP \in Nat \ {0}
    BY <1>2, Limits DEF SenderInv
  <2>2. (now + 1) % SEC_WRAP \in 0 .. SEC_WRAP - 1
    BY <2>1
  <2> QED BY <1>1, <2>2
<1>4. SinceOK(since')
  <2>1. since \in [Timers -> Nat] /\ \A t \in Timers : since[t] <= Interval[t]
    BY <1>2 DEF SenderInv, SinceOK
  <2>2. ASSUME NEW t \in Timers PROVE since'[t] \in Nat /\ since'[t] <= Interval[t]
    <3>1. since'[t] = IF since[t] < Interval[t] THEN since[t] + 1 ELSE since[t]
      BY <1>1
    <3>2. since[t] \in Nat /\ Interval[t] \in Nat /\ since[t] <= Interval[t]
      BY <2>1, Intervals
    <3> QED BY <3>1, <3>2
  <2>3. since' = [t \in Timers |-> since'[t]]
    BY <1>1
  <2> QED BY <2>2, <2>3 DEF SinceOK
<1>5. SenderInv'
  BY <1>1, <1>2, <1>3, <1>4 DEF SenderInv
<1> QED BY <1>1, <1>2, <1>5, StoreKept, SubStays, Whole

\* The link changes.
LEMMA LinkStep ==
  ASSUME DfInv, NEW l \in Links, Link(l)
  PROVE  DfInv' /\ OnlyOldestLost
<1>1. /\ link' = l /\ store' = store /\ written' = written /\ unsent' = unsent
      /\ native' = native /\ now' = now /\ since' = since /\ g_pending_send' = g_pending_send
      /\ uplink' = uplink /\ scanning' = scanning /\ UNCHANGED subVars
  BY DEF Link, LinkChanges, dataVars, sendVars
<1>2. SenderInv /\ SubInv
  BY DEF DfInv
<1>3. SenderInv'
  BY <1>1, <1>2 DEF SenderInv
<1> QED BY <1>1, <1>2, <1>3, StoreKept, SubStays, Whole

\* The radio has emptied its outbox.
LEMMA AiredStep ==
  ASSUME DfInv, Aired
  PROVE  DfInv' /\ OnlyOldestLost
<1>1. /\ uplink' = FALSE /\ store' = store /\ written' = written /\ unsent' = unsent
      /\ native' = native /\ now' = now /\ since' = since /\ g_pending_send' = g_pending_send
      /\ link' = link /\ scanning' = scanning /\ UNCHANGED subVars
  BY DEF Aired, UplinkDone, dataVars
<1>2. SenderInv /\ SubInv
  BY DEF DfInv
<1>3. SenderInv'
  BY <1>1, <1>2 DEF SenderInv
<1> QED BY <1>1, <1>2, <1>3, StoreKept, SubStays, Whole

\* A pass of the sender.
LEMMA TickStep ==
  ASSUME DfInv, NEW val \in Values, NEW queued \in BOOLEAN, NEW taken \in BOOLEAN,
         Ticked(val, queued, taken)
  PROVE  DfInv' /\ OnlyOldestLost
<1>1. data_sender_tick(val, queued, taken) /\ UNCHANGED subVars
  BY DEF Ticked
<1>2. DataInv /\ SenderInv /\ SubInv
  BY DEF DfInv
<1>3. DataInv' /\ SenderInv' /\ OnlyOldestLost
  BY <1>1, <1>2, TickInv
<1> QED BY <1>1, <1>2, <1>3, SubStays, Whole

\* Steps of the map alone.
LEMMA SenderKept ==
  ASSUME DfInv, UNCHANGED dsVars
  PROVE  DataInv' /\ SenderInv' /\ OnlyOldestLost
<1>1. /\ store' = store /\ written' = written /\ unsent' = unsent
      /\ native' = native /\ now' = now /\ since' = since /\ g_pending_send' = g_pending_send
      /\ link' = link /\ uplink' = uplink /\ scanning' = scanning
  BY DEF dsVars
<1>2. SenderInv'
  BY <1>1 DEF DfInv, SenderInv
<1> QED BY <1>1, <1>2, StoreKept

\* Power fails: the store starts anew, the map is read from NVS.
LEMMA RestartStep ==
  ASSUME DfInv, NEW val \in Values, Restarted(val)
  PROVE  DfInv'
<1>1. /\ sub_map_init
      /\ store' = entity_push(entity_store_init, << >>, Id("mon", BasicsKey), val, 0)
      /\ written' = [id \in {Id("mon", BasicsKey)} |-> val]
      /\ native' = << >> /\ now' = 0 /\ since' = SinceBoot
      /\ g_pending_send' = FALSE /\ link' = "none" /\ uplink' = FALSE
      /\ scanning' = 0 /\ unsent' = {}
  BY DEF Restarted
<1>2. SubInv'
  BY <1>1, SubRestartInv DEF DfInv
<1>3. DataInv'
  BY <1>1, Booted DEF DataInv
<1>4. SenderInv'
  <2>1. << >> \in Seq(Keys) /\ Len(<< >>) = 0 /\ 0 <= NATIVE_MAX /\ 0 \in 0 .. SEC_WRAP - 1
        /\ 0 \in 0 .. MaxScans
    BY Limits, EmptySeq, SenderAssumption
  <2>2. native' \in Seq(Keys) /\ Len(native') <= NATIVE_MAX
    BY <1>1, <2>1
  <2> QED BY <1>1, <2>1, <2>2, BootStamps DEF SenderInv, Links
<1> QED BY <1>2, <1>3, <1>4, Whole

\* What comes from outside and from the scripts.
LEMMA FedStep ==
  ASSUME DfInv, Fed(Ids, Values, << >>)
  PROVE  DfInv' /\ OnlyOldestLost
<1>1. CASE \E id \in HttpIds, v \in Values : Posted(id, v)
  BY <1>1, PostedStep
<1>2. ASSUME NEW i1 \in HttpIds, NEW i2 \in HttpIds, NEW v \in Values,
             PostedMany(<<Write(i1, v), Write(i2, v)>>)
      PROVE  DfInv' /\ OnlyOldestLost
  <2> DEFINE two == <<Write(i1, v), Write(i2, v)>>
  <2>1. two \in Seq([id : HttpIds, value : Values])
    <3>1. Write(i1, v) \in [id : HttpIds, value : Values] /\ Write(i2, v) \in [id : HttpIds, value : Values]
      BY DEF Write
    <3> QED BY <3>1
  <2> HIDE DEF two
  <2>2. PostedMany(two)
    BY <1>2 DEF two
  <2> QED BY <2>1, <2>2, PostedManyStep
<1>3. CASE \E id \in ScriptIds, v \in Values : ScriptStored(id, v)
  <2>1. PICK id \in ScriptIds, v \in Values : ScriptStored(id, v)
    BY <1>3
  <2>2. id \in Ids /\ Storable(id)
    BY FlowAssumption DEF Storable
  <2> QED BY <2>1, <2>2, PushedStep DEF ScriptStored
<1>4. CASE SessionReady(<< >>)
  <2> DEFINE none == << >>
  <2>1. none \in Seq(Keys)
    BY EmptySeq
  <2>2. SessionReady(none)
    BY <1>4
  <2> HIDE DEF none
  <2> QED BY <2>1, <2>2, SessionStep
<1>5. CASE ScriptsReplaced
  BY <1>5, ScriptsStep
<1> QED BY <1>1, <1>2, <1>3, <1>4, <1>5 DEF Fed

\* What loop() does by itself.
LEMMA ServedStep ==
  ASSUME DfInv, Served(Values)
  PROVE  DfInv' /\ OnlyOldestLost
<1>1. CASE \E v \in Values, q, t \in BOOLEAN : Ticked(v, q, t)
  BY <1>1, TickStep
<1>2. CASE \E ok \in BOOLEAN, v \in Values : ScanAnswered(ok, v)
  BY <1>2, ScanStep
<1>3. CASE \E v \in Values : Measured(v)
  <2>1. PICK v \in Values : Measured(v)
    BY <1>3
  <2>2. Id("mon", BasicsKey) \in Ids /\ Storable(Id("mon", BasicsKey))
    BY BasicsFit
  <2> QED BY <2>1, <2>2, PushedStep DEF Measured
<1>4. CASE Time
  BY <1>4, TimeStep
<1>5. CASE Aired
  BY <1>5, AiredStep
<1> QED BY <1>1, <1>2, <1>3, <1>4, <1>5 DEF Served

\* What remote nodes cause, and the power failing.
LEMMA RemotesStep ==
  ASSUME DfInv, Remote(Keys, Values)
  PROVE  DfInv' /\ ((\E v \in Values : Restarted(v)) \/ OnlyOldestLost)
<1>1. ASSUME NEW t \in Targets, NEW k \in RemoteKeys, NEW v \in Values,
             push_remote_entities(t, <<[key |-> k, value |-> v]>>)
      PROVE  DfInv' /\ OnlyOldestLost
  <2> DEFINE one == <<[key |-> k, value |-> v]>>
  <2>1. one \in Seq([key : RemoteKeys, value : Values])
    OBVIOUS
  <2>2. push_remote_entities(t, one)
    BY <1>1
  <2> HIDE DEF one
  <2> QED BY <2>1, <2>2, RemoteStep
<1>2. ASSUME NEW t \in Targets, NEW p \in SubPrefixes, Subscribed(t, p)
      PROVE  DfInv' /\ OnlyOldestLost
  <2>1. sub_map_set(t, p) /\ UNCHANGED dsVars
    BY <1>2 DEF Subscribed
  <2>2. SubInv'
    BY <2>1, SubSetInv DEF DfInv
  <2> QED BY <2>1, <2>2, SenderKept, Whole
<1>3. ASSUME Saved
      PROVE  DfInv' /\ OnlyOldestLost
  <2>1. FieldSaved /\ UNCHANGED dsVars
    BY <1>3 DEF Saved
  <2>2. SubInv'
    BY <2>1, SubSavedInv DEF DfInv
  <2> QED BY <2>1, <2>2, SenderKept, Whole
<1>4. CASE \E v \in Values : Restarted(v)
  BY <1>4, RestartStep
<1> QED BY <1>1, <1>2, <1>3, <1>4 DEF Remote

\* Every step of the node keeps the invariant, and takes no entity of a table
\* but the ones that may go.
LEMMA FlowStep ==
  ASSUME DfInv, [DfNext]_dfVars
  PROVE  DfInv' /\ ((\E v \in Values : Restarted(v)) \/ OnlyOldestLost)
<1>1. CASE Fed(Ids, Values, << >>)
  BY <1>1, FedStep
<1>2. CASE \E items \in Seq([id : HttpIds, value : Values]) : PostedMany(items)
  BY <1>2, PostedManyStep
<1>3. CASE \E names \in Seq(Keys) : SessionReady(names)
  BY <1>3, SessionStep
<1>4. CASE LinkMoves(Links)
  BY <1>4, LinkStep DEF LinkMoves
<1>5. CASE Served(Values)
  BY <1>5, ServedStep
<1>6. CASE \E t \in Targets, data \in Seq([key : RemoteKeys, value : Values]) :
              push_remote_entities(t, data)
  BY <1>6, RemoteStep
<1>7. CASE Remote(Keys, Values)
  BY <1>7, RemotesStep
<1>8. CASE UNCHANGED dfVars
  <2>1. UNCHANGED dsVars /\ UNCHANGED subVars
    BY <1>8 DEF dfVars
  <2>2. SubInv'
    BY <2>1, SubStays DEF DfInv
  <2> QED BY <2>1, <2>2, SenderKept, Whole
<1> QED BY <1>1, <1>2, <1>3, <1>4, <1>5, <1>6, <1>7, <1>8 DEF DfNext

\* The types.
LEMMA ShapeOfSound ==
  ASSUME DfInv
  PROVE  DsTypeOK
<1>1. Sound(store) /\ SenderInv
  BY DEF DfInv, DataInv
<1>2. StoreShape(store)
  BY <1>1 DEF Sound, TableOK, RingOK, StoreShape
<1>3. ASSUME NEW t \in Timers PROVE since[t] \in 0 .. Interval[t]
  <2>1. since[t] \in Nat /\ Interval[t] \in Nat /\ since[t] <= Interval[t]
    BY <1>1, Intervals DEF SenderInv, SinceOK
  <2> QED BY <2>1
<1>4. unsent \subseteq Ids
  BY <1>1 DEF SenderInv
<1> QED BY <1>1, <1>2, <1>3, <1>4 DEF DsTypeOK, SenderInv

\* What the invariant says of the store is what StoreExact asks.
LEMMA ExactlyStored ==
  ASSUME DfInv
  PROVE  StoreExact
<1> DEFINE s == Searched(store)
<1>1. Sound(store) /\ Exact(store, written)
  BY DEF DfInv, DataInv
<1>2. OnceBut(Doubtful, s) /\ Ents(s) = Held(store)
  BY <1>1, SearchedIs
<1>3. ASSUME NEW i \in DOMAIN s, s[i].id \notin Doubtful
      PROVE  /\ find_entry(store, s[i].id) = {s[i]}
             /\ s[i].id \in DOMAIN written /\ s[i].value = ValueCut[written[s[i].id]]
  <2>1. find_entry(store, s[i].id) = {s[i]}
    BY <1>1, <1>3, FindIs
  <2> HIDE DEF s
  <2>2. s[i] \in Held(store)
    BY <1>2 DEF Ents
  <2> QED BY <2>1, <2>2, <1>1, <1>3 DEF Exact
<1>4. ASSUME NEW f \in {"pub", "mon", "own"}, NEW i \in DOMAIN store[f]
      PROVE  store[f][i].id.pfx = f
  <2>1. /\ \A x \in Ents(store["pub"]) : x.id.pfx = "pub"
        /\ \A x \in Ents(store["mon"]) : x.id.pfx = "mon"
        /\ \A x \in Ents(store["own"]) : x.id.pfx = "own"
    BY <1>1 DEF Sound, TableOK
  <2>2. store[f][i] \in Ents(store[f])
    BY DEF Ents
  <2> QED BY <2>1, <2>2
<1>5. DsTypeOK
  BY ShapeOfSound
<1> HIDE DEF s
<1>6. StoreExact
  BY <1>2, <1>3, <1>4, <1>5 DEF StoreExact, s
<1> QED BY <1>6

-----------------------------------------------------------------------------
(* What holds for ever.                                                    *)

\* Whatever is posted, measured, stored by scripts, received from remote nodes,
\* sent or lost with the power, in any order and any number: the store, its
\* history, the sender's flags and the subscription map stay as the invariant
\* says (entity_store.cpp, data_sender.cpp, subscription_map.cpp).
THEOREM FlowInvariant == DfSpec => []DfInv
<1>1. DfInit => DfInv
  BY DfInitInv
<1>2. DfInv /\ [DfNext]_dfVars => DfInv'
  BY FlowStep
<1> QED BY <1>1, <1>2, PTL DEF DfSpec

\* Every entity is stored once, in the buffer of its prefix, with what fits of
\* the value it was given last, and find_entry finds it; but for the ids of the
\* pool that longer ones are cut down to (entity_store.cpp).
THEOREM StoreStaysExact == DfSpec => []StoreExact
<1>1. DfInv => StoreExact
  BY ExactlyStored
<1> QED BY <1>1, FlowInvariant, PTL

\* As long as a native entity posted from outside has left in no batch, the
\* sender knows a batch is owed (data_sender.cpp, send_batch).
THEOREM OwedStaysPending == DfSpec => []OwedIsPending
<1>1. DfInv => OwedIsPending
  BY DEF DfInv, SenderInv, OwedIsPending
<1> QED BY <1>1, FlowInvariant, PTL

\* A sender has one entry in the map at most, and the prefix chosen for it is
\* the one its data is stored under, whatever else is set and whenever the
\* power fails (subscription_map.cpp).
THEOREM PrefixesKept == DfSpec => []SubPrefixKept
<1>1. DfInv => SubPrefixKept
  BY OnePrefix DEF DfInv
<1> QED BY <1>1, FlowInvariant, PTL

\* But for a restart a table loses an entity only to expiry or, when it is
\* full, to a new one, and then the oldest goes (entity_store.cpp:156-165).
THEOREM OnlyOldestGoes == DfSpec => LostOnlyOldest
<1>1. DfInv /\ [DfNext]_dfVars =>
          [(\E v \in Values : Restarted(v)) \/ OnlyOldestLost]_dfVars
  BY FlowStep
<1> QED BY <1>1, FlowInvariant, PTL DEF DfSpec, LostOnlyOldest
=============================================================================
