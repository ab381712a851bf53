--------------------------- MODULE LoraLinkProofs ---------------------------
(***************************************************************************)
(* Proofs about LoraLink, for any regions with their envelopes, sub-bands  *)
(* and limits, any plans a backend may bring, any number of channels, any  *)
(* length of a minute and of a batch: the radio serves a legal plan, the   *)
(* link is on as it is wished, the budget of airtime is kept, and batches  *)
(* go out whole.                                                           *)
(***************************************************************************)
EXTENDS LoraLink, TLAPS, WellFoundedInduction

-----------------------------------------------------------------------------
(* What plan_sanitize returns. *)

\* What is kept of the first n channels, by what is kept of fewer.
KeptStep(plan, r, f, n) ==
    IF n = 0 THEN <<>>
    ELSE IF Keeps(plan[n], r) THEN Append(f[n-1], plan[n]) ELSE f[n-1]

\* Channels the region permits or that are only listened to.
Permitted(plan, r) == \A i \in DOMAIN plan : Keeps(plan[i], r)

\* A set of numbers has a least one.
LEMMA LeastNumber ==
  ASSUME NEW S \in SUBSET Nat, S # {}
  PROVE  \E x \in S : \A y \in S : x <= y
<1>1. PICK x \in S : \A y \in S : ~(<<y, x>> \in OpToRel(<, Nat))
  BY WFMin, NatLessThanWellFounded
<1>2. ASSUME NEW y \in S PROVE x <= y
  <2>1. ~(y < x)
    BY <1>1 DEF OpToRel
  <2>2. x \in Nat /\ y \in Nat
    OBVIOUS
  <2> QED BY <2>1, <2>2
<1> QED BY <1>2

\* The recursion of Kept has a solution over every initial part of a plan.
LEMMA KeptDefined ==
  ASSUME NEW r, NEW plan \in Seq(Channels), NEW m \in 0..Len(plan)
  PROVE  \E f : f = [n \in 0..m |-> KeptStep(plan, r, f, n)]
<1> DEFINE P(k) == \E f : f = [n \in 0..k |-> KeptStep(plan, r, f, n)]
<1> DEFINE Bad == {k \in Nat : ~P(k)}
<1>0. SUFFICES ASSUME Bad # {} PROVE FALSE
  BY DEF P
<1>1. PICK k \in Bad : \A j \in Bad : k <= j
  BY <1>0, LeastNumber
<1>2. k # 0
  <2> DEFINE g == [n \in 0..0 |-> <<>>]
  <2>1. g = [n \in 0..0 |-> KeptStep(plan, r, g, n)]
    BY DEF KeptStep
  <2>2. P(0)
    BY <2>1
  <2> QED BY <2>2
<1>3. k \in Nat /\ k - 1 \in Nat /\ k - 1 \notin Bad
  BY <1>1, <1>2
<1>4. PICK f : f = [n \in 0..(k-1) |-> KeptStep(plan, r, f, n)]
  BY <1>3
<1> DEFINE g == [n \in 0..k |-> IF n = k THEN KeptStep(plan, r, f, n) ELSE f[n]]
<1>5. g = [n \in 0..k |-> KeptStep(plan, r, g, n)]
  <2>1. ASSUME NEW n \in 0..k PROVE g[n] = KeptStep(plan, r, g, n)
    <3>1. n # 0 => n - 1 \in 0..k /\ n - 1 # k /\ g[n-1] = f[n-1]
      BY <1>3
    <3>2. n # k => f[n] = KeptStep(plan, r, f, n)
      <4>1. n # k => n \in 0..(k-1)
        BY <1>3
      <4>2. \A i \in 0..(k-1) : f[i] = KeptStep(plan, r, f, i)
        BY <1>4
      <4> QED BY <4>1, <4>2
    <3>3. g[n] = KeptStep(plan, r, f, n)
      BY <3>2
    <3>4. KeptStep(plan, r, f, n) = KeptStep(plan, r, g, n)
      BY <3>1 DEF KeptStep
    <3> QED BY <3>3, <3>4
  <2> HIDE DEF g
  <2>2. g = [n \in 0..k |-> g[n]]
    BY DEF g
  <2> QED BY <2>1, <2>2
<1>6. P(k)
  BY <1>5
<1> QED BY <1>6

\* plan_sanitize keeps no more channels than there are, and only such as the
\* region permits or that are listened to.
LEMMA KeptPermitted ==
  ASSUME NEW r, NEW plan \in Seq(Channels)
  PROVE  /\ Kept(plan, r) \in Seq(Channels)
         /\ Len(Kept(plan, r)) <= Len(plan)
         /\ Permitted(Kept(plan, r), r)
<1> DEFINE Fix(f) == f = [n \in 0..Len(plan) |-> KeptStep(plan, r, f, n)]
<1> DEFINE K == CHOOSE f : Fix(f)
<1>1. Fix(K)
  <2>1. Len(plan) \in 0..Len(plan)
    OBVIOUS
  <2>2. \E f : Fix(f)
    BY <2>1, KeptDefined
  <2> QED BY <2>2
<1>2. Kept(plan, r) = K[Len(plan)]
  BY DEF Kept, KeptStep
<1> HIDE DEF K
<1> DEFINE Good(n) == /\ K[n] \in Seq(Channels) /\ Len(K[n]) <= n
                      /\ Permitted(K[n], r)
<1> DEFINE Bad == {n \in 0..Len(plan) : ~Good(n)}
<1>3. Bad = {}
  <2>1. SUFFICES ASSUME Bad # {} PROVE FALSE
    OBVIOUS
  <2>2. PICK n \in Bad : \A j \in Bad : n <= j
    <3>1. Bad \in SUBSET Nat
      OBVIOUS
    <3> QED BY <3>1, <2>1, LeastNumber
  <2>3. n \in 0..Len(plan) /\ K[n] = KeptStep(plan, r, K, n) /\ ~Good(n)
    BY <1>1
  <2>4. n # 0
    <3>0. SUFFICES ASSUME n = 0 PROVE Good(n)
      BY <2>3
    <3>1. K[n] = <<>>
      BY <3>0, <2>3 DEF KeptStep
    <3>2. <<>> \in Seq(Channels) /\ Len(<<>>) = 0 /\ DOMAIN <<>> = {}
      OBVIOUS
    <3>3. Permitted(<<>>, r)
      BY <3>2 DEF Permitted
    <3>4. K[n] \in Seq(Channels) /\ Permitted(K[n], r)
      BY <3>1, <3>2, <3>3
    <3>5. Len(K[n]) = 0
      BY <3>1, <3>2
    <3> QED BY <3>0, <3>4, <3>5
  <2>5. n - 1 \in 0..Len(plan) /\ Good(n - 1)
    BY <2>2, <2>3, <2>4
  <2>6. plan[n] \in Channels
    BY <2>3, <2>4
  <2>7. CASE Keeps(plan[n], r)
    <3>1. K[n] = Append(K[n-1], plan[n])
      BY <2>3, <2>4, <2>7 DEF KeptStep
    <3>2. K[n] \in Seq(Channels) /\ Len(K[n]) = Len(K[n-1]) + 1
      BY <3>1, <2>5, <2>6
    <3>3. ASSUME NEW i \in DOMAIN K[n] PROVE Keeps(K[n][i], r)
      <4>1. i \in 1..(Len(K[n-1]) + 1)
        BY <3>2
      <4>2. CASE i = Len(K[n-1]) + 1
        <5>1. K[n][i] = plan[n]
          BY <4>2, <3>1, <2>5, <2>6
        <5> QED BY <5>1, <2>7
      <4>3. CASE i # Len(K[n-1]) + 1
        <5>1. i \in DOMAIN K[n-1] /\ K[n][i] = K[n-1][i]
          BY <4>1, <4>3, <3>1, <2>5, <2>6
        <5> QED BY <5>1, <2>5 DEF Permitted
      <4> QED BY <4>2, <4>3
    <3>4. Good(n)
      BY <3>2, <3>3, <2>3, <2>5 DEF Permitted
    <3> QED BY <3>4, <2>3
  <2>8. CASE ~Keeps(plan[n], r)
    <3>1. K[n] = K[n-1]
      BY <2>3, <2>4, <2>8 DEF KeptStep
    <3>2. Good(n)
      BY <3>1, <2>5, <2>3
    <3> QED BY <3>2, <2>3
  <2> QED BY <2>7, <2>8
<1>4. Good(Len(plan))
  BY <1>3
<1> QED BY <1>2, <1>4

\* A plan a node may work with in region r.
LegalPlan(plan, r) ==
    /\ plan \in Seq(Channels) /\ Len(plan) \in Slots
    /\ Permitted(plan, r)
    /\ Transmits(plan, r)

LEMMA DefaultLegal ==
  ASSUME NEW r \in Regions
  PROVE  /\ DefaultCh(r) \in Channels /\ TxAllowed(DefaultCh(r), r)
         /\ LegalPlan(<<DefaultCh(r)>>, r)
<1>1. DefaultCh(r) \in Channels /\ TxAllowed(DefaultCh(r), r)
  BY PlanAssumption DEF DefaultCh, Channels, TxAllowed
<1>2. Keeps(DefaultCh(r), r)
  BY <1>1 DEF TxAllowed, Keeps
<1>3. LORA_LINK_MAX_CH \in Nat /\ 1 \in Slots
  BY PlanAssumption DEF Slots
<1> HIDE DEF Channels
<1>4. <<DefaultCh(r)>> \in Seq(Channels) /\ Len(<<DefaultCh(r)>>) = 1
  BY <1>1
<1>5. DOMAIN <<DefaultCh(r)>> = {1} /\ <<DefaultCh(r)>>[1] = DefaultCh(r)
  OBVIOUS
<1> QED BY <1>1, <1>2, <1>3, <1>4, <1>5 DEF LegalPlan, Permitted, Transmits

\* Whatever the plan, plan_sanitize leaves one the node may work with: no
\* channel to transmit on that the region forbids, at least one it permits, and
\* no more than s_link.ch holds.
LEMMA SanitizedLegal ==
  ASSUME NEW r \in Regions, NEW plan \in Seq(Channels), Len(plan) \in Slots
  PROVE  LegalPlan(Sanitized(plan, r), r)
<1> DEFINE kept == Kept(plan, r)
<1> DEFINE d == DefaultCh(r)
<1>1. kept \in Seq(Channels) /\ Len(kept) <= LORA_LINK_MAX_CH /\ Permitted(kept, r)
  <2>1. Len(kept) \in Nat /\ Len(plan) <= LORA_LINK_MAX_CH
    BY KeptPermitted DEF Slots
  <2> QED BY <2>1, KeptPermitted, PlanAssumption
<1>2. d \in Channels /\ TxAllowed(d, r) /\ Keeps(d, r)
  BY DefaultLegal DEF TxAllowed, Keeps
<1> HIDE DEF kept, d
<1>3. CASE Transmits(kept, r)
  <2>1. kept # <<>>
    BY <1>3, <1>1 DEF Transmits
  <2>2. Len(kept) \in Slots
    BY <2>1, <1>1, PlanAssumption DEF Slots
  <2>3. Sanitized(plan, r) = kept
    BY <1>3 DEF Sanitized, kept
  <2> QED BY <1>1, <1>3, <2>2, <2>3 DEF LegalPlan
<1>4. CASE ~Transmits(kept, r)
  <2> DEFINE base == IF Len(kept) >= LORA_LINK_MAX_CH
                     THEN SubSeq(kept, 1, LORA_LINK_MAX_CH - 1) ELSE kept
  <2>1. Sanitized(plan, r) = Append(base, d)
    BY <1>4 DEF Sanitized, WithDefault, kept, d
  <2>2. /\ base \in Seq(Channels) /\ Len(base) \in 0..(LORA_LINK_MAX_CH - 1)
        /\ \A i \in 1..Len(base) : i \in 1..Len(kept) /\ base[i] = kept[i]
    BY <1>1, PlanAssumption
  <2> HIDE DEF base
  <2> DEFINE new == Append(base, d)
  <2>3. new \in Seq(Channels) /\ Len(new) = Len(base) + 1
    BY <2>2, <1>2
  <2>4. Len(new) \in Slots
    BY <2>2, <2>3, PlanAssumption DEF Slots
  <2>5. new[Len(new)] = d /\ Len(new) \in DOMAIN new
    BY <2>2, <2>3, <1>2
  <2>6. ASSUME NEW i \in DOMAIN new PROVE Keeps(new[i], r)
    <3>1. i \in 1..(Len(base) + 1)
      BY <2>3
    <3>2. CASE i \in 1..Len(base)
      <4>1. new[i] = base[i]
        BY <3>2, <2>2, <1>2
      <4>2. i \in DOMAIN kept /\ base[i] = kept[i]
        BY <3>2, <2>2, <1>1
      <4> QED BY <4>1, <4>2, <1>1 DEF Permitted
    <3>3. CASE i \notin 1..Len(base)
      <4>1. i = Len(new)
        BY <3>1, <3>3, <2>2, <2>3
      <4> QED BY <4>1, <2>5, <1>2
    <3> QED BY <3>2, <3>3
  <2>7. Transmits(new, r)
    BY <2>5, <1>2 DEF Transmits
  <2> QED BY <2>1, <2>3, <2>4, <2>6, <2>7 DEF LegalPlan, Permitted
<1> QED BY <1>3, <1>4

-----------------------------------------------------------------------------
(* The inductive invariant. *)

Frames == [kind : {"none", "beacon", "up", "mesh"}, band : Bands]
Queues == [pending : BOOLEAN, frag : 0..(NFrag - 1), seq : Nat, batch : Nat]

Places == {"idle", "sanitize", "order", "clear", "apply", "retune", "fallback", "raise"}
Passes == {"top", "job", "bg", "warm", "failed", "air", "debit", "restore"}
Tunings == Channels \cup {MeshCh(r) : r \in Regions} \cup {Off, Scanning}

PlanTyped ==
    region \in Regions /\ nCh \in 0..LORA_LINK_MAX_CH /\ chans \in [Slots -> Channels]
FlagsTyped ==
    /\ fromBE \in BOOLEAN /\ on \in BOOLEAN /\ beOn \in BOOLEAN /\ fbOn \in BOOLEAN
    /\ wifi \in BOOLEAN /\ want \in BOOLEAN /\ meshOn \in BOOLEAN /\ broken \in BOOLEAN
    /\ touched \in BOOLEAN
ControlTyped == lpc \in Places /\ pc \in Passes /\ jobs \in 0..2
TuningTyped ==
    /\ cur \in 0..LORA_LINK_MAX_CH /\ idx \in 0..LORA_LINK_MAX_CH
    /\ radio \in Tunings /\ fails \in 0..LORA_CFG_FAIL_MAX
CountersTyped ==
    /\ used \in [Bands -> Nat] /\ hourOf \in [Bands -> Nat] /\ aired \in [Bands -> Nat]
    /\ frame \in Frames /\ old \in Nat /\ time \in Nat
QueuesTyped == up \in Queues /\ mesh \in Queues /\ batches \in Nat

Typed ==
    /\ PlanTyped /\ FlagsTyped /\ ControlTyped /\ TuningTyped /\ CountersTyped
    /\ QueuesTyped

\* The link serves both wishes whenever no order is half carried out; during
\* the other changes it is known who wishes it.
IntentKept ==
    /\ lpc \in {"idle", "clear", "apply", "retune"} => (on = (beOn \/ fbOn))
    /\ lpc \in {"fallback", "raise"} => fbOn

\* The plan is legal except between a write of plan or region and the call that
\* makes the plan fit.
PlanFits ==
    /\ lpc \notin {"sanitize", "clear", "apply"} /\ nCh > 0 => LegalPlan(Plan, region)
    /\ lpc = "sanitize" => nCh > 0

\* Where the radio stands while a frame of SENSMOS is sent and between frames.
Standing ==
    (lpc = "idle" /\ on /\ cur # 0) =>
        /\ pc # "bg"
        /\ (pc = "top" \/ (pc \in {"air", "debit"} /\ frame.kind # "mesh"))
               => (radio = chans[cur] \/ lost \/ unrestored \/ fails > 0)

\* A retune under way goes to the channel it will say it is on.
Tuning == pc \in {"warm", "failed"} =>
    idx \in Slots /\ (pc = "warm" => (radio = chans[idx] \/ touched))

\* From a mesh frame the radio returns to the channel the task was on.
WayBack ==
    (pc = "restore" \/ (pc \in {"air", "debit"} /\ frame.kind = "mesh"))
        => idx \in Slots /\ cur \in {0, idx}

\* The history of a retune or of a frame begins with it.
Fresh == pc \notin {"warm", "failed", "air"} => ~touched

RadioKnown == Fresh /\ Standing /\ Tuning /\ WayBack

\* What was on the air is counted, but for the frame that is being counted;
\* what may go on the air is within the budget.
Counted ==
    /\ \A b \in Bands : (pc = "debit" /\ b = frame.band) \/ aired[b] <= Rolled(b)
    /\ pc = "air" =>
          /\ touched => aired[frame.band] = 0
          /\ ~touched => hourOf[frame.band] = Minute
          /\ ~touched /\ lpc # "clear"
                 => aired[frame.band] + 1 <= Limit[region][frame.band]
    /\ pc = "debit" =>
          \/ aired[frame.band] = 0
          \/ /\ hourOf[frame.band] = Minute /\ used[frame.band] = old
             /\ aired[frame.band] <= old + 1

WithinBudget == lpc # "clear" => \A b \in Bands : aired[b] <= Limit[region][b]

\* The frames S of the batches of path k, with q in flight: of every earlier
\* batch all frames, of this one those before q.frag and perhaps that one.
Has(S, k, n, i) == \E x \in S : x.kind = k /\ x.seq = n /\ x.frag = i
Whole(k, q, S) ==
    /\ \A s \in S : s.kind = k => s.seq <= q.seq
    /\ \A s, x \in S : s.kind = k /\ x.kind = k /\ s.seq = x.seq => s.batch = x.batch
    /\ \A n \in 0..(q.seq - 1), i \in 0..(NFrag - 1) : Has(S, k, n, i)
    /\ \A i \in 0..(q.frag - 1) : Has(S, k, q.seq, i)
    /\ \A s \in S : s.kind = k /\ s.seq = q.seq
           => q.pending /\ s.batch = q.batch /\ s.frag <= q.frag
    /\ ~q.pending => q.frag = 0

SentFrames == [kind : {"up", "mesh"}, seq : Nat, frag : 0..(NFrag - 1), batch : Nat]

Dispatched ==
    /\ sent \subseteq SentFrames
    /\ Whole("up", up, sent) /\ Whole("mesh", mesh, sent)
    /\ pc \in {"air", "debit"} /\ frame.kind = "up" => up.pending
    /\ pc = "debit" /\ frame.kind = "up" => Has(sent, "up", up.seq, up.frag)
    /\ pc = "air" /\ frame.kind = "mesh" => mesh.pending

LinkInv ==
    /\ Typed /\ IntentKept /\ PlanFits /\ RadioKnown /\ Counted /\ WithinBudget
    /\ Dispatched

-----------------------------------------------------------------------------
(* Lemmas about the steps. *)

LEMMA PlanRead ==
  ASSUME Typed, nCh > 0
  PROVE  Plan \in Seq(Channels) /\ Len(Plan) = nCh /\ Len(Plan) \in Slots
         /\ \A i \in 1..nCh : i \in Slots /\ Plan[i] = chans[i]
<1>1. nCh \in 1..LORA_LINK_MAX_CH /\ chans \in [1..LORA_LINK_MAX_CH -> Channels]
  BY PlanAssumption DEF Typed, PlanTyped, Slots
<1>2. LORA_LINK_MAX_CH \in Nat
  BY PlanAssumption
<1>3. chans \in Seq(Channels) /\ Len(chans) = LORA_LINK_MAX_CH
  BY <1>1, <1>2
<1>4. Plan \in Seq(Channels) /\ Len(Plan) = nCh /\ \A i \in 1..nCh : Plan[i] = chans[i]
  BY <1>1, <1>2, <1>3 DEF Plan
<1> QED BY <1>1, <1>2, <1>4 DEF Slots

LEMMA PlanWritten ==
  ASSUME Typed, NEW p \in Seq(Channels), Len(p) \in Slots, WritePlan(p)
  PROVE  /\ nCh' \in 1..LORA_LINK_MAX_CH /\ chans' \in [Slots -> Channels]
         /\ Plan' = p
<1>1. nCh' = Len(p) /\ Len(p) \in 1..LORA_LINK_MAX_CH /\ LORA_LINK_MAX_CH \in Nat
  BY PlanAssumption DEF WritePlan, Slots
<1>2. chans' \in [1..LORA_LINK_MAX_CH -> Channels]
  BY <1>1 DEF WritePlan, Typed, PlanTyped, Slots
<1>3. chans' \in Seq(Channels) /\ Len(chans') = LORA_LINK_MAX_CH
  BY <1>1, <1>2
<1>4. \A i \in 1..Len(p) : chans'[i] = p[i]
  BY <1>1 DEF WritePlan, Slots
<1>5. Plan' \in Seq(Channels) /\ Len(Plan') = Len(p)
      /\ \A i \in 1..Len(p) : Plan'[i] = p[i]
  BY <1>1, <1>3, <1>4 DEF Plan
<1>6. Plan' = p
  BY <1>5
<1> QED BY <1>1, <1>2, <1>6 DEF Slots

\* Whatever the loop writes as a plan is legal, but for what lora_cfg brings.
LEMMA PlanMade ==
  ASSUME LinkInv
  PROVE  /\ lpc = "sanitize" => LegalPlan(Sanitized(Plan, region), region)
         /\ lpc = "apply" /\ nCh > 0 => LegalPlan(NewPlan, region)
         /\ lpc = "fallback" /\ nCh > 0 => LegalPlan(Sanitized(Plan, region), region)
<1>1. region \in Regions
  BY DEF LinkInv, Typed, PlanTyped
<1>2. ASSUME nCh > 0
      PROVE LegalPlan(Sanitized(Plan, region), region) /\ LegalPlan(NewPlan, region)
  <2>1. LegalPlan(Sanitized(Plan, region), region)
    BY <1>1, <1>2, PlanRead, SanitizedLegal DEF LinkInv
  <2>2. LegalPlan(<<DefaultCh(region)>>, region)
    BY <1>1, DefaultLegal
  <2> QED BY <2>1, <2>2 DEF NewPlan
<1> QED BY <1>2 DEF LinkInv, PlanFits

\* A retune chooses a channel of the plan.
LEMMA IdxInPlan ==
  ASSUME Typed, nCh > 0
  PROVE  Idx \in Slots /\ Idx \in 1..nCh
<1>1. time \in Nat /\ nCh \in Nat /\ nCh > 0 /\ nCh <= LORA_LINK_MAX_CH
  BY PlanAssumption DEF Typed, PlanTyped, CountersTyped
<1>2. time \div SecsPerMin \in Nat
  BY <1>1, LinkAssumption
<1>3. Minute \in Nat
  BY <1>2 DEF Minute
<1>4. Minute % nCh \in 0..(nCh - 1)
  BY <1>1, <1>3
<1> QED BY <1>1, <1>4, PlanAssumption DEF Idx, Slots

\* The type of where loop and task are.
LEMMA ControlStep ==
  ASSUME LinkInv, LinkNext
  PROVE  ControlTyped'
<1> USE DEF ControlTyped, Places, Passes
<1>0. ControlTyped
  BY DEF LinkInv, Typed
<1>1. CASE LinkSet \/ LinkSanitize \/ LinkOrder \/ RegionSet \/ RegionClear
           \/ RegionApply \/ RegionRetune \/ WifiChanges \/ FallbackOn \/ FallbackPlan
           \/ FallbackRaise \/ FallbackOff \/ SendBatch \/ MeshConfigure \/ Enqueue
           \/ JobStart \/ JobEnd \/ BgCycle \/ Retune \/ RetuneDone \/ RetuneFailed
           \/ Beacon \/ Uplink \/ MeshTx \/ Aired \/ AirFails \/ Debit \/ Restore
           \/ ClockTick
  BY <1>0, <1>1 DEF LinkSet, LinkSanitize, LinkOrder, RegionSet, RegionClear,
     RegionApply, RegionRetune, WifiChanges, FallbackOn, FallbackPlan, FallbackRaise,
     FallbackOff, SendBatch, MeshConfigure, Enqueue, JobStart, JobEnd, BgCycle, Retune,
     RetuneDone, RetuneFailed, Beacon, Uplink, MeshTx, Aired, AirFails, Debit, Restore,
     ClockTick, Command, SendSmos, TaskOnly, Touch, WritePlan, historyVars, loopVars,
     sharedVars, taskVars
<1> QED
  BY <1>1 DEF LinkNext, LoopStep, TaskStep

\* The type of the flags.
LEMMA FlagsStep ==
  ASSUME LinkInv, LinkNext
  PROVE  FlagsTyped'
<1> USE DEF FlagsTyped
<1>0. FlagsTyped
  BY DEF LinkInv, Typed
<1>1. CASE LinkSet
  BY <1>0, <1>1 DEF LinkSet, sharedVars, taskVars, Command, Touch, WritePlan
<1>2. CASE LinkSanitize
  BY <1>0, <1>2 DEF LinkSanitize, sharedVars, taskVars, Touch, WritePlan
<1>3. CASE LinkOrder
  BY <1>0, <1>3 DEF LinkOrder, taskVars, historyVars
<1>4. CASE RegionSet
  BY <1>0, <1>4 DEF RegionSet, Touch, Command, sharedVars, taskVars
<1>5. CASE RegionClear
  BY <1>0, <1>5 DEF RegionClear, taskVars
<1>6. CASE RegionApply
  BY <1>0, <1>6 DEF RegionApply, taskVars, Touch, WritePlan
<1>7. CASE RegionRetune
  BY <1>0, <1>7 DEF RegionRetune, taskVars, historyVars
<1>8. CASE WifiChanges
  BY <1>0, <1>8 DEF WifiChanges, Command, sharedVars, taskVars, historyVars
<1>9. CASE FallbackOn
  BY <1>0, <1>9 DEF FallbackOn, sharedVars, taskVars, historyVars
<1>10. CASE FallbackPlan
  BY <1>0, <1>10 DEF FallbackPlan, taskVars, Touch, WritePlan
<1>11. CASE FallbackRaise
  BY <1>0, <1>11 DEF FallbackRaise, taskVars, historyVars
<1>12. CASE FallbackOff
  BY <1>0, <1>12 DEF FallbackOff, taskVars, historyVars
<1>13. CASE SendBatch
  BY <1>0, <1>13 DEF SendBatch, taskVars, historyVars
<1>14. CASE MeshConfigure
  BY <1>0, <1>14 DEF MeshConfigure, Command, taskVars, historyVars
<1>15. CASE Enqueue
  BY <1>0, <1>15 DEF Enqueue, Command, sharedVars, taskVars, historyVars
<1>16. CASE JobStart
  BY <1>0, <1>16 DEF JobStart, sharedVars, historyVars
<1>17. CASE JobEnd
  BY <1>0, <1>17 DEF JobEnd, TaskOnly, loopVars, historyVars
<1>18. CASE BgCycle
  BY <1>0, <1>18 DEF BgCycle, TaskOnly, loopVars, historyVars
<1>19. CASE Retune
  BY <1>0, <1>19 DEF Retune, TaskOnly, loopVars
<1>20. CASE RetuneDone
  BY <1>0, <1>20 DEF RetuneDone, TaskOnly, loopVars
<1>21. CASE RetuneFailed
  BY <1>0, <1>21 DEF RetuneFailed, TaskOnly, loopVars
<1>22. CASE Beacon
  BY <1>0, <1>22 DEF Beacon, SendSmos, TaskOnly, loopVars, historyVars
<1>23. CASE Uplink
  BY <1>0, <1>23 DEF Uplink, SendSmos, TaskOnly, loopVars, historyVars
<1>24. CASE MeshTx
  BY <1>0, <1>24 DEF MeshTx, TaskOnly, loopVars, historyVars
<1>25. CASE Aired
  BY <1>0, <1>25 DEF Aired, TaskOnly, loopVars
<1>26. CASE AirFails
  BY <1>0, <1>26 DEF AirFails, TaskOnly, loopVars
<1>27. CASE Debit
  BY <1>0, <1>27 DEF Debit, TaskOnly, loopVars, historyVars
<1>28. CASE Restore
  BY <1>0, <1>28 DEF Restore, TaskOnly, loopVars
<1>29. CASE ClockTick
  BY <1>0, <1>29 DEF ClockTick, sharedVars, loopVars, taskVars
<1> QED
  BY <1>1, <1>2, <1>3, <1>4, <1>5, <1>6, <1>7, <1>8, <1>9, <1>10, <1>11, <1>12, <1>13,
     <1>14, <1>15, <1>16, <1>17, <1>18, <1>19, <1>20, <1>21, <1>22, <1>23, <1>24, <1>25,
     <1>26, <1>27, <1>28, <1>29 DEF LinkNext, LoopStep, TaskStep

\* The type of region and plan.
LEMMA PlanStep ==
  ASSUME LinkInv, LinkNext
  PROVE  PlanTyped'
<1>0. Typed /\ PlanTyped /\ LORA_LINK_MAX_CH \in Nat
  BY PlanAssumption DEF LinkInv, Typed
<1>1. CASE LinkSet
  <2>1. CASE UNCHANGED <<nCh, chans, fromBE, touched>>
    BY <1>0, <1>1, <2>1 DEF LinkSet, PlanTyped
  <2>2. CASE \E p \in Plans : WritePlan(p)
    <3>1. PICK p \in Plans : WritePlan(p)
      BY <2>2
    <3>2. p \in Seq(Channels) /\ Len(p) \in Slots
      BY LinkAssumption
    <3> QED BY <1>0, <1>1, <3>1, <3>2, PlanWritten DEF LinkSet, PlanTyped
  <2> QED BY <1>1, <2>1, <2>2 DEF LinkSet
<1>2. CASE LinkSanitize
  BY <1>0, <1>2, PlanMade, PlanWritten DEF LinkSanitize, LegalPlan, PlanTyped
<1>3. CASE RegionSet
  BY <1>0, <1>3 DEF RegionSet, PlanTyped
<1>4. CASE RegionApply
  <2>1. CASE UNCHANGED <<nCh, chans>>
    BY <1>0, <1>4, <2>1 DEF RegionApply, PlanTyped
  <2>2. CASE nCh > 0 /\ WritePlan(NewPlan)
    BY <1>0, <1>4, <2>2, PlanMade, PlanWritten DEF RegionApply, LegalPlan, PlanTyped
  <2>3. nCh = 0 \/ nCh > 0
    BY <1>0 DEF PlanTyped
  <2> QED BY <1>4, <2>1, <2>2, <2>3 DEF RegionApply
<1>5. CASE FallbackPlan
  <2>1. CASE nCh = 0
    BY <1>0, <1>5, <2>1, DefaultLegal, PlanWritten DEF FallbackPlan, LegalPlan, PlanTyped
  <2>2. CASE nCh > 0
    BY <1>0, <1>5, <2>2, PlanMade, PlanWritten DEF FallbackPlan, LegalPlan, PlanTyped
  <2> QED BY <1>0, <2>1, <2>2 DEF PlanTyped
<1>6. CASE LinkOrder \/ RegionClear \/ RegionRetune \/ WifiChanges \/ FallbackOn
           \/ FallbackRaise \/ FallbackOff \/ SendBatch \/ MeshConfigure \/ Enqueue
  BY <1>0, <1>6 DEF LinkOrder, RegionClear, RegionRetune, WifiChanges, FallbackOn,
     FallbackRaise, FallbackOff, SendBatch, MeshConfigure, Enqueue, Command,
     historyVars, sharedVars, taskVars, PlanTyped
<1>7. CASE JobStart \/ JobEnd \/ BgCycle \/ Retune \/ RetuneDone \/ RetuneFailed
           \/ Beacon \/ Uplink \/ MeshTx \/ Aired \/ AirFails \/ Debit \/ Restore
           \/ ClockTick
  BY <1>0, <1>7 DEF JobStart, JobEnd, BgCycle, Retune, RetuneDone, RetuneFailed, Beacon,
     Uplink, MeshTx, Aired, AirFails, Debit, Restore, ClockTick, SendSmos, TaskOnly,
     historyVars, loopVars, sharedVars, taskVars, PlanTyped
<1> QED
  BY <1>1, <1>2, <1>3, <1>4, <1>5, <1>6, <1>7 DEF LinkNext, LoopStep, TaskStep

\* The type of the channel chosen and of what the radio is tuned to.
LEMMA TuningStep ==
  ASSUME LinkInv, LinkNext
  PROVE  TuningTyped'
<1> USE DEF TuningTyped
<1>0. /\ TuningTyped /\ PlanTyped /\ Typed /\ RadioKnown
      /\ LORA_LINK_MAX_CH \in Nat /\ LORA_CFG_FAIL_MAX \in Nat /\ 0 < LORA_CFG_FAIL_MAX
  BY PlanAssumption, LinkAssumption DEF LinkInv, Typed
<1>1. CASE LinkSet \/ LinkSanitize \/ LinkOrder \/ RegionSet \/ RegionClear
           \/ RegionApply \/ RegionRetune \/ WifiChanges \/ FallbackOn \/ FallbackPlan
           \/ FallbackRaise \/ FallbackOff \/ SendBatch \/ MeshConfigure \/ Enqueue
  BY <1>0, <1>1 DEF LinkSet, LinkSanitize, LinkOrder, RegionSet, RegionClear,
     RegionApply, RegionRetune, WifiChanges, FallbackOn, FallbackPlan, FallbackRaise,
     FallbackOff, SendBatch, MeshConfigure, Enqueue, Command, Touch, WritePlan,
     historyVars, sharedVars, taskVars, Tunings
<1>2. CASE Retune
  <2>1. Idx \in Slots /\ chans[Idx] \in Channels
    <3>1. nCh > 0
      BY <1>2 DEF Retune, LinkTick
    <3> QED BY <1>0, <3>1, IdxInPlan DEF PlanTyped
  <2> QED BY <1>0, <1>2, <2>1 DEF Retune, Slots, Tunings, TaskOnly, loopVars
<1>3. CASE RetuneDone
  BY <1>0, <1>3 DEF RetuneDone, TaskOnly, loopVars
<1>4. CASE RetuneFailed
  BY <1>0, <1>4 DEF RetuneFailed, TaskOnly, loopVars
<1>5. CASE MeshTx
  BY <1>0, <1>5 DEF MeshTx, PlanTyped, Tunings, TaskOnly, loopVars
<1>6. CASE Restore
  <2>1. idx \in Slots /\ chans[idx] \in Channels
    BY <1>0, <1>6 DEF Restore, RadioKnown, WayBack, PlanTyped
  <2> QED BY <1>0, <1>6, <2>1 DEF Restore, Tunings, TaskOnly, loopVars
<1>7. CASE JobStart \/ JobEnd \/ BgCycle \/ Beacon \/ Uplink \/ Aired \/ AirFails
           \/ Debit \/ ClockTick
  BY <1>0, <1>7 DEF JobStart, JobEnd, BgCycle, Beacon, Uplink, Aired, AirFails, Debit,
     ClockTick, SendSmos, TaskOnly, historyVars, loopVars, sharedVars, taskVars, Tunings
<1> QED
  BY <1>1, <1>2, <1>3, <1>4, <1>5, <1>6, <1>7 DEF LinkNext, LoopStep, TaskStep

\* The type of the batches.
LEMMA QueuesStep ==
  ASSUME LinkInv, LinkNext
  PROVE  QueuesTyped'
<1>a. ASSUME NEW q \in Queues PROVE Advanced(q) \in Queues
  <2>1. NFrag \in Nat /\ 0 < NFrag /\ 0 \in 0..(NFrag - 1)
        /\ q.frag \in 0..(NFrag - 1) /\ q.seq \in Nat
    BY LinkAssumption DEF Queues
  <2>2. CASE q.frag + 1 >= NFrag
    <3>1. Advanced(q) = [pending |-> FALSE, frag |-> 0, seq |-> q.seq + 1, batch |-> 0]
      BY <2>2 DEF Advanced, Queues
    <3>2. q.seq + 1 \in Nat
      BY <2>1
    <3> QED BY <2>1, <3>1, <3>2 DEF Queues
  <2>3. CASE ~(q.frag + 1 >= NFrag)
    <3>1. q.frag + 1 \in 0..(NFrag - 1)
      BY <2>1, <2>3
    <3> QED BY <2>3, <3>1 DEF Advanced, Queues
  <2> QED BY <2>2, <2>3
<1>b. ASSUME NEW q \in Queues, NEW b \in Nat
      PROVE  [q EXCEPT !.pending = TRUE, !.frag = 0, !.batch = b] \in Queues
  <2>1. 0 \in 0..(NFrag - 1)
    BY LinkAssumption
  <2> QED BY <2>1 DEF Queues
<1>0. /\ QueuesTyped /\ batches + 1 \in Nat
      /\ Advanced(up) \in Queues /\ Advanced(mesh) \in Queues
  BY <1>a DEF LinkInv, Typed, QueuesTyped
<1>1. CASE SendBatch
  BY <1>0, <1>b, <1>1 DEF SendBatch, MeshEnqueue, QueuesTyped
<1>2. CASE LinkSet \/ LinkSanitize \/ LinkOrder \/ RegionSet \/ RegionClear
           \/ RegionApply \/ RegionRetune \/ WifiChanges \/ FallbackOn \/ FallbackPlan
           \/ FallbackRaise \/ FallbackOff \/ MeshConfigure \/ Enqueue
  BY <1>0, <1>2 DEF LinkSet, LinkSanitize, LinkOrder, RegionSet, RegionClear,
     RegionApply, RegionRetune, WifiChanges, FallbackOn, FallbackPlan, FallbackRaise,
     FallbackOff, MeshConfigure, Enqueue, Command, Touch, WritePlan, historyVars,
     sharedVars, taskVars, QueuesTyped
<1>3. CASE Aired
  BY <1>0, <1>3 DEF Aired, QueuesTyped, TaskOnly, loopVars
<1>4. CASE Debit
  BY <1>0, <1>4 DEF Debit, QueuesTyped, TaskOnly, loopVars
<1>5. CASE JobStart \/ JobEnd \/ BgCycle \/ Retune \/ RetuneDone \/ RetuneFailed
           \/ Beacon \/ Uplink \/ MeshTx \/ AirFails \/ Restore \/ ClockTick
  BY <1>0, <1>5 DEF JobStart, JobEnd, BgCycle, Retune, RetuneDone, RetuneFailed, Beacon,
     Uplink, MeshTx, AirFails, Restore, ClockTick, SendSmos, TaskOnly, historyVars,
     loopVars, sharedVars, taskVars, QueuesTyped
<1> QED
  BY <1>1, <1>2, <1>3, <1>4, <1>5 DEF LinkNext, LoopStep, TaskStep

\* The type of the counters of airtime.
LEMMA CountersStep ==
  ASSUME LinkInv, LinkNext
  PROVE  CountersTyped'
<1>0. /\ CountersTyped /\ 0 \in Bands /\ NoFrame \in Frames
      /\ \A b \in Bands : Rolled(b) \in Nat
      /\ \A f, r : BandForFreq(f, r) \in Bands
  BY DEF LinkInv, Typed, CountersTyped, Rolled, BandForFreq, Bands, NoFrame, Frames
<1>m. Minute \in Nat
  <2>1. time \div SecsPerMin \in Nat
    BY <1>0, LinkAssumption DEF CountersTyped
  <2> QED BY <2>1 DEF Minute
<1>1. CASE RegionClear
  BY <1>0, <1>1 DEF RegionClear, CountersTyped, taskVars
<1>2. CASE LinkSet \/ LinkSanitize \/ LinkOrder \/ RegionSet \/ RegionApply
           \/ RegionRetune \/ WifiChanges \/ FallbackOn \/ FallbackPlan
           \/ FallbackRaise \/ FallbackOff \/ SendBatch \/ MeshConfigure \/ Enqueue
  BY <1>0, <1>2 DEF LinkSet, LinkSanitize, LinkOrder, RegionSet, RegionApply,
     RegionRetune, WifiChanges, FallbackOn, FallbackPlan, FallbackRaise, FallbackOff,
     SendBatch, MeshConfigure, Enqueue, Command, Touch, WritePlan, historyVars,
     sharedVars, taskVars, CountersTyped
<1>3. CASE Beacon
  BY <1>0, <1>m, <1>3 DEF Beacon, SendSmos, RollWindow, CountersTyped, Frames, historyVars,
     TaskOnly
<1>4. CASE Uplink
  BY <1>0, <1>m, <1>4 DEF Uplink, SendSmos, RollWindow, CountersTyped, Frames, historyVars,
     TaskOnly
<1>5. CASE MeshTx
  BY <1>0, <1>m, <1>5 DEF MeshTx, RollWindow, CountersTyped, Frames, historyVars,
     TaskOnly
<1>6. CASE Aired
  BY <1>0, <1>6 DEF Aired, CountersTyped, Frames, TaskOnly
<1>7. CASE AirFails
  BY <1>0, <1>7 DEF AirFails, CountersTyped, TaskOnly
<1>8. CASE Debit
  BY <1>0, <1>8 DEF Debit, DebitBand, CountersTyped, Frames, TaskOnly, historyVars
<1>9. CASE ClockTick
  BY <1>0, <1>9 DEF ClockTick, CountersTyped, sharedVars, taskVars
<1>10. CASE JobStart \/ JobEnd \/ BgCycle \/ Retune \/ RetuneDone \/ RetuneFailed
            \/ Restore
  BY <1>0, <1>10 DEF JobStart, JobEnd, BgCycle, Retune, RetuneDone, RetuneFailed,
     Restore, TaskOnly, historyVars, loopVars, sharedVars, CountersTyped
<1> QED
  BY <1>1, <1>2, <1>3, <1>4, <1>5, <1>6, <1>7, <1>8, <1>9, <1>10 DEF LinkNext, LoopStep,
     TaskStep

\* The link follows both wishes.
LEMMA IntentStep ==
  ASSUME LinkInv, LinkNext
  PROVE  IntentKept'
<1> USE DEF IntentKept
<1>0. /\ IntentKept /\ on \in BOOLEAN /\ beOn \in BOOLEAN /\ fbOn \in BOOLEAN
      /\ want \in BOOLEAN
  BY DEF LinkInv, Typed, FlagsTyped
<1>1. CASE LinkSet
  BY <1>0, <1>1 DEF LinkSet, sharedVars, taskVars, Command, Touch, WritePlan
<1>2. CASE LinkSanitize
  BY <1>0, <1>2 DEF LinkSanitize, sharedVars, taskVars, Touch, WritePlan
<1>3. CASE LinkOrder
  BY <1>0, <1>3 DEF LinkOrder, taskVars, historyVars
<1>4. CASE RegionSet
  BY <1>0, <1>4 DEF RegionSet, Touch, Command, sharedVars, taskVars
<1>5. CASE RegionClear
  BY <1>0, <1>5 DEF RegionClear, taskVars
<1>6. CASE RegionApply
  BY <1>0, <1>6 DEF RegionApply, taskVars, Touch, WritePlan
<1>7. CASE RegionRetune
  BY <1>0, <1>7 DEF RegionRetune, taskVars, historyVars
<1>8. CASE FallbackOn
  BY <1>0, <1>8 DEF FallbackOn, sharedVars, taskVars, historyVars
<1>9. CASE FallbackPlan
  BY <1>0, <1>9 DEF FallbackPlan, taskVars, Touch, WritePlan
<1>10. CASE FallbackRaise
  BY <1>0, <1>10 DEF FallbackRaise, taskVars, historyVars
<1>11. CASE FallbackOff
  BY <1>0, <1>11 DEF FallbackOff, taskVars, historyVars
<1>12. CASE WifiChanges \/ SendBatch \/ MeshConfigure \/ Enqueue
  BY <1>0, <1>12 DEF WifiChanges, SendBatch, MeshConfigure, Enqueue, Command,
     historyVars, sharedVars, taskVars
<1>13. CASE JobStart \/ JobEnd \/ BgCycle \/ Retune \/ RetuneDone \/ RetuneFailed
            \/ Beacon \/ Uplink \/ MeshTx \/ Aired \/ AirFails \/ Debit \/ Restore
            \/ ClockTick
  BY <1>0, <1>13 DEF JobStart, JobEnd, BgCycle, Retune, RetuneDone, RetuneFailed,
     Beacon, Uplink, MeshTx, Aired, AirFails, Debit, Restore, ClockTick, SendSmos,
     TaskOnly, historyVars, loopVars, sharedVars, taskVars
<1> QED
  BY <1>1, <1>2, <1>3, <1>4, <1>5, <1>6, <1>7, <1>8, <1>9, <1>10, <1>11, <1>12, <1>13
     DEF LinkNext, LoopStep, TaskStep

\* The plan fits the region.
LEMMA FitsStep ==
  ASSUME LinkInv, LinkNext
  PROVE  PlanFits'
<1> USE DEF PlanFits
<1>0. PlanFits /\ Typed /\ region \in Regions /\ nCh \in Nat
  BY PlanAssumption DEF LinkInv, Typed, PlanTyped
<1>u. UNCHANGED <<nCh, chans>> => Plan' = Plan
  BY DEF Plan
<1>1. CASE LinkSet
  <2>1. CASE UNCHANGED <<nCh, chans, fromBE, touched>> /\ lpc' = "order"
    BY <1>0, <1>u, <1>1, <2>1 DEF LinkSet, Command
  <2>2. CASE \E p \in Plans : WritePlan(p) /\ lpc' = "sanitize"
    <3>1. PICK p \in Plans : WritePlan(p) /\ lpc' = "sanitize"
      BY <2>2
    <3>2. p \in Seq(Channels) /\ Len(p) \in Slots
      BY LinkAssumption
    <3>3. nCh' > 0
      BY <1>0, <3>1, <3>2, PlanWritten, PlanAssumption
    <3> QED BY <3>1, <3>3
  <2> QED BY <1>1, <2>1, <2>2 DEF LinkSet
<1>2. CASE LinkSanitize
  <2>1. LegalPlan(Sanitized(Plan, region), region) /\ WritePlan(Sanitized(Plan, region))
    BY <1>2, PlanMade DEF LinkSanitize
  <2>2. Plan' = Sanitized(Plan, region)
    BY <1>0, <2>1, PlanWritten DEF LegalPlan
  <2> QED BY <1>2, <2>1, <2>2 DEF LinkSanitize
<1>3. CASE LinkOrder
  BY <1>0, <1>u, <1>3 DEF LinkOrder
<1>4. CASE RegionSet
  BY <1>0, <1>u, <1>4 DEF RegionSet
<1>5. CASE RegionClear
  BY <1>0, <1>u, <1>5 DEF RegionClear
<1>6. CASE RegionApply
  <2>0. lpc = "apply" /\ lpc' = "retune" /\ region' = region
    BY <1>6 DEF RegionApply
  <2>1. CASE nCh = 0 /\ UNCHANGED <<nCh, chans>>
    BY <1>0, <2>0, <2>1
  <2>2. CASE nCh > 0 /\ NewPlan = Plan /\ UNCHANGED <<nCh, chans>>
    BY <1>0, <1>u, <2>0, <2>2, PlanMade
  <2>3. CASE nCh > 0 /\ WritePlan(NewPlan)
    <3>1. LegalPlan(NewPlan, region)
      BY <2>0, <2>3, PlanMade
    <3>2. Plan' = NewPlan
      BY <1>0, <2>3, <3>1, PlanWritten DEF LegalPlan
    <3> QED BY <2>0, <3>1, <3>2
  <2>4. nCh = 0 \/ nCh > 0
    BY <1>0
  <2> QED BY <1>6, <2>1, <2>2, <2>3, <2>4 DEF RegionApply
<1>7. CASE RegionRetune
  BY <1>0, <1>u, <1>7 DEF RegionRetune
<1>8. CASE FallbackPlan
  <2>0. lpc = "fallback" /\ lpc' = "raise" /\ region' = region
    BY <1>8 DEF FallbackPlan
  <2>1. PICK p : LegalPlan(p, region) /\ WritePlan(p)
    <3>1. CASE nCh = 0
      BY <1>0, <1>8, <3>1, DefaultLegal DEF FallbackPlan
    <3>2. CASE nCh # 0
      BY <1>0, <1>8, <2>0, <3>2, PlanMade DEF FallbackPlan
    <3> QED BY <3>1, <3>2
  <2>2. Plan' = p
    BY <1>0, <2>1, PlanWritten DEF LegalPlan
  <2> QED BY <2>0, <2>1, <2>2
<1>9. CASE WifiChanges \/ FallbackOn \/ FallbackRaise \/ FallbackOff \/ SendBatch
           \/ MeshConfigure \/ Enqueue
  BY <1>0, <1>u, <1>9 DEF WifiChanges, FallbackOn, FallbackRaise, FallbackOff,
     SendBatch, MeshConfigure, Enqueue, Command, historyVars, sharedVars, taskVars
<1>10. CASE JobStart \/ JobEnd \/ BgCycle \/ Retune \/ RetuneDone \/ RetuneFailed
            \/ Beacon \/ Uplink \/ MeshTx \/ Aired \/ AirFails \/ Debit \/ Restore
            \/ ClockTick
  BY <1>0, <1>u, <1>10 DEF JobStart, JobEnd, BgCycle, Retune, RetuneDone, RetuneFailed,
     Beacon, Uplink, MeshTx, Aired, AirFails, Debit, Restore, ClockTick, SendSmos,
     TaskOnly, historyVars, loopVars, sharedVars, taskVars
<1> QED
  BY <1>1, <1>2, <1>3, <1>4, <1>5, <1>6, <1>7, <1>8, <1>9, <1>10 DEF LinkNext, LoopStep,
     TaskStep

\* The radio stands where the task takes it to stand.
LEMMA RadioStep ==
  ASSUME LinkInv, LinkNext
  PROVE  RadioKnown'
<1> USE DEF RadioKnown, Fresh, Standing, Tuning, WayBack
<1>0. RadioKnown /\ Typed
  BY DEF LinkInv
<1>1. CASE LinkSet
  <2>1. lpc' # "idle"
    BY <1>1 DEF LinkSet
  <2>2. CASE UNCHANGED <<chans, touched>>
    BY <1>0, <1>1, <2>1, <2>2 DEF LinkSet, sharedVars, taskVars
  <2>3. CASE Touch
    BY <1>0, <1>1, <2>1, <2>3 DEF LinkSet, Touch, sharedVars, taskVars
  <2> QED BY <1>1, <2>2, <2>3 DEF LinkSet
<1>2. CASE LinkSanitize
  BY <1>0, <1>2 DEF LinkSanitize, Touch, sharedVars, taskVars
<1>3. CASE LinkOrder
  BY <1>0, <1>3 DEF LinkOrder, taskVars, historyVars
<1>4. CASE RegionSet
  BY <1>0, <1>4 DEF RegionSet, Touch, Command, sharedVars, taskVars
<1>5. CASE RegionClear
  BY <1>0, <1>5 DEF RegionClear, taskVars
<1>6. CASE RegionApply
  <2>1. lpc' # "idle"
    BY <1>6 DEF RegionApply
  <2>2. CASE UNCHANGED <<chans, cur, touched>>
    BY <1>0, <1>6, <2>1, <2>2 DEF RegionApply, taskVars
  <2>3. CASE Touch /\ cur' = 0
    BY <1>0, <1>6, <2>1, <2>3 DEF RegionApply, Touch, taskVars
  <2> QED BY <1>6, <2>2, <2>3 DEF RegionApply
<1>7. CASE RegionRetune
  BY <1>0, <1>7 DEF RegionRetune, taskVars, historyVars
<1>8. CASE FallbackOn
  BY <1>0, <1>8 DEF FallbackOn, sharedVars, taskVars, historyVars
<1>9. CASE FallbackPlan
  <2>1. lpc' # "idle" /\ cur' \in {cur, 0} /\ Touch
    BY <1>9 DEF FallbackPlan
  <2> QED BY <1>0, <1>9, <2>1 DEF FallbackPlan, Touch, taskVars
<1>10. CASE FallbackRaise
  BY <1>0, <1>10 DEF FallbackRaise, taskVars, historyVars
<1>11. CASE FallbackOff
  BY <1>0, <1>11 DEF FallbackOff, taskVars, historyVars
<1>12. CASE WifiChanges \/ SendBatch \/ MeshConfigure \/ Enqueue
  BY <1>0, <1>12 DEF WifiChanges, SendBatch, MeshConfigure, Enqueue, Command,
     historyVars, sharedVars, taskVars
<1>13. CASE JobStart
  BY <1>0, <1>13 DEF JobStart, sharedVars, historyVars
<1>14. CASE JobEnd
  BY <1>0, <1>14 DEF JobEnd, TaskOnly, loopVars, historyVars
<1>15. CASE BgCycle
  BY <1>0, <1>15 DEF BgCycle, TaskOnly, loopVars, historyVars
<1>16. CASE Retune
  <2>1. Idx \in Slots
    BY <1>0, <1>16, IdxInPlan DEF Retune, LinkTick
  <2> QED BY <1>0, <1>16, <2>1 DEF Retune, TaskOnly, loopVars
<1>17. CASE RetuneDone
  BY <1>0, <1>17 DEF RetuneDone, TaskOnly, loopVars
<1>18. CASE RetuneFailed
  <2>1. fails' > 0
    BY <1>0, <1>18, LinkAssumption DEF RetuneFailed, Typed, TuningTyped
  <2> QED BY <1>0, <1>18, <2>1 DEF RetuneFailed, TaskOnly, loopVars
<1>19. CASE Beacon
  BY <1>0, <1>19 DEF Beacon, SendSmos, OnChannel, LinkTick, TaskOnly, loopVars, historyVars
<1>20. CASE Uplink
  BY <1>0, <1>20 DEF Uplink, SendSmos, OnChannel, LinkTick, TaskOnly, loopVars, historyVars
<1>21. CASE MeshTx
  <2>1. cur \in Slots
    BY <1>0, <1>21, IdxInPlan DEF MeshTx, OnChannel, LinkTick
  <2> QED BY <1>0, <1>21, <2>1 DEF MeshTx, OnChannel, LinkTick, TaskOnly, loopVars, historyVars
<1>22. CASE Aired
  BY <1>0, <1>22 DEF Aired, TaskOnly, loopVars
<1>23. CASE AirFails
  BY <1>0, <1>23 DEF AirFails, TaskOnly, loopVars
<1>24. CASE Debit
  BY <1>0, <1>24 DEF Debit, TaskOnly, loopVars, historyVars
<1>25. CASE Restore
  BY <1>0, <1>25 DEF Restore, TaskOnly, loopVars
<1>26. CASE ClockTick
  BY <1>0, <1>26 DEF ClockTick, loopVars, sharedVars, taskVars
<1> QED
  BY <1>1, <1>2, <1>3, <1>4, <1>5, <1>6, <1>7, <1>8, <1>9, <1>10, <1>11, <1>12, <1>13,
     <1>14, <1>15, <1>16, <1>17, <1>18, <1>19, <1>20, <1>21, <1>22, <1>23, <1>24, <1>25,
     <1>26 DEF LinkNext, LoopStep, TaskStep

\* The hour of the counters of airtime.
LEMMA RolledMoved ==
  ASSUME Typed, NEW b \in Bands, RollWindow(b), UNCHANGED time
  PROVE  /\ \A x \in Bands : Rolled(x)' = Rolled(x)
         /\ hourOf'[b] = Minute /\ Minute' = Minute /\ Minute \in Nat \ {0}
<1>1. Minute \in Nat \ {0}
  <2>1. time \div SecsPerMin \in Nat
    BY LinkAssumption DEF Typed, CountersTyped
  <2> QED BY <2>1 DEF Minute
<1>2. Minute' = Minute
  BY DEF Minute
<1>3. used \in [Bands -> Nat] /\ hourOf \in [Bands -> Nat]
  BY DEF Typed, CountersTyped
<1> QED BY <1>1, <1>2, <1>3 DEF RollWindow, Rolled

\* A frame that the duty cycle allows is counted with what was on the air before:
\* beginning it leaves the budget kept, whatever the loop has changed meanwhile.
LEMMA BegunWithin ==
  ASSUME LinkInv, NEW b \in Bands, RollWindow(b), UNCHANGED <<loopVars, time, historyVars>>,
         pc = "top",
         \/ DutyAllows(b) /\ pc' = "air" /\ frame'.band = b
         \/ pc' \in {"top", "restore"}
  PROVE  Counted' /\ WithinBudget'
<1>1. Typed /\ Counted /\ WithinBudget /\ ~touched
  BY DEF LinkInv, RadioKnown, Fresh
<1>2. UNCHANGED <<lpc, region, aired, touched>>
  BY DEF loopVars, historyVars
<1>3. /\ \A x \in Bands : Rolled(x)' = Rolled(x)
      /\ hourOf'[b] = Minute /\ Minute' = Minute
  BY <1>1, RolledMoved
<1>4. \A x \in Bands : aired[x] <= Rolled(x) /\ aired[x] \in Nat /\ Rolled(x) \in Nat
  BY <1>1 DEF Counted, Typed, CountersTyped, Rolled
<1>5. Limit[region][b] \in Nat
  BY <1>1, PlanAssumption DEF Typed, PlanTyped
<1>6. WithinBudget'
  BY <1>1, <1>2 DEF WithinBudget
<1>7. CASE DutyAllows(b) /\ pc' = "air" /\ frame'.band = b
  <2>1. aired[b] + 1 <= Limit[region][b]
    BY <1>4, <1>5, <1>7 DEF DutyAllows
  <2> QED BY <1>1, <1>2, <1>3, <1>4, <1>6, <1>7, <2>1 DEF Counted
<1>8. CASE pc' \in {"top", "restore"}
  BY <1>2, <1>3, <1>4, <1>6, <1>8 DEF Counted
<1> QED BY <1>7, <1>8

\* What was on the air is counted and within the budget.
LEMMA CountersExactStep ==
  ASSUME LinkInv, LinkNext
  PROVE  Counted' /\ WithinBudget'
<1> USE DEF Counted, WithinBudget
<1>0. /\ Counted /\ WithinBudget /\ Typed /\ CountersTyped
      /\ Limit \in [Regions -> [Bands -> Nat]] /\ region \in Regions
      /\ \A f, r : BandForFreq(f, r) \in Bands
  BY PlanAssumption DEF LinkInv, Typed, PlanTyped, BandForFreq, Bands
<1>m. Minute \in Nat \ {0} /\ (UNCHANGED time => Minute' = Minute)
  <2>1. time \in Nat
    BY <1>0 DEF CountersTyped
  <2>2. time \div SecsPerMin \in Nat
    BY <2>1, LinkAssumption
  <2> QED BY <2>2 DEF Minute
<1>r. UNCHANGED <<used, hourOf, time>> => \A b \in Bands : Rolled(b)' = Rolled(b)
  BY DEF Rolled, Minute
<1>n. \A b \in Bands : Rolled(b) \in Nat /\ aired[b] \in Nat
  BY <1>0 DEF CountersTyped, Rolled
<1>1. CASE LinkSet
  <2>1. pc = "air" => (touched' <=> touched)
    BY <1>1 DEF LinkSet, Touch
  <2> QED BY <1>0, <1>m, <1>r, <1>1, <2>1 DEF LinkSet, sharedVars, taskVars, Command
<1>2. CASE LinkSanitize
  <2>1. pc = "air" => (touched' <=> touched)
    BY <1>2 DEF LinkSanitize, Touch
  <2> QED BY <1>0, <1>m, <1>r, <1>2, <2>1 DEF LinkSanitize, sharedVars, taskVars
<1>3. CASE LinkOrder
  BY <1>0, <1>m, <1>r, <1>3 DEF LinkOrder, taskVars, historyVars
<1>4. CASE RegionSet
  <2>1. pc = "air" => (touched' <=> touched)
    BY <1>4 DEF RegionSet, Touch
  <2> QED BY <1>0, <1>m, <1>r, <1>4, <2>1 DEF RegionSet, sharedVars, taskVars
<1>5. CASE RegionClear
  <2>1. \A b \in Bands : aired'[b] = 0 /\ Rolled(b)' = 0
    BY <1>m, <1>5 DEF RegionClear, Rolled
  <2>2. frame \in Frames /\ frame.band \in Bands
    BY <1>0 DEF CountersTyped, Frames
  <2>3. pc = "air" => touched'
    BY <1>5 DEF RegionClear
  <2>4. \A b \in Bands : 0 <= Limit[region][b]
    BY <1>0
  <2> QED BY <1>5, <2>1, <2>2, <2>3, <2>4 DEF RegionClear, taskVars
<1>6. CASE RegionApply
  <2>1. pc = "air" => (touched' <=> touched)
    BY <1>6 DEF RegionApply, Touch
  <2> QED BY <1>0, <1>m, <1>r, <1>6, <2>1 DEF RegionApply, taskVars
<1>7. CASE FallbackPlan
  <2>1. pc = "air" => (touched' <=> touched)
    BY <1>7 DEF FallbackPlan, Touch
  <2> QED BY <1>0, <1>m, <1>r, <1>7, <2>1 DEF FallbackPlan, taskVars
<1>8. CASE RegionRetune \/ WifiChanges \/ FallbackOn \/ FallbackRaise \/ FallbackOff
           \/ SendBatch \/ MeshConfigure \/ Enqueue
  BY <1>0, <1>8, <1>m, <1>r DEF RegionRetune, WifiChanges, FallbackOn, FallbackRaise,
     FallbackOff, SendBatch, MeshConfigure, Enqueue, Command, historyVars, sharedVars,
     taskVars
<1>9. CASE Retune
  <2>1. /\ pc' \in {"warm", "failed"} /\ pc = "top"
        /\ UNCHANGED <<used, hourOf, time, aired, lpc, region>>
    BY <1>9 DEF Retune, LinkTick, TaskOnly, loopVars
  <2> QED BY <1>0, <1>r, <2>1
<1>10. CASE RetuneDone
  BY <1>0, <1>m, <1>r, <1>10 DEF RetuneDone, TaskOnly, loopVars
<1>11. CASE RetuneFailed
  BY <1>0, <1>m, <1>r, <1>11 DEF RetuneFailed, TaskOnly, loopVars
<1>12. CASE Beacon
  <2>1. PICK b \in Bands : /\ RollWindow(b) /\ UNCHANGED <<loopVars, time, historyVars>>
                            /\ \/ DutyAllows(b) /\ pc' = "air" /\ frame'.band = b
                               \/ pc' \in {"top", "restore"}
    BY <1>0, <1>12 DEF Beacon, SendSmos, OnChannel, LinkTick, TaskOnly
  <2> QED BY <1>0, <1>12, <2>1, BegunWithin DEF Beacon, OnChannel, LinkTick
<1>13. CASE Uplink
  <2>1. PICK b \in Bands : /\ RollWindow(b) /\ UNCHANGED <<loopVars, time, historyVars>>
                            /\ \/ DutyAllows(b) /\ pc' = "air" /\ frame'.band = b
                               \/ pc' \in {"top", "restore"}
    BY <1>0, <1>13 DEF Uplink, SendSmos, OnChannel, LinkTick, TaskOnly
  <2> QED BY <1>0, <1>13, <2>1, BegunWithin DEF Uplink, OnChannel, LinkTick
<1>14. CASE MeshTx
  <2>1. PICK b \in Bands : /\ RollWindow(b) /\ UNCHANGED <<loopVars, time, historyVars>>
                            /\ \/ DutyAllows(b) /\ pc' = "air" /\ frame'.band = b
                               \/ pc' \in {"top", "restore"}
    BY <1>0, <1>14 DEF MeshTx, OnChannel, LinkTick, TaskOnly
  <2> QED BY <1>0, <1>14, <2>1, BegunWithin DEF MeshTx, OnChannel, LinkTick
<1>15. CASE Aired
  <2>0. frame.band \in Bands /\ frame' = frame
    BY <1>0, <1>15 DEF Aired, CountersTyped, Frames
  <2>1. CASE touched
    <3>1. aired' = aired /\ aired[frame.band] = 0
      BY <1>0, <1>15, <2>1 DEF Aired
    <3> QED BY <1>0, <1>m, <1>r, <1>15, <2>0, <3>1 DEF Aired, TaskOnly, loopVars
  <2>2. CASE ~touched
    <3>1. /\ aired' = [aired EXCEPT ![frame.band] = aired[frame.band] + 1]
          /\ aired'[frame.band] = aired[frame.band] + 1
          /\ \A b \in Bands \ {frame.band} : aired'[b] = aired[b]
      BY <1>0, <1>15, <2>0, <2>2 DEF Aired, CountersTyped
    <3>2. /\ hourOf[frame.band] = Minute /\ old' = used[frame.band]
          /\ Rolled(frame.band) = used[frame.band]
      BY <1>0, <1>15, <2>0, <2>2 DEF Aired, Rolled
    <3>3. aired[frame.band] <= used[frame.band]
      BY <1>0, <1>15, <2>0, <3>2 DEF Aired
    <3>4. /\ UNCHANGED <<used, hourOf, time, lpc, region>> /\ pc = "air" /\ pc' = "debit"
          /\ touched' = FALSE
      BY <1>15 DEF Aired, TaskOnly, loopVars
    <3>5. Counted'
      BY <1>0, <1>m, <1>n, <1>r, <2>0, <3>1, <3>2, <3>3, <3>4
    <3>6. WithinBudget'
      BY <1>0, <2>0, <2>2, <3>1, <3>4
    <3> QED BY <3>5, <3>6
  <2> QED BY <2>1, <2>2
<1>16. CASE AirFails
  BY <1>0, <1>m, <1>r, <1>16 DEF AirFails, TaskOnly, loopVars
<1>17. CASE Debit
  <2>0. frame.band \in Bands /\ pc = "debit" /\ pc' \notin {"air", "debit"}
    BY <1>0, <1>17 DEF Debit, CountersTyped, Frames
  <2>1. /\ used' = [used EXCEPT ![frame.band] = old + 1]
        /\ UNCHANGED <<hourOf, time, lpc, region, aired>>
    BY <1>17 DEF Debit, DebitBand, TaskOnly, loopVars, historyVars
  <2>2. ASSUME NEW b \in Bands PROVE aired[b] <= Rolled(b)'
    <3>1. CASE b = frame.band
      <4>1. used'[b] = old + 1 /\ old \in Nat /\ aired[b] \in Nat
        BY <1>0, <2>0, <2>1, <3>1 DEF CountersTyped
      <4> QED BY <1>0, <1>m, <2>0, <2>1, <3>1, <4>1 DEF Rolled
    <3>2. CASE b # frame.band
      <4>1. used'[b] = used[b] /\ Rolled(b)' = Rolled(b)
        BY <1>0, <1>m, <2>1, <3>2 DEF CountersTyped, Rolled
      <4> QED BY <1>0, <2>0, <3>2, <4>1
    <3> QED BY <3>1, <3>2
  <2> QED BY <1>0, <2>0, <2>1, <2>2
<1>18. CASE ClockTick
  <2>1. pc \notin {"air", "debit"} /\ UNCHANGED <<pc, used, hourOf, lpc, region>>
    BY <1>18 DEF ClockTick, sharedVars, taskVars, loopVars
  <2>2. CASE (time + 1) % SecsPerMin = 0
    <3>1. \A b \in Bands : aired'[b] = 0
      BY <1>18, <2>2 DEF ClockTick
    <3>2. \A b \in Bands : Rolled(b)' \in Nat
      BY <1>0, <2>1 DEF CountersTyped, Rolled
    <3> QED BY <1>0, <2>1, <3>1, <3>2
  <2>3. CASE (time + 1) % SecsPerMin # 0
    <3>1. time \in Nat /\ SecsPerMin \in Nat /\ SecsPerMin > 2
      BY <1>0, LinkAssumption DEF CountersTyped
    <3>2. (time + 1) \div SecsPerMin = time \div SecsPerMin
      BY <2>3, <3>1
    <3>3. Minute' = Minute /\ aired' = aired
      BY <1>18, <2>3, <3>2 DEF ClockTick, Minute
    <3>4. \A b \in Bands : Rolled(b)' = Rolled(b)
      BY <2>1, <3>3 DEF Rolled
    <3> QED BY <1>0, <2>1, <3>3, <3>4
  <2> QED BY <2>2, <2>3
<1>19. CASE JobStart \/ JobEnd \/ BgCycle \/ Restore
  BY <1>0, <1>19, <1>m, <1>r DEF JobStart, JobEnd, BgCycle, Restore, TaskOnly,
     historyVars, loopVars, sharedVars
<1> QED
  BY <1>1, <1>2, <1>3, <1>4, <1>5, <1>6, <1>7, <1>8, <1>9, <1>10, <1>11, <1>12, <1>13,
     <1>14, <1>15, <1>16, <1>17, <1>18, <1>19 DEF LinkNext, LoopStep, TaskStep

-----------------------------------------------------------------------------
(* The batches, path by path. *)

\* A batch put where none is in flight.
LEMMA WholeStart ==
  ASSUME NEW k, NEW q \in Queues, NEW S, Whole(k, q, S), ~q.pending, NEW b \in Nat
  PROVE  Whole(k, [q EXCEPT !.pending = TRUE, !.frag = 0, !.batch = b], S)
<1> DEFINE n == [q EXCEPT !.pending = TRUE, !.frag = 0, !.batch = b]
<1>1. n.pending /\ n.frag = 0 /\ n.batch = b /\ n.seq = q.seq /\ q.seq \in Nat
  BY DEF Queues
<1>2. \A s \in S : ~(s.kind = k /\ s.seq = q.seq)
  BY DEF Whole
<1> HIDE DEF n
<1>3. Whole(k, n, S)
  BY <1>1, <1>2 DEF Whole
<1> QED BY <1>3 DEF n

\* The frame at hand of the batch in flight is on the air.
LEMMA WholeAir ==
  ASSUME NEW k, NEW q \in Queues, NEW S, Whole(k, q, S), q.pending,
         NEW f, f.kind = k, f.seq = q.seq, f.frag = q.frag, f.batch = q.batch
  PROVE  Whole(k, q, S \cup {f}) /\ Has(S \cup {f}, k, q.seq, q.frag)
<1>1. q.seq \in Nat /\ q.frag \in Nat
  BY LinkAssumption DEF Queues
<1>2. \A n, i : Has(S, k, n, i) => Has(S \cup {f}, k, n, i)
  BY DEF Has
<1>3. Has(S \cup {f}, k, q.seq, q.frag)
  BY DEF Has
<1>4. \A s, x \in S \cup {f} : s.kind = k /\ x.kind = k /\ s.seq = x.seq => s.batch = x.batch
  BY DEF Whole
<1>5. \A s \in S \cup {f} : s.kind = k => s.seq <= q.seq
  BY <1>1 DEF Whole
<1>6. \A s \in S \cup {f} : s.kind = k /\ s.seq = q.seq
          => q.pending /\ s.batch = q.batch /\ s.frag <= q.frag
  BY <1>1 DEF Whole
<1> QED BY <1>2, <1>3, <1>4, <1>5, <1>6 DEF Whole

\* A frame of the other path is on the air.
LEMMA WholeOther ==
  ASSUME NEW k, NEW q, NEW S, Whole(k, q, S), NEW f, f.kind # k
  PROVE  Whole(k, q, S \cup {f})
<1>1. \A n, i : Has(S, k, n, i) => Has(S \cup {f}, k, n, i)
  BY DEF Has
<1> QED BY <1>1 DEF Whole

\* After a frame comes the next, after the last one the next batch.
LEMMA WholeAdvanced ==
  ASSUME NEW k, NEW q \in Queues, NEW S \in SUBSET SentFrames,
         Whole(k, q, S), Has(S, k, q.seq, q.frag)
  PROVE  Whole(k, Advanced(q), S)
<1>1. q.seq \in Nat /\ q.frag \in Nat /\ q.frag <= NFrag - 1 /\ NFrag \in Nat /\ q.pending
  BY LinkAssumption DEF Queues, Whole, Has
<1>2. \A i \in 0..q.frag : Has(S, k, q.seq, i)
  BY <1>1 DEF Whole
<1>s. \A s \in S : s.seq \in Nat /\ s.frag \in Nat
  BY LinkAssumption DEF SentFrames
<1> DEFINE n == Advanced(q)
<1>3. CASE q.frag + 1 >= NFrag
  <2>1. n.seq = q.seq + 1 /\ n.frag = 0 /\ ~n.pending
    BY <1>3 DEF Advanced, Queues
  <2>2. \A i \in 0..(NFrag - 1) : Has(S, k, q.seq, i)
    BY <1>1, <1>2, <1>3
  <2>3. \A s \in S : s.kind = k => s.seq <= q.seq
    BY DEF Whole
  <2>4. \A s, x \in S : s.kind = k /\ x.kind = k /\ s.seq = x.seq => s.batch = x.batch
    BY DEF Whole
  <2>5. \A m \in 0..(q.seq - 1), i \in 0..(NFrag - 1) : Has(S, k, m, i)
    BY DEF Whole
  <2> HIDE DEF n
  <2>6. \A m \in 0..(n.seq - 1), i \in 0..(NFrag - 1) : Has(S, k, m, i)
    BY <1>1, <2>1, <2>2, <2>5
  <2>7. \A s \in S : ~(s.kind = k /\ s.seq = n.seq)
    BY <1>1, <1>s, <2>1, <2>3
  <2>8. \A s \in S : s.kind = k => s.seq <= n.seq
    BY <1>1, <1>s, <2>1, <2>3
  <2>9. Whole(k, n, S)
    BY <2>1, <2>4, <2>6, <2>7, <2>8 DEF Whole
  <2> QED BY <2>9 DEF n
<1>4. CASE ~(q.frag + 1 >= NFrag)
  <2>1. n.seq = q.seq /\ n.frag = q.frag + 1 /\ n.pending /\ n.batch = q.batch
    BY <1>1, <1>4 DEF Advanced, Queues
  <2> HIDE DEF n
  <2>2. \A i \in 0..(n.frag - 1) : Has(S, k, n.seq, i)
    BY <1>1, <1>2, <2>1
  <2>3. \A s \in S : s.kind = k /\ s.seq = n.seq
            => n.pending /\ s.batch = n.batch /\ s.frag <= n.frag
    BY <1>1, <1>s, <2>1 DEF Whole
  <2>4. Whole(k, n, S)
    BY <1>1, <2>1, <2>2, <2>3 DEF Whole
  <2> QED BY <2>4 DEF n
<1> QED BY <1>3, <1>4

\* The batches go out whole.
LEMMA DispatchStep ==
  ASSUME LinkInv, LinkNext
  PROVE  Dispatched'
<1>0. Dispatched /\ up \in Queues /\ mesh \in Queues /\ batches \in Nat
  BY DEF LinkInv, Typed, QueuesTyped
<1> USE DEF Dispatched
<1>1. CASE SendBatch
  <2>n. batches + 1 \in Nat
    BY <1>0
  <2>1. Whole("up", up', sent)
    <3>1. /\ ~up.pending
          /\ up' = [up EXCEPT !.pending = TRUE, !.frag = 0, !.batch = batches + 1]
      BY <1>1 DEF SendBatch
    <3> QED BY <1>0, <2>n, <3>1, WholeStart
  <2>2. Whole("mesh", mesh', sent)
    <3>1. CASE mesh' = mesh
      BY <1>0, <3>1
    <3>2. CASE /\ ~mesh.pending
               /\ mesh' = [mesh EXCEPT !.pending = TRUE, !.frag = 0, !.batch = batches + 1]
      BY <1>0, <2>n, <3>2, WholeStart
    <3> QED BY <1>1, <3>1, <3>2 DEF SendBatch, MeshEnqueue
  <2>3. pc = "air" /\ frame.kind = "mesh" => mesh'.pending
    BY <1>0, <1>1 DEF SendBatch, MeshEnqueue
  <2>4. ~(pc \in {"air", "debit"} /\ frame.kind = "up")
    BY <1>0, <1>1 DEF SendBatch
  <2> QED BY <1>0, <1>1, <2>1, <2>2, <2>3, <2>4 DEF SendBatch, taskVars, historyVars
<1>2. CASE LinkSet \/ LinkSanitize \/ LinkOrder \/ RegionSet \/ RegionClear
           \/ RegionApply \/ RegionRetune \/ WifiChanges \/ FallbackOn \/ FallbackPlan
           \/ FallbackRaise \/ FallbackOff \/ MeshConfigure \/ Enqueue
  BY <1>0, <1>2 DEF LinkSet, LinkSanitize, LinkOrder, RegionSet, RegionClear,
     RegionApply, RegionRetune, WifiChanges, FallbackOn, FallbackPlan, FallbackRaise,
     FallbackOff, MeshConfigure, Enqueue, Command, Touch, WritePlan, historyVars,
     sharedVars, taskVars
<1>3. CASE Beacon
  BY <1>0, <1>3 DEF Beacon, SendSmos, OnChannel, LinkTick, TaskOnly, loopVars, historyVars
<1>4. CASE Uplink
  BY <1>0, <1>4 DEF Uplink, UplinkDue, SendSmos, OnChannel, LinkTick, TaskOnly, loopVars,
     historyVars
<1>5. CASE MeshTx
  BY <1>0, <1>5 DEF MeshTx, OnChannel, LinkTick, TaskOnly, loopVars, historyVars
<1>6. CASE Aired
  <2>0. frame' = frame /\ pc = "air" /\ pc' = "debit" /\ up' = up
    BY <1>6 DEF Aired
  <2>1. CASE frame.kind = "up"
    <3>1. /\ OnAir(up) \in SentFrames /\ OnAir(up).kind = "up" /\ OnAir(up).seq = up.seq
          /\ OnAir(up).frag = up.frag /\ OnAir(up).batch = up.batch
      BY <1>0, <2>1 DEF OnAir, SentFrames, Queues
    <3>2. sent' = sent \cup {OnAir(up)} /\ mesh' = mesh
      BY <1>6, <2>1 DEF Aired
    <3>3. Whole("up", up, sent') /\ Has(sent', "up", up.seq, up.frag)
      BY <1>0, <2>0, <2>1, <3>1, <3>2, WholeAir
    <3>4. Whole("mesh", mesh, sent')
      BY <1>0, <3>1, <3>2, WholeOther
    <3> QED BY <1>0, <2>0, <2>1, <3>1, <3>2, <3>3, <3>4
  <2>2. CASE frame.kind = "mesh"
    <3>1. /\ OnAir(mesh) \in SentFrames /\ OnAir(mesh).kind = "mesh"
          /\ OnAir(mesh).seq = mesh.seq /\ OnAir(mesh).frag = mesh.frag
          /\ OnAir(mesh).batch = mesh.batch
      BY <1>0, <2>2 DEF OnAir, SentFrames, Queues
    <3>2. sent' = sent \cup {OnAir(mesh)} /\ mesh' = Advanced(mesh)
      BY <1>6, <2>2 DEF Aired
    <3>3. Whole("mesh", mesh, sent') /\ Has(sent', "mesh", mesh.seq, mesh.frag)
      BY <1>0, <2>0, <2>2, <3>1, <3>2, WholeAir
    <3>4. sent' \in SUBSET SentFrames
      BY <1>0, <3>1, <3>2
    <3>5. Whole("mesh", mesh', sent')
      BY <1>0, <3>2, <3>3, <3>4, WholeAdvanced
    <3>6. Whole("up", up, sent')
      BY <1>0, <3>1, <3>2, WholeOther
    <3> QED BY <1>0, <2>0, <2>2, <3>4, <3>5, <3>6
  <2>3. CASE frame.kind \notin {"up", "mesh"}
    BY <1>0, <2>0, <1>6, <2>3 DEF Aired
  <2> QED BY <2>1, <2>2, <2>3
<1>7. CASE AirFails
  BY <1>0, <1>7 DEF AirFails, TaskOnly, loopVars
<1>8. CASE Debit
  <2>1. pc = "debit" /\ pc' \notin {"air", "debit"} /\ sent' = sent /\ mesh' = mesh
    BY <1>8 DEF Debit, historyVars
  <2>2. Whole("up", up', sent)
    <3>1. CASE frame.kind = "up"
      <4>1. up' = Advanced(up)
        BY <1>8, <3>1 DEF Debit
      <4> QED BY <1>0, <2>1, <3>1, <4>1, WholeAdvanced
    <3>2. CASE frame.kind # "up"
      BY <1>0, <1>8, <3>2 DEF Debit
    <3> QED BY <3>1, <3>2
  <2> QED BY <1>0, <2>1, <2>2
<1>9. CASE JobStart \/ JobEnd \/ BgCycle \/ Retune \/ RetuneDone \/ RetuneFailed
           \/ Restore \/ ClockTick
  BY <1>0, <1>9 DEF JobStart, JobEnd, BgCycle, Retune, RetuneDone, RetuneFailed,
     Restore, ClockTick, TaskOnly, historyVars, loopVars, sharedVars, taskVars
<1> QED
  BY <1>1, <1>2, <1>3, <1>4, <1>5, <1>6, <1>7, <1>8, <1>9 DEF LinkNext, LoopStep,
     TaskStep

-----------------------------------------------------------------------------
(* The invariant, and what follows from it. *)

LEMMA LinkInvInit == LinkInit => LinkInv
<1> SUFFICES ASSUME LinkInit PROVE LinkInv
  OBVIOUS
<1>0. /\ LORA_LINK_MAX_CH \in Nat /\ NFrag \in Nat /\ 0 < NFrag
      /\ LORA_CFG_FAIL_MAX \in Nat /\ RegionDefault \in Regions
      /\ Limit \in [Regions -> [Bands -> Nat]] /\ SecsPerMin \in Nat /\ SecsPerMin > 2
  BY PlanAssumption, LinkAssumption
<1>d. DefaultCh(RegionDefault) \in Channels
  BY <1>0, DefaultLegal
<1> USE DEF LinkInit
<1>1. PlanTyped /\ FlagsTyped /\ ControlTyped
  <2>1. PlanTyped
    BY <1>0, <1>d DEF PlanTyped
  <2>2. FlagsTyped
    BY DEF FlagsTyped
  <2>3. ControlTyped
    BY DEF ControlTyped, Places, Passes
  <2> QED BY <2>1, <2>2, <2>3
<1>2. TuningTyped
  BY <1>0 DEF TuningTyped, Tunings
<1>3. CountersTyped
  BY DEF CountersTyped, Frames, NoFrame, Bands
<1>4. QueuesTyped
  BY <1>0 DEF QueuesTyped, Queues
<1>5. IntentKept /\ PlanFits /\ RadioKnown
  <2>1. IntentKept
    BY DEF IntentKept
  <2>2. PlanFits
    BY DEF PlanFits
  <2> QED BY <2>1, <2>2 DEF RadioKnown, Fresh, Standing, Tuning, WayBack
<1>6. Counted
  <2>1. \A b \in Bands : aired[b] = 0 /\ Rolled(b) = 0
    BY DEF Rolled
  <2> QED BY <2>1 DEF Counted
<1>7. WithinBudget
  BY <1>0 DEF WithinBudget
<1>8. Dispatched
  BY DEF Dispatched, Whole
<1> QED BY <1>1, <1>2, <1>3, <1>4, <1>5, <1>6, <1>7, <1>8 DEF LinkInv, Typed

LEMMA LinkInvStep == LinkInv /\ [LinkNext]_linkVars => LinkInv'
<1>1. ASSUME LinkInv, LinkNext PROVE LinkInv'
  <2>1. Typed'
    BY <1>1, ControlStep, FlagsStep, PlanStep, TuningStep, QueuesStep, CountersStep
       DEF Typed
  <2> QED
    BY <1>1, <2>1, IntentStep, FitsStep, RadioStep, CountersExactStep, DispatchStep
       DEF LinkInv
<1>2. ASSUME LinkInv, UNCHANGED linkVars PROVE LinkInv'
  <2> USE DEF linkVars, sharedVars, loopVars, taskVars, historyVars
  <2>1. UNCHANGED <<Plan, Minute>> /\ \A b \in Bands : Rolled(b)' = Rolled(b)
    BY <1>2 DEF Plan, Minute, Rolled
  <2>2. Typed'
    BY <1>2 DEF LinkInv, Typed, PlanTyped, FlagsTyped, ControlTyped, TuningTyped,
       CountersTyped, QueuesTyped
  <2>3. IntentKept' /\ PlanFits' /\ RadioKnown'
    BY <1>2, <2>1 DEF LinkInv, IntentKept, PlanFits, RadioKnown, Fresh, Standing, Tuning,
       WayBack
  <2>4. Counted' /\ WithinBudget' /\ Dispatched'
    BY <1>2, <2>1 DEF LinkInv, Counted, WithinBudget, Dispatched
  <2> QED BY <2>2, <2>3, <2>4 DEF LinkInv
<1> QED BY <1>1, <1>2

\* The state of loop and radio task is consistent in every behaviour.
THEOREM LinkInvariant == LinkSpec => []LinkInv
BY LinkInvInit, LinkInvStep, PTL DEF LinkSpec

\* Whatever regions and plans come in whatever order, to whatever state of the
\* radio: between changes the plan is legal in the region (plan_sanitize,
\* region_apply_to_plan), and the radio is on the channel the task takes it to
\* be on, but for the three cases in which the code itself loses it.
THEOREM PlanServed == LinkSpec => []RadioServesPlan
<1>1. LinkInv => RadioServesPlan
  <2> SUFFICES ASSUME LinkInv PROVE RadioServesPlan
    OBVIOUS
  <2>1. LoraTypeOK
    <3>1. up.frag < NFrag /\ mesh.frag < NFrag
      BY LinkAssumption DEF LinkInv, Typed, QueuesTyped, Queues
    <3>2. {fromBE, on, beOn, fbOn, wifi, want, meshOn, broken} \subseteq BOOLEAN
      BY DEF LinkInv, Typed, FlagsTyped
    <3> QED BY <3>1, <3>2 DEF LinkInv, Typed, PlanTyped, ControlTyped, TuningTyped,
         CountersTyped, LoraTypeOK, Places, Passes, Tunings
  <2>2. PlanLegal
    <3> SUFFICES ASSUME lpc = "idle", nCh > 0
                 PROVE  /\ \A i \in 1..nCh :
                               chans[i].mode = "lora" => TxAllowed(chans[i], region)
                        /\ Transmits(Plan, region)
      BY DEF PlanLegal
    <3>1. LegalPlan(Plan, region)
      BY DEF LinkInv, PlanFits
    <3>2. \A i \in 1..nCh : i \in DOMAIN Plan /\ Plan[i] = chans[i]
      BY PlanRead DEF LinkInv
    <3> QED BY <3>1, <3>2 DEF LegalPlan, Permitted, Keeps, TxAllowed
  <2>3. RadioOnPlan
    BY DEF LinkInv, RadioKnown, Standing, RadioOnPlan
  <2> QED BY <2>1, <2>2, <2>3 DEF RadioServesPlan
<1> QED BY <1>1, LinkInvariant, PTL

\* The link is on exactly if the backend or the fallback wants it, whatever
\* order lora_link_set, lora_region_set and lora_fallback_tick come in.
THEOREM LinkAsWished == LinkSpec => []LinkFollowsIntent
<1>1. LinkInv => LinkFollowsIntent
  BY DEF LinkInv, IntentKept, LinkFollowsIntent
<1> QED BY <1>1, LinkInvariant, PTL

\* No sub-band is used beyond its budget within an hour, for any limits, any
\* number of frames and both protocols, although loop() clears the counters
\* without a lock while duty_allows and duty_debit work with them.
THEOREM DutyKept == LinkSpec => []BudgetKept
<1>1. LinkInv => BudgetKept
  BY DEF LinkInv, WithinBudget, BudgetKept
<1> QED BY <1>1, LinkInvariant, PTL

\* Under a sequence number the frames of one batch go out, in order and without
\* a gap, by either path, for batches of any length.
THEOREM BatchesSentWhole == LinkSpec => []BatchesWhole
<1>1. LinkInv => BatchesWhole
  <2> SUFFICES ASSUME LinkInv, NEW s \in sent
      PROVE  /\ \A x \in sent : (x.kind = s.kind /\ x.seq = s.seq) => x.batch = s.batch
             /\ \A i \in 0..(s.frag - 1) : Has(sent, s.kind, s.seq, i)
             /\ s.seq > 0 => \A i \in 0..(NFrag - 1) : Has(sent, s.kind, s.seq - 1, i)
    BY DEF BatchesWhole, Has
  <2>1. PICK q \in Queues : Whole(s.kind, q, sent)
    BY DEF LinkInv, Typed, QueuesTyped, Dispatched, SentFrames
  <2>2. s.seq \in Nat /\ s.frag \in 0..(NFrag - 1) /\ q.seq \in Nat /\ q.frag \in Nat
        /\ NFrag \in Nat /\ s.seq <= q.seq
    BY <2>1, LinkAssumption DEF LinkInv, Dispatched, SentFrames, Queues, Whole
  <2>3. \A x \in sent : (x.kind = s.kind /\ x.seq = s.seq) => x.batch = s.batch
    BY <2>1 DEF Whole
  <2>4. ASSUME NEW i \in 0..(s.frag - 1) PROVE Has(sent, s.kind, s.seq, i)
    <3>1. CASE s.seq = q.seq
      <4>1. i \in 0..(q.frag - 1)
        BY <2>1, <2>2, <3>1 DEF Whole
      <4> QED BY <2>1, <3>1, <4>1 DEF Whole
    <3>2. CASE s.seq # q.seq
      <4>1. s.seq \in 0..(q.seq - 1) /\ i \in 0..(NFrag - 1)
        BY <2>2, <3>2
      <4> QED BY <2>1, <4>1 DEF Whole
    <3> QED BY <3>1, <3>2
  <2>5. ASSUME s.seq > 0, NEW i \in 0..(NFrag - 1) PROVE Has(sent, s.kind, s.seq - 1, i)
    <3>1. s.seq - 1 \in 0..(q.seq - 1)
      BY <2>2, <2>5
    <3> QED BY <2>1, <3>1 DEF Whole
  <2> QED BY <2>3, <2>4, <2>5
<1> QED BY <1>1, LinkInvariant, PTL
=============================================================================
