--------------------------- MODULE SponsorshipProofs ---------------------------
(***************************************************************************)
(* Proofs about Sponsorship, for all sponsors, prefunds, deposits, batches *)
(* and any number of requests.  The sum that handleOps charges is never    *)
(* taken apart: it depends on the batch alone.                             *)
(***************************************************************************)
EXTENDS Sponsorship, TLAPS

\* An estimated batch that nothing has happened to would pass now; its limit is that of
\* its estimate.
ExposedInv ==
    \A r \in Requests : Exposed(r) =>
        /\ touched[r] \/ HandleOpsPasses(batch[r])
        /\ estimated[r] \in GasUses
        /\ limit[r] = GasWithMargin(estimated[r])

SInv == SponsorshipTypeOK /\ ExposedInv /\ LossNeedsInterference

Phases == Checking \cup {"idle", "estimated", "sent", "lost"}

-----------------------------------------------------------------------------

LEMMA InitSInv == SponsorshipInit => SInv
<1> SUFFICES ASSUME SponsorshipInit PROVE SInv
  OBVIOUS
<1>1. touched \in [Requests -> BOOLEAN]
  BY Zenon DEF SponsorshipInit
<1>2. limit \in [Requests -> 0 .. U64Max]
  BY GasMarginAssumption DEF SponsorshipInit
<1> QED
  BY <1>1, <1>2, SponsorshipAssumption
     DEF SponsorshipInit, SInv, SponsorshipTypeOK, ExposedInv, LossNeedsInterference, Exposed,
         Checking

(***************************************************************************)
(* The limit of bundler.rs is a u64, and who needs more than it needs more *)
(* than the margin grants: the rounding of the division loses nothing.     *)
(***************************************************************************)
LEMMA MarginHolds ==
  ASSUME NEW g \in 0 .. U64Max, NEW n \in 0 .. U64Max
  PROVE  /\ GasWithMargin(g) \in 0 .. U64Max
         /\ n > GasWithMargin(g) =>
               /\ n > g
               /\ g * GasMarginPct <= U64Max => 100 * (n - g) > g * GasMarginPct
<1> DEFINE t == g * GasMarginPct
<1> DEFINE w == t % (U64Max + 1)
<1>1. g \in Nat /\ n \in Nat /\ U64Max \in Nat /\ g <= U64Max /\ n <= U64Max /\ t \in Nat
  BY GasMarginAssumption
<1> HIDE DEF t
<1>2. w \in Nat /\ (t <= U64Max => w = t)
  BY <1>1
<1>3. GasWithMargin(g) = saturating_u64(g + (w \div 100))
  BY DEF GasWithMargin, t
<1> HIDE DEF w
<1>4. w \div 100 \in Nat /\ 100 * (w \div 100) <= w /\ w < 100 * (w \div 100) + 100
  BY <1>2
<1>5. GasWithMargin(g) \in 0 .. U64Max
  BY <1>1, <1>3, <1>4 DEF saturating_u64
<1>6. ASSUME n > GasWithMargin(g)
      PROVE  n > g /\ (t <= U64Max => 100 * (n - g) > t)
  <2>1. n >= g + (w \div 100) + 1
    BY <1>1, <1>3, <1>4, <1>6 DEF saturating_u64
  <2> QED
    BY <1>1, <1>2, <1>4, <2>1
<1> QED
  BY <1>5, <1>6 DEF t

\* A chain step that does not touch a batch leaves its handleOps passing.
LEMMA UntouchedPasses ==
  ASSUME SponsorshipTypeOK, NEW q \in Requests,
         deposit' \in [Sponsors -> 0 .. MaxDeposit],
         HandleOpsPasses(batch[q]), ~Touches(q), batch'[q] = batch[q]
  PROVE  HandleOpsPasses(batch[q])'
<1>1. \A i \in DOMAIN batch[q] : batch[q][i] \in Ops
  BY DEF SponsorshipTypeOK
<1>2. \A s \in SponsorsOf(batch[q]) :
        s \in Sponsors /\ deposit[s] \in Nat /\ deposit'[s] \in Nat /\ deposit[s] <= deposit'[s]
  <2>1. \A s \in SponsorsOf(batch[q]) : s \in Sponsors /\ ~(deposit'[s] < deposit[s])
    BY <1>1, SponsorshipAssumption DEF Touches, SponsorsOf
  <2>2. \A s \in Sponsors : deposit[s] \in Nat /\ deposit'[s] \in Nat
    BY SponsorshipAssumption DEF SponsorshipTypeOK
  <2> QED
    BY <2>1, <2>2
<1>3. SponsorsOf(batch[q])' = SponsorsOf(batch[q])
  BY DEF SponsorsOf
<1>4. \A s : Charge(batch[q], s)' = Charge(batch[q], s)
  OBVIOUS
<1>5. \A s \in SponsorsOf(batch[q]) : Charge(batch[q], s) \in 0 .. deposit'[s]
  <2>1. \A s \in SponsorsOf(batch[q]) : Charge(batch[q], s) \in 0 .. deposit[s]
    BY DEF HandleOpsPasses
  <2> QED
    BY <1>2, <2>1
<1>6. \A i \in DOMAIN batch[q] : batch[q][i] \notin invalid'
  BY DEF HandleOpsPasses, Touches
<1> QED
  BY <1>3, <1>4, <1>5, <1>6 DEF HandleOpsPasses

\* Ending a request keeps the types.
LEMMA OverTypes ==
  ASSUME SponsorshipTypeOK, NEW r \in Requests, Over(r), UNCHANGED <<deposit, invalid>>,
         touched' \in [Requests -> BOOLEAN]
  PROVE  SponsorshipTypeOK'
<1>1. batch' \in [Requests -> Seq(Ops)] /\ idx' \in [Requests -> Nat]
  BY DEF SponsorshipTypeOK, Over, Forget
<1>2. phase' \in [Requests -> Phases]
  BY DEF SponsorshipTypeOK, Over, Become, Phases
<1>3. /\ limit' \in [Requests -> 0 .. U64Max]
      /\ need' \in [Requests -> GasUses \cup {0}]
      /\ estimated' \in [Requests -> GasUses \cup {0}]
  BY GasMarginAssumption DEF SponsorshipTypeOK, Over
<1>4. ASSUME NEW q \in Requests, phase'[q] \in {"balance", "simulate"}
      PROVE  idx'[q] \in DOMAIN batch'[q]
  <2>1. q # r
    BY <1>4 DEF SponsorshipTypeOK, Over, Become
  <2> QED
    BY <1>4, <2>1 DEF SponsorshipTypeOK, Over, Become, Forget
<1> QED
  BY <1>1, <1>2, <1>3, <1>4 DEF SponsorshipTypeOK, Phases

\* A request that ends takes nothing from the others.
LEMMA RejectSInv ==
  ASSUME SInv, NEW r \in Requests, Reject(r), UNCHANGED <<deposit, invalid>>
  PROVE  SInv'
<1>1. touched' \in [Requests -> BOOLEAN]
  BY Zenon DEF SInv, SponsorshipTypeOK, Reject
<1>2. SponsorshipTypeOK'
  BY <1>1, OverTypes DEF SInv, Reject
<1>3. phase'[r] = "idle"
  BY DEF Reject, Over, Become, SInv, SponsorshipTypeOK
<1>4. ASSUME NEW q \in Requests, q # r
      PROVE  /\ phase'[q] = phase[q] /\ batch'[q] = batch[q] /\ touched'[q] = touched[q]
             /\ limit'[q] = limit[q] /\ need'[q] = need[q] /\ estimated'[q] = estimated[q]
  BY <1>4 DEF Reject, Over, Forget, Become, SInv, SponsorshipTypeOK
<1>5. \A b : HandleOpsPasses(b)' <=> HandleOpsPasses(b)
  BY DEF HandleOpsPasses
<1>6. ExposedInv'
  BY <1>3, <1>4, <1>5 DEF SInv, ExposedInv, Exposed
<1>7. LossNeedsInterference'
  BY <1>3, <1>4 DEF SInv, LossNeedsInterference, OutgrewMargin
<1> QED
  BY <1>2, <1>6, <1>7 DEF SInv

\* A step of a request that only goes on to another phase, and not into the open.
LEMMA GoOnSInv ==
  ASSUME SInv, NEW r \in Requests, NEW p \in Phases \ {"lost"}, Become(r, p),
         p \in {"estimated", "sent"} => Exposed(r),
         UNCHANGED <<deposit, invalid, touched, gas>>,
         batch' \in [Requests -> Seq(Ops)], idx' \in [Requests -> Nat],
         p \in {"balance", "simulate"} => idx'[r] \in DOMAIN batch'[r],
         \A q \in Requests \ {r} : batch'[q] = batch[q] /\ idx'[q] = idx[q],
         p \in {"estimated", "sent"} => batch' = batch
  PROVE  SInv'
<1>1. phase' \in [Requests -> Phases] /\ phase'[r] = p
      /\ \A q \in Requests \ {r} : phase'[q] = phase[q]
  BY DEF SInv, SponsorshipTypeOK, Become, Phases
<1>2. \A q \in Requests :
         phase'[q] \in {"balance", "simulate"} => idx'[q] \in DOMAIN batch'[q]
  BY <1>1 DEF SInv, SponsorshipTypeOK
<1>3. SponsorshipTypeOK'
  BY <1>1, <1>2 DEF SInv, SponsorshipTypeOK, gas, Phases
<1>4. \A b : HandleOpsPasses(b)' <=> HandleOpsPasses(b)
  BY DEF HandleOpsPasses
<1>5. \A q \in Requests : Exposed(q)' => Exposed(q) /\ batch'[q] = batch[q]
  BY <1>1 DEF Exposed, Phases, Checking
<1>6. ExposedInv'
  BY <1>4, <1>5 DEF SInv, ExposedInv, gas
<1>7. LossNeedsInterference'
  BY <1>1 DEF SInv, LossNeedsInterference, OutgrewMargin, gas
<1> QED
  BY <1>3, <1>6, <1>7 DEF SInv

LEMMA BeginSInv ==
  ASSUME SInv, NEW r \in Requests, Begin(r)
  PROVE  SInv'
<1>1. PICK b : /\ \E n \in 1 .. MaxBatchSize : b \in [1 .. n -> Ops]
               /\ batch' = [batch EXCEPT ![r] = b]
  BY DEF Begin
<1>2. b \in Seq(Ops) /\ 1 \in DOMAIN b
  BY <1>1, SponsorshipAssumption
<1>3. /\ batch' \in [Requests -> Seq(Ops)] /\ idx' \in [Requests -> Nat]
      /\ idx'[r] \in DOMAIN batch'[r]
      /\ \A q \in Requests \ {r} : batch'[q] = batch[q] /\ idx'[q] = idx[q]
  BY <1>1, <1>2 DEF SInv, SponsorshipTypeOK, Begin
<1>4. Become(r, "balance") /\ "balance" \in Phases
  BY DEF Begin, Phases, Checking
<1> QED
  BY <1>3, <1>4, GoOnSInv DEF Begin

\* The loop goes to the next operation, or leaves the batch for the estimate.
LEMMA SimulateSInv ==
  ASSUME SInv, NEW r \in Requests, SimulateOp(r)
  PROVE  SInv'
<1>1. CASE Reject(r)
  BY <1>1, RejectSInv DEF SimulateOp
<1>2. CASE ~Reject(r)
  <2>1. /\ UNCHANGED <<deposit, invalid, batch, touched, gas>>
        /\ \/ Become(r, "estimate") /\ UNCHANGED idx
           \/ /\ idx[r] < Len(batch[r]) /\ Become(r, "balance")
              /\ idx' = [idx EXCEPT ![r] = @ + 1]
    BY <1>2 DEF SimulateOp
  <2>2. batch \in [Requests -> Seq(Ops)] /\ idx \in [Requests -> Nat]
    BY DEF SInv, SponsorshipTypeOK
  <2>3. CASE Become(r, "estimate") /\ UNCHANGED idx
    BY <2>1, <2>2, <2>3, GoOnSInv DEF Phases, Checking
  <2>4. CASE /\ idx[r] < Len(batch[r]) /\ Become(r, "balance")
             /\ idx' = [idx EXCEPT ![r] = @ + 1]
    <3>1. idx' \in [Requests -> Nat] /\ idx'[r] = idx[r] + 1
          /\ \A q \in Requests \ {r} : idx'[q] = idx[q]
      BY <2>2, <2>4
    <3>2. idx'[r] \in DOMAIN batch[r]
      <4>1. batch[r] \in Seq(Ops) /\ idx[r] \in Nat
        BY <2>2
      <4> QED
        BY <2>4, <3>1, <4>1
    <3> QED
      BY <2>1, <2>2, <2>4, <3>1, <3>2, GoOnSInv DEF Phases, Checking
  <2> QED
    BY <2>1, <2>3, <2>4
<1> QED
  BY <1>1, <1>2

\* The estimate is what exposes a batch: it passes then, and the limit is set.
LEMMA EstimateSInv ==
  ASSUME SInv, NEW r \in Requests, EstimateBatch(r)
  PROVE  SInv'
<1>1. CASE Reject(r)
  BY <1>1, RejectSInv DEF EstimateBatch
<1>2. CASE ~Reject(r)
  <2>1. /\ HandleOpsPasses(batch[r]) /\ Become(r, "estimated")
        /\ UNCHANGED <<deposit, invalid, batch, idx, touched>>
    BY <1>2 DEF EstimateBatch
  <2>2. PICK g \in GasUses : SetLimit(r, g)
    BY <1>2 DEF EstimateBatch
  <2>3. GasWithMargin(g) \in 0 .. U64Max
    BY MarginHolds, SponsorshipAssumption
  <2>4. /\ limit' \in [Requests -> 0 .. U64Max]
        /\ need' \in [Requests -> GasUses \cup {0}]
        /\ estimated' \in [Requests -> GasUses \cup {0}]
        /\ estimated'[r] = g /\ limit'[r] = GasWithMargin(g)
        /\ \A q \in Requests \ {r} :
              limit'[q] = limit[q] /\ need'[q] = need[q] /\ estimated'[q] = estimated[q]
    BY <2>2, <2>3 DEF SetLimit, SInv, SponsorshipTypeOK
  <2>5. /\ phase' \in [Requests -> Phases] /\ phase'[r] = "estimated"
        /\ \A q \in Requests \ {r} : phase'[q] = phase[q]
    BY <2>1 DEF Become, SInv, SponsorshipTypeOK, Phases
  <2>6. SponsorshipTypeOK'
    BY <2>1, <2>4, <2>5 DEF SInv, SponsorshipTypeOK, Phases
  <2>7. \A b : HandleOpsPasses(b)' <=> HandleOpsPasses(b)
    BY <2>1 DEF HandleOpsPasses
  <2>8. ExposedInv'
    BY <2>1, <2>4, <2>5, <2>7 DEF SInv, ExposedInv, Exposed
  <2>9. LossNeedsInterference'
    BY <2>1, <2>4, <2>5 DEF SInv, LossNeedsInterference, OutgrewMargin
  <2> QED
    BY <2>6, <2>8, <2>9 DEF SInv
<1> QED
  BY <1>1, <1>2

\* A transaction that reverts was touched, or needs more than its limit.
LEMMA MineRevertsSInv ==
  ASSUME SInv, NEW r \in Requests, MineReverts(r)
  PROVE  SInv'
<1>1. /\ phase' \in [Requests -> Phases] /\ phase'[r] = "lost"
      /\ \A q \in Requests \ {r} :
            phase'[q] = phase[q] /\ batch'[q] = batch[q] /\ idx'[q] = idx[q]
      /\ batch' \in [Requests -> Seq(Ops)] /\ idx' \in [Requests -> Nat]
  BY DEF MineReverts, Become, Forget, SInv, SponsorshipTypeOK, Phases
<1>2. UNCHANGED <<deposit, invalid, touched, limit, need, estimated>>
  BY DEF MineReverts, gas
<1>3. SponsorshipTypeOK'
  BY <1>1, <1>2 DEF SInv, SponsorshipTypeOK, Phases
<1>4. \A b : HandleOpsPasses(b)' <=> HandleOpsPasses(b)
  BY <1>2 DEF HandleOpsPasses
<1>5. ExposedInv'
  BY <1>1, <1>2, <1>4 DEF SInv, ExposedInv, Exposed
<1>6. touched[r] \/ OutgrewMargin(r)
  <2>1. /\ touched[r] \/ HandleOpsPasses(batch[r])
        /\ estimated[r] \in GasUses /\ limit[r] = GasWithMargin(estimated[r])
    BY DEF MineReverts, SInv, ExposedInv, Exposed
  <2>2. touched[r] \/ need[r] > GasWithMargin(estimated[r])
    BY <2>1 DEF MineReverts
  <2>3. estimated[r] \in 0 .. U64Max /\ need[r] \in 0 .. U64Max
    <3>1. need[r] \in GasUses \cup {0}
      BY DEF SInv, SponsorshipTypeOK
    <3>2. GasUses \subseteq 0 .. U64Max /\ 0 \in 0 .. U64Max
      BY SponsorshipAssumption, GasMarginAssumption
    <3>3. need[r] \in 0 .. U64Max
      BY <3>1, <3>2, Zenon
    <3> QED
      BY <2>1, <3>2, <3>3, Zenon
  <2> QED
    BY <2>2, <2>3, MarginHolds DEF OutgrewMargin
<1>7. LossNeedsInterference'
  BY <1>1, <1>2, <1>6 DEF SInv, LossNeedsInterference, OutgrewMargin
<1> QED
  BY <1>3, <1>5, <1>7 DEF SInv

\* While it is exposed, a batch may come to need any gas.
LEMMA NeedSInv ==
  ASSUME SInv, NEW r \in Requests, NeedChanges(r)
  PROVE  SInv'
<1>1. need' \in [Requests -> GasUses \cup {0}] /\ \A q \in Requests \ {r} : need'[q] = need[q]
  BY DEF NeedChanges, SInv, SponsorshipTypeOK
<1>2. UNCHANGED <<deposit, invalid, phase, batch, idx, touched, limit, estimated>>
  BY DEF NeedChanges
<1>3. SponsorshipTypeOK'
  BY <1>1, <1>2 DEF SInv, SponsorshipTypeOK
<1>4. \A b : HandleOpsPasses(b)' <=> HandleOpsPasses(b)
  BY <1>2 DEF HandleOpsPasses
<1>5. ExposedInv'
  BY <1>2, <1>4 DEF SInv, ExposedInv, Exposed
<1>6. phase[r] # "lost"
  BY DEF NeedChanges, Exposed
<1>7. LossNeedsInterference'
  BY <1>1, <1>2, <1>6 DEF SInv, LossNeedsInterference, OutgrewMargin
<1> QED
  BY <1>3, <1>5, <1>7 DEF SInv

LEMMA TaskStepSInv ==
  ASSUME SInv, NEW r \in Requests,
         \/ Begin(r) \/ CheckDeposit(r) \/ SimulateOp(r) \/ EstimateBatch(r)
         \/ SendBatch(r) \/ GiveUp(r) \/ MineReverts(r) \/ NeedChanges(r)
  PROVE  SInv'
<1>1. batch \in [Requests -> Seq(Ops)] /\ idx \in [Requests -> Nat]
      /\ (phase[r] = "balance" => idx[r] \in DOMAIN batch[r])
  BY DEF SInv, SponsorshipTypeOK
<1>2. CASE CheckDeposit(r)
  <2>1. CASE Reject(r)
    BY <1>2, <2>1, RejectSInv DEF CheckDeposit
  <2>2. CASE ~Reject(r)
    BY <1>1, <1>2, <2>2, GoOnSInv DEF CheckDeposit, Phases, Checking
  <2> QED
    BY <2>1, <2>2
<1>3. CASE SendBatch(r)
  BY <1>1, <1>3, GoOnSInv DEF SendBatch, Phases, Exposed
<1>4. CASE GiveUp(r)
  BY <1>4, RejectSInv DEF GiveUp
<1> QED
  BY <1>2, <1>3, <1>4, BeginSInv, SimulateSInv, EstimateSInv, MineRevertsSInv, NeedSInv

\* The chain: who loses something is marked, for the others handleOps passes on.
LEMMA ChainStepSInv ==
  ASSUME SInv,
         \/ \E r \in Requests : MineOk(r)
         \/ \E s \in Sponsors : MoveDeposit(s)
         \/ \E o \in Ops : Invalidate(o)
  PROVE  SInv'
<1>1. touched' \in [Requests -> BOOLEAN]
      /\ \A q \in Requests :
            touched'[q] <=> (phase'[q] # "idle" /\ (touched[q] \/ (Exposed(q) /\ Touches(q))))
  <2>1. MarkTouched
    BY DEF MineOk, MoveDeposit, Invalidate
  <2> QED
    BY <2>1, Zenon DEF MarkTouched, SInv, SponsorshipTypeOK
<1>2. deposit' \in [Sponsors -> 0 .. MaxDeposit]
  <2>1. ASSUME NEW r \in Requests, MineOk(r) PROVE deposit' \in [Sponsors -> 0 .. MaxDeposit]
    BY <2>1, SponsorshipAssumption DEF MineOk, SInv, SponsorshipTypeOK
  <2> QED
    BY <2>1 DEF MoveDeposit, Invalidate, SInv, SponsorshipTypeOK
<1>3. invalid' \subseteq Ops
  BY DEF MineOk, MoveDeposit, Invalidate, SInv, SponsorshipTypeOK
<1>4. /\ phase' \in [Requests -> Phases]
      /\ batch' \in [Requests -> Seq(Ops)] /\ idx' \in [Requests -> Nat]
      /\ limit' \in [Requests -> 0 .. U64Max]
      /\ need' \in [Requests -> GasUses \cup {0}]
      /\ estimated' \in [Requests -> GasUses \cup {0}]
  <2>1. ASSUME NEW r \in Requests, Over(r)
        PROVE  /\ phase' \in [Requests -> Phases]
               /\ batch' \in [Requests -> Seq(Ops)] /\ idx' \in [Requests -> Nat]
               /\ limit' \in [Requests -> 0 .. U64Max]
               /\ need' \in [Requests -> GasUses \cup {0}]
               /\ estimated' \in [Requests -> GasUses \cup {0}]
    BY <2>1, GasMarginAssumption
       DEF Over, Forget, Become, SInv, SponsorshipTypeOK, Phases
  <2>2. ASSUME UNCHANGED <<phase, batch, idx, gas>>
        PROVE  /\ phase' \in [Requests -> Phases]
               /\ batch' \in [Requests -> Seq(Ops)] /\ idx' \in [Requests -> Nat]
               /\ limit' \in [Requests -> 0 .. U64Max]
               /\ need' \in [Requests -> GasUses \cup {0}]
               /\ estimated' \in [Requests -> GasUses \cup {0}]
    BY <2>2 DEF gas, SInv, SponsorshipTypeOK, Phases
  <2> QED
    BY <2>1, <2>2 DEF MineOk, MoveDeposit, Invalidate
<1>5. \A q \in Requests :
         \/ phase'[q] = "idle"
         \/ /\ phase'[q] = phase[q] /\ batch'[q] = batch[q] /\ idx'[q] = idx[q]
            /\ limit'[q] = limit[q] /\ need'[q] = need[q] /\ estimated'[q] = estimated[q]
  <2>1. ASSUME NEW q \in Requests, NEW r \in Requests, Over(r)
        PROVE  \/ phase'[q] = "idle"
               \/ /\ phase'[q] = phase[q] /\ batch'[q] = batch[q] /\ idx'[q] = idx[q]
                  /\ limit'[q] = limit[q] /\ need'[q] = need[q] /\ estimated'[q] = estimated[q]
    BY <2>1 DEF Over, Forget, Become, SInv, SponsorshipTypeOK
  <2> QED
    BY <2>1 DEF MineOk, MoveDeposit, Invalidate, gas
<1>6. SponsorshipTypeOK'
  BY <1>1, <1>2, <1>3, <1>4, <1>5 DEF SInv, SponsorshipTypeOK, Phases
<1>7. ExposedInv'
  <2> SUFFICES ASSUME NEW q \in Requests, Exposed(q)'
               PROVE  /\ touched'[q] \/ HandleOpsPasses(batch[q])'
                      /\ estimated'[q] \in GasUses
                      /\ limit'[q] = GasWithMargin(estimated'[q])
    BY DEF ExposedInv
  <2>1. /\ Exposed(q) /\ batch'[q] = batch[q]
        /\ limit'[q] = limit[q] /\ estimated'[q] = estimated[q]
    BY <1>5 DEF Exposed
  <2>2. ASSUME ~touched'[q] PROVE HandleOpsPasses(batch[q])'
    <3>1. ~touched[q] /\ ~Touches(q)
      BY <1>1, <2>1, <2>2 DEF Exposed
    <3>2. HandleOpsPasses(batch[q])
      BY <2>1, <3>1 DEF SInv, ExposedInv
    <3> QED
      BY <1>2, <2>1, <3>1, <3>2, UntouchedPasses DEF SInv
  <2> QED
    BY <2>1, <2>2 DEF SInv, ExposedInv
<1>8. LossNeedsInterference'
  BY <1>1, <1>5 DEF SInv, LossNeedsInterference, OutgrewMargin
<1> QED
  BY <1>6, <1>7, <1>8 DEF SInv

LEMMA StutterSInv == SInv /\ UNCHANGED sp_vars => SInv'
  BY DEF SInv, SponsorshipTypeOK, ExposedInv, LossNeedsInterference, Exposed, HandleOpsPasses,
     SponsorsOf, OutgrewMargin, sp_vars, gas

LEMMA SInvHolds == SponsorshipSpec => []SInv
<1>1. SInv /\ [SponsorshipNext]_sp_vars => SInv'
  BY TaskStepSInv, ChainStepSInv, StutterSInv DEF SponsorshipNext
<1> QED
  BY <1>1, InitSInv, PTL DEF SponsorshipSpec

-----------------------------------------------------------------------------

\* Type correctness: the loop of build_inner stays inside its batch.
THEOREM SponsorshipTypes == SponsorshipSpec => []SponsorshipTypeOK
<1>1. SInv => SponsorshipTypeOK
  BY DEF SInv
<1> QED
  BY <1>1, SInvHolds, PTL

(***************************************************************************)
(* check_prefund, the gas estimate and the gas margin together: a          *)
(* handleOps that the sequencer pays for and that reverts was hit by a     *)
(* change after its estimate, one that the margin does not cover.          *)
(***************************************************************************)
THEOREM LossNeedsInterferenceHolds == SponsorshipSpec => []LossNeedsInterference
<1>1. SInv => LossNeedsInterference
  BY DEF SInv
<1> QED
  BY <1>1, SInvHolds, PTL
=============================================================================
