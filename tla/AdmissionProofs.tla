--------------------------- MODULE AdmissionProofs ---------------------------
(***************************************************************************)
(* Proof that the outer fees of an admitted batch are sound, for integers  *)
(* of any width, any operations, any minimum fee and any answers of the    *)
(* node.  The invariant that carries it says what the loop of build_inner  *)
(* has established about the operations it has collected so far.           *)
(***************************************************************************)
EXTENDS Admission, TLAPS

\* What CheckOp establishes about the fees of an operation.
FeesPassed(o) ==
    /\ o.max_priority_fee_per_gas <= o.max_fee_per_gas
    /\ MinPriorityFee <= o.max_priority_fee_per_gas
    /\ o.max_fee_per_gas <= U128Max

PackedOps == {pack(o).val : o \in UserOps}

LoopPCs == {"check_op", "balance_of", "simulate_validation", "user_op_hash"}

\* Types, as far as the fees depend on them.
FeeTypes ==
    /\ ops \in Seq(UserOps)
    /\ packed_ops \in Seq(PackedOps)
    /\ base_fee \in Nat /\ suggested_tip \in Nat
    /\ el_base_fee \in BaseFees /\ el_tip \in Tips

\* Where the loop stands.
LoopInv ==
    /\ Len(packed_ops) <= Len(ops)
    /\ pc = "sanity" => Len(packed_ops) = 0
    /\ pc \in {"base_fee", "max_priority_fee"} => Len(packed_ops) < Len(ops)
    /\ pc \in LoopPCs => Len(packed_ops) < Len(ops)
    /\ pc \in {"estimate_gas", "admitted"} => Len(packed_ops) = Len(ops)
    /\ pc \in LoopPCs \ {"check_op"} => FeesPassed(ops[Len(packed_ops) + 1])

\* A set that models Option<U256>.
AtMostOne(slot) == \A m, n \in slot : m = n

\* The two minima bound every operation collected so far.
MinInv ==
    /\ AtMostOne(min_user_tip) /\ AtMostOne(min_user_fee_cap)
    /\ Len(packed_ops) # 0 => min_user_tip # {}
    /\ min_user_tip = {} <=> min_user_fee_cap = {}
    /\ \A m \in min_user_tip :
          /\ m \in Nat /\ MinPriorityFee <= m
          /\ \A j \in 1 .. Len(packed_ops) : m <= ops[j].max_priority_fee_per_gas
    /\ \A c \in min_user_fee_cap :
          /\ c \in Nat /\ c <= U128Max
          /\ \A j \in 1 .. Len(packed_ops) : c <= ops[j].max_fee_per_gas
    /\ \A m \in min_user_tip, c \in min_user_fee_cap : m <= c

\* The inductive invariant.
FeeInv == FeeTypes /\ LoopInv /\ MinInv /\ OuterFeesSound

-----------------------------------------------------------------------------

\* U256Max is larger than U128Max, so a fee cap that fits u128 is no saturated sum.
LEMMA Widths == U128Max \in Nat /\ U256Max \in Nat /\ U128Max < U256Max
<1>1. U128Max \in Nat /\ U128Max >= 1
  BY U128Assumption
<1>2. (U128Max + 1) * (U128Max + 1) = U128Max * U128Max + 2 * U128Max + 1
  BY <1>1
<1>3. U128Max * U128Max \in Nat
  BY <1>1
<1> QED
  BY <1>1, <1>2, <1>3 DEF U256Max, Two128

\* The fees of an operation are natural numbers.
LEMMA OpFees ==
  ASSUME NEW o \in UserOps
  PROVE  o.max_fee_per_gas \in Nat /\ o.max_priority_fee_per_gas \in Nat
<1>1. o.max_fee_per_gas \in U256 /\ o.max_priority_fee_per_gas \in U256
  BY AdmissionAssumption DEF UserOpV07
<1> QED
  BY <1>1, Widths DEF U256

\* An operation that passes the fee policy and packs has usable fees.
LEMMA CheckedFees ==
  ASSUME NEW o \in UserOps, NEW b, check_per_op_fees(o, b) = "Ok", pack(o).ok
  PROVE  FeesPassed(o)
<1>1. /\ o.max_fee_per_gas \in Nat /\ o.max_priority_fee_per_gas \in Nat
      /\ MinPriorityFee \in Nat
  BY OpFees, FeeAssumption
<1>2. ~(o.max_priority_fee_per_gas > o.max_fee_per_gas)
  BY DEF check_per_op_fees
<1>3. ~(o.max_priority_fee_per_gas < MinPriorityFee)
  BY DEF check_per_op_fees
<1>4. pack_pair_to_bytes32(o.max_priority_fee_per_gas, o.max_fee_per_gas).ok
  <2>1. Err("Pack").ok = FALSE
    BY DEF Err
  <2> QED
    BY <2>1 DEF pack
<1>5. ~(o.max_fee_per_gas > U128Max)
  <2>1. Err("Pack").ok = FALSE
    BY DEF Err
  <2> QED
    BY <1>4, <2>1 DEF pack_pair_to_bytes32
<1> QED
  BY <1>1, <1>2, <1>3, <1>5, Widths DEF FeesPassed

\* update_min: the new slot holds one value, no larger than candidate or slot.
LEMMA UpdateMin ==
  ASSUME NEW slot, NEW c \in Nat, \A m \in slot : m \in Nat, AtMostOne(slot)
  PROVE  /\ AtMostOne(update_min(slot, c))
         /\ \A n \in update_min(slot, c) :
               n \in Nat /\ n <= c /\ (n \in slot \/ n = c) /\ \A m \in slot : n <= m
<1>1. CASE \E m \in slot : m <= c
  BY <1>1 DEF update_min, AtMostOne
<1>2. CASE ~\E m \in slot : m <= c
  BY <1>2 DEF update_min, AtMostOne
<1> QED
  BY <1>1, <1>2

\* The gas limit is never below the estimate, also when the product wraps.
LEMMA MarginCovers ==
  ASSUME NEW e \in 0 .. U64Max
  PROVE  GasWithMargin(e) >= e
<1> DEFINE p == (e * GasMarginPct) % (U64Max + 1)
<1>1. e \in Nat /\ U64Max \in Nat /\ GasMarginPct \in Nat /\ e <= U64Max
  BY GasMarginAssumption
<1>2. e * GasMarginPct \in Nat
  BY <1>1
<1>3. p \in Nat
  BY <1>1, <1>2
<1> HIDE DEF p
<1>4. p \div 100 \in Nat
  BY <1>3
<1>5. saturating_u64(e + (p \div 100)) >= e
  BY <1>1, <1>4 DEF saturating_u64
<1> QED
  BY <1>5 DEF GasWithMargin, p

(***************************************************************************)
(* choose_outer_fees: the chosen fees cost the sequencer at most what an   *)
(* operation with at least these minima reimburses, at every base fee.     *)
(***************************************************************************)
LEMMA ChosenFees ==
  ASSUME NEW b \in Nat, NEW s \in Nat, NEW m \in Nat, NEW c \in Nat,
         MinPriorityFee <= m, m <= c, c <= U128Max,
         choose_outer_fees(b, s, m, c).ok
  PROVE  LET f == choose_outer_fees(b, s, m, c).val
         IN  /\ f.fee_cap = c /\ f.tip \in Nat
             /\ MinPriorityFee <= f.tip /\ f.tip <= m
             /\ b + f.tip <= c
<1> DEFINE tip == min_u256(max_u256(MinPriorityFee, s), m)
<1>1. tip \in Nat /\ MinPriorityFee <= tip /\ tip <= m
  BY FeeAssumption DEF min_u256, max_u256
<1>2. ~(c < saturating_add(b, tip))
  BY DEF choose_outer_fees, Ok, Err
<1>3. choose_outer_fees(b, s, m, c).val = [tip |-> tip, fee_cap |-> c]
  BY <1>2 DEF choose_outer_fees, Ok
<1> HIDE DEF tip
<1>4. b + tip <= c
  BY <1>1, <1>2, Widths DEF saturating_add, min_u256
<1> QED
  BY <1>1, <1>3, <1>4

\* The price per gas is monotone in fee cap and tip.
LEMMA GasPriceMonotone ==
  ASSUME NEW f \in Nat, NEW t \in Nat, NEW F \in Nat, NEW T \in Nat, NEW b \in Nat,
         f <= F, t <= T
  PROVE  GasPrice(f, t, b) <= GasPrice(F, T, b)
<1> QED
  BY DEF GasPrice, min_u256

-----------------------------------------------------------------------------

\* The initial states satisfy the invariant.
LEMMA InitFeeInv == AdmissionInit => FeeInv
<1> SUFFICES ASSUME AdmissionInit PROVE FeeInv
  OBVIOUS
<1>1. ops \in Seq(UserOps)
  BY AdmissionAssumption DEF AdmissionInit
<1>2. packed_ops = <<>> /\ packed_ops \in Seq(PackedOps) /\ Len(packed_ops) = 0
  BY DEF AdmissionInit
<1>3. FeeTypes
  BY <1>1, <1>2 DEF AdmissionInit, FeeTypes
<1>4. LoopInv /\ MinInv /\ OuterFeesSound
  BY <1>1, <1>2 DEF AdmissionInit, LoopInv, LoopPCs, MinInv, AtMostOne, OuterFeesSound
<1> QED
  BY <1>3, <1>4 DEF FeeInv

\* A step that only moves the control state, and not to "admitted".
LEMMA ControlStep ==
  ASSUME FeeInv,
         UNCHANGED <<ops, packed_ops, min_user_tip, min_user_fee_cap>>,
         base_fee' \in Nat, suggested_tip' \in Nat,
         el_base_fee' \in BaseFees, el_tip' \in Tips,
         pc' # "admitted", pc' # "sanity" \/ pc = "sanity",
         pc' # "estimate_gas" \/ pc = "estimate_gas",
         pc' \in {"base_fee", "max_priority_fee"} \cup LoopPCs
             => Len(packed_ops) < Len(ops),
         pc' \in LoopPCs \ {"check_op"} => FeesPassed(ops[Len(packed_ops) + 1])
  PROVE  FeeInv'
<1>1. FeeTypes'
  BY DEF FeeInv, FeeTypes
<1>2. LoopInv'
  BY DEF FeeInv, LoopInv, FeesPassed
<1>3. MinInv'
  BY DEF FeeInv, MinInv, AtMostOne
<1>4. OuterFeesSound'
  BY DEF OuterFeesSound
<1> QED
  BY <1>1, <1>2, <1>3, <1>4 DEF FeeInv

\* The loop collects an operation: the minima take its fees in.
LEMMA CollectOpStep ==
  ASSUME FeeInv, CollectOp
  PROVE  FeeInv'
<1> DEFINE k == Len(packed_ops) + 1
<1>0. UNCHANGED <<ops, base_fee, suggested_tip, el_base_fee, el_tip>>
  BY DEF CollectOp, request, snapshot, node
<1>1. /\ pc = "user_op_hash" /\ Index = k
      /\ Len(packed_ops) \in Nat /\ k \in 1 .. Len(ops) /\ Len(ops) \in Nat
  BY DEF FeeInv, FeeTypes, LoopInv, LoopPCs, CollectOp, Index
<1>2. Op = ops[k] /\ ops[k] \in UserOps /\ FeesPassed(ops[k])
  BY <1>1 DEF FeeInv, FeeTypes, LoopInv, LoopPCs, Op
<1>3. Packed \in PackedOps
  BY <1>2 DEF Packed, PackedOps
<1>4. packed_ops' \in Seq(PackedOps) /\ Len(packed_ops') = k
  BY <1>3 DEF FeeInv, FeeTypes, CollectOp
<1>5. FeeTypes'
  BY <1>0, <1>4 DEF FeeInv, FeeTypes
<1>6. \/ pc' = "estimate_gas" /\ k = Len(ops)
      \/ pc' = "check_op" /\ k # Len(ops)
  BY <1>1 DEF CollectOp
<1>7. LoopInv'
  BY <1>0, <1>1, <1>4, <1>6 DEF LoopInv, LoopPCs
<1>8. /\ ops[k].max_priority_fee_per_gas \in Nat /\ ops[k].max_fee_per_gas \in Nat
      /\ MinPriorityFee \in Nat
  BY <1>2, OpFees, FeeAssumption
<1>9. /\ min_user_tip' = update_min(min_user_tip, ops[k].max_priority_fee_per_gas)
      /\ min_user_fee_cap' = update_min(min_user_fee_cap, ops[k].max_fee_per_gas)
  BY <1>2 DEF CollectOp
<1>10. /\ AtMostOne(min_user_tip')
       /\ \A n \in min_user_tip' :
             /\ n \in Nat /\ n <= ops[k].max_priority_fee_per_gas
             /\ n \in min_user_tip \/ n = ops[k].max_priority_fee_per_gas
             /\ \A m \in min_user_tip : n <= m
  BY <1>8, <1>9, UpdateMin DEF FeeInv, MinInv
<1>11. /\ AtMostOne(min_user_fee_cap')
       /\ \A n \in min_user_fee_cap' :
             /\ n \in Nat /\ n <= ops[k].max_fee_per_gas
             /\ n \in min_user_fee_cap \/ n = ops[k].max_fee_per_gas
             /\ \A m \in min_user_fee_cap : n <= m
  BY <1>8, <1>9, UpdateMin DEF FeeInv, MinInv
<1>12. min_user_tip' # {} /\ min_user_fee_cap' # {}
  BY <1>9 DEF update_min
<1>13. \A j \in 1 .. Len(packed_ops) :
          /\ ops[j].max_priority_fee_per_gas \in Nat
          /\ ops[j].max_fee_per_gas \in Nat
  <2>1. \A j \in 1 .. Len(packed_ops) : ops[j] \in UserOps
    BY <1>1 DEF FeeInv, FeeTypes
  <2> QED
    BY <2>1, OpFees
<1>14. \A n \in min_user_tip' :
          /\ MinPriorityFee <= n
          /\ \A j \in 1 .. k : n <= ops[j].max_priority_fee_per_gas
  <2> SUFFICES ASSUME NEW n \in min_user_tip'
               PROVE  /\ MinPriorityFee <= n
                      /\ \A j \in 1 .. k : n <= ops[j].max_priority_fee_per_gas
    OBVIOUS
  <2>1. MinPriorityFee <= n
    BY <1>2, <1>10 DEF FeeInv, MinInv, FeesPassed
  <2>2. ASSUME NEW j \in 1 .. Len(packed_ops)
        PROVE  n <= ops[j].max_priority_fee_per_gas
    <3>1. PICK m \in min_user_tip : m \in Nat /\ m <= ops[j].max_priority_fee_per_gas
      BY <1>1 DEF FeeInv, MinInv
    <3> QED
      BY <1>10, <1>13, <3>1
  <2> QED
    BY <1>1, <1>10, <2>1, <2>2
<1>15. \A n \in min_user_fee_cap' :
          /\ n <= U128Max
          /\ \A j \in 1 .. k : n <= ops[j].max_fee_per_gas
  <2> SUFFICES ASSUME NEW n \in min_user_fee_cap'
               PROVE  n <= U128Max /\ \A j \in 1 .. k : n <= ops[j].max_fee_per_gas
    OBVIOUS
  <2>1. n <= U128Max
    BY <1>2, <1>11 DEF FeeInv, MinInv, FeesPassed
  <2>2. ASSUME NEW j \in 1 .. Len(packed_ops)
        PROVE  n <= ops[j].max_fee_per_gas
    <3>1. PICK m \in min_user_fee_cap : m \in Nat /\ m <= ops[j].max_fee_per_gas
      BY <1>1 DEF FeeInv, MinInv
    <3> QED
      BY <1>11, <1>13, <3>1
  <2> QED
    BY <1>1, <1>11, <2>1, <2>2
<1>16. \A m \in min_user_tip', c \in min_user_fee_cap' : m <= c
  <2> SUFFICES ASSUME NEW m \in min_user_tip', NEW c \in min_user_fee_cap'
               PROVE  m <= c
    OBVIOUS
  <2>1. CASE c = ops[k].max_fee_per_gas
    BY <1>2, <1>8, <1>10, <2>1 DEF FeesPassed
  <2>2. CASE c \in min_user_fee_cap
    <3>1. CASE m \in min_user_tip
      BY <2>2, <3>1 DEF FeeInv, MinInv
    <3>2. CASE m \notin min_user_tip
      <4>1. PICK m0 \in min_user_tip : m0 \in Nat /\ m0 <= c
        BY <2>2 DEF FeeInv, MinInv
      <4> QED
        BY <1>10, <1>11, <4>1
    <3> QED
      BY <3>1, <3>2
  <2> QED
    BY <1>11, <2>1, <2>2
<1>17. MinInv'
  BY <1>0, <1>4, <1>10, <1>11, <1>12, <1>14, <1>15, <1>16 DEF MinInv, AtMostOne
<1>18. OuterFeesSound'
  BY <1>6 DEF OuterFeesSound
<1> QED
  BY <1>5, <1>7, <1>17, <1>18 DEF FeeInv

\* The outer fees are chosen from the minima.
LEMMA ChooseFeesStep ==
  ASSUME FeeInv, ChooseFees
  PROVE  FeeInv'
<1>0. /\ UNCHANGED <<ops, packed_ops, base_fee, suggested_tip, el_base_fee, el_tip,
                     min_user_tip, min_user_fee_cap>>
      /\ pc = "estimate_gas" /\ pc' \in {"admitted", "failed"}
  BY DEF ChooseFees, request, snapshot, collected, node, Fail
<1>1. FeeTypes' /\ MinInv'
  BY <1>0 DEF FeeInv, FeeTypes, MinInv, AtMostOne
<1>2. LoopInv'
  BY <1>0 DEF FeeInv, LoopInv, LoopPCs
<1>3. OuterFeesSound'
  <2> SUFFICES ASSUME pc' = "admitted" PROVE OuterFeesSound'
    BY DEF OuterFeesSound
  <2>1. PICK m \in min_user_tip, c \in min_user_fee_cap :
           /\ choose_outer_fees(base_fee, suggested_tip, m, c).ok
           /\ fees' = choose_outer_fees(base_fee, suggested_tip, m, c).val
    BY DEF ChooseFees, Fail
  <2>2. /\ m \in Nat /\ MinPriorityFee <= m /\ m <= c
        /\ c \in Nat /\ c <= U128Max
        /\ base_fee \in Nat /\ suggested_tip \in Nat
    BY DEF FeeInv, FeeTypes, MinInv
  <2>3. /\ fees'.fee_cap = c /\ fees'.tip \in Nat
        /\ MinPriorityFee <= fees'.tip /\ fees'.tip <= m
        /\ base_fee + fees'.tip <= c
    <3> DEFINE f == choose_outer_fees(base_fee, suggested_tip, m, c).val
    <3>1. /\ f.fee_cap = c /\ f.tip \in Nat
          /\ MinPriorityFee <= f.tip /\ f.tip <= m /\ base_fee + f.tip <= c
      BY <2>1, <2>2, ChosenFees
    <3>2. fees' = f
      BY <2>1
    <3> HIDE DEF f
    <3> QED
      BY <3>1, <3>2
  <2>4. \A j \in 1 .. Len(ops) :
           /\ ops[j].max_priority_fee_per_gas \in Nat /\ ops[j].max_fee_per_gas \in Nat
           /\ m <= ops[j].max_priority_fee_per_gas /\ c <= ops[j].max_fee_per_gas
    <3>1. \A j \in 1 .. Len(ops) : ops[j] \in UserOps
      BY DEF FeeInv, FeeTypes
    <3>2. Len(packed_ops) = Len(ops)
      BY <1>0 DEF FeeInv, LoopInv
    <3> QED
      BY <3>1, <3>2, OpFees DEF FeeInv, MinInv
  <2>5. \A j \in 1 .. Len(ops), b \in 0 .. U256Max :
           GasPrice(fees'.fee_cap, fees'.tip, b)
               <= GasPrice(ops[j].max_fee_per_gas, ops[j].max_priority_fee_per_gas, b)
    <3> SUFFICES ASSUME NEW j \in 1 .. Len(ops), NEW b \in 0 .. U256Max
                 PROVE  GasPrice(fees'.fee_cap, fees'.tip, b)
                            <= GasPrice(ops[j].max_fee_per_gas,
                                        ops[j].max_priority_fee_per_gas, b)
      OBVIOUS
    <3>1. b \in Nat
      BY Widths
    <3>2. /\ fees'.fee_cap \in Nat /\ fees'.tip \in Nat
          /\ fees'.fee_cap <= ops[j].max_fee_per_gas
          /\ fees'.tip <= ops[j].max_priority_fee_per_gas
      BY <2>2, <2>3, <2>4
    <3> QED
      BY <2>4, <3>1, <3>2, GasPriceMonotone
  <2>6. MinPriorityFee <= fees'.tip /\ fees'.tip <= fees'.fee_cap
    BY <2>2, <2>3, FeeAssumption
  <2>7. gas' >= estimated'
    <3>1. estimated' \in 0 .. U64Max /\ gas' = GasWithMargin(estimated')
      BY AdmissionAssumption DEF ChooseFees
    <3> QED
      BY <3>1, MarginCovers
  <2>8. base_fee' + fees'.tip <= fees'.fee_cap /\ fees'.fee_cap <= U128Max
    BY <1>0, <2>2, <2>3
  <2>9. ops' = ops
    BY <1>0
  <2> QED
    BY <2>5, <2>6, <2>7, <2>8, <2>9 DEF OuterFeesSound, GasPrice
<1> QED
  BY <1>1, <1>2, <1>3 DEF FeeInv

\* A stuttering step.
LEMMA FeeStutter ==
  ASSUME FeeInv, UNCHANGED adm_vars
  PROVE  FeeInv'
<1>1. FeeTypes' /\ LoopInv' /\ MinInv'
  BY DEF FeeInv, FeeTypes, LoopInv, MinInv, AtMostOne, FeesPassed, adm_vars
<1>2. OuterFeesSound'
  BY DEF FeeInv, OuterFeesSound, adm_vars
<1> QED
  BY <1>1, <1>2 DEF FeeInv

\* Every step of the checks preserves the invariant.
LEMMA NextFeeInv == FeeInv /\ [AdmissionNext]_adm_vars => FeeInv'
<1> SUFFICES ASSUME FeeInv, [AdmissionNext]_adm_vars PROVE FeeInv'
  OBVIOUS
<1> USE DEF request, snapshot, collected, node, outer, Step, Fail
<1>0. /\ base_fee \in Nat /\ suggested_tip \in Nat
      /\ el_base_fee \in BaseFees /\ el_tip \in Tips
      /\ BaseFees \subseteq Nat /\ Tips \subseteq Nat
      /\ Len(ops) \in Nat /\ Len(packed_ops) \in Nat
  BY AdmissionAssumption, Widths DEF FeeInv, FeeTypes, U256
<1>1. CASE Sanity
  <2>1. pc' = "failed" \/ (pc' = "base_fee" /\ Len(ops) # 0)
    BY <1>1 DEF Sanity
  <2>2. Len(packed_ops) = 0
    BY <1>1 DEF Sanity, FeeInv, LoopInv
  <2> QED
    BY <1>0, <1>1, <2>1, <2>2, ControlStep DEF Sanity, LoopPCs
<1>2. CASE ReadBaseFee
  BY <1>0, <1>2, ControlStep DEF ReadBaseFee, LoopPCs, FeeInv, LoopInv
<1>3. CASE ReadTip
  BY <1>0, <1>3, ControlStep DEF ReadTip, LoopPCs, FeeInv, LoopInv
<1>4. CASE CheckOp
  <2>1. Op \in UserOps /\ Op = ops[Len(packed_ops) + 1] /\ Len(packed_ops) < Len(ops)
    BY <1>0, <1>4 DEF CheckOp, Op, Index, FeeInv, FeeTypes, LoopInv, LoopPCs
  <2>2. CASE pc' = "failed"
    BY <1>0, <1>4, <2>2, ControlStep DEF CheckOp, LoopPCs
  <2>3. CASE pc' # "failed"
    <3>1. /\ check_per_op_fees(Op, base_fee) = "Ok"
          /\ pc' = "balance_of"
      BY <1>4, <2>3 DEF CheckOp
    <3>2. pack(Op).ok
      <4>1. pack(Op).ok \/ pack(Op) = Err("Pack")
        BY DEF pack, Ok
      <4>2. Err("Pack").err = "Pack"
        BY DEF Err
      <4> QED
        BY <1>4, <2>3, <4>1, <4>2 DEF CheckOp
    <3>3. FeesPassed(ops[Len(packed_ops) + 1])
      BY <2>1, <3>1, <3>2, CheckedFees
    <3> QED
      BY <1>0, <1>4, <2>1, <3>1, <3>3, ControlStep DEF CheckOp, LoopPCs
  <2> QED
    BY <2>2, <2>3
<1>5. CASE CheckPrefund
  BY <1>0, <1>5, ControlStep DEF CheckPrefund, LoopPCs, FeeInv, LoopInv
<1>6. CASE Simulate
  BY <1>0, <1>6, ControlStep DEF Simulate, LoopPCs, FeeInv, LoopInv
<1>7. CASE SimulateReverts
  BY <1>0, <1>7, ControlStep DEF SimulateReverts, LoopPCs
<1>8. CASE CollectOp
  BY <1>8, CollectOpStep
<1>9. CASE ChooseFees
  BY <1>9, ChooseFeesStep
<1>10. CASE CallFails
  BY <1>0, <1>10, ControlStep DEF CallFails, LoopPCs
<1>11. CASE NodeMoves
  BY <1>0, <1>11, ControlStep DEF NodeMoves, LoopPCs, FeeInv, LoopInv
<1>12. CASE Answered \/ UNCHANGED adm_vars
  BY <1>12, FeeStutter DEF Answered
<1> QED
  BY <1>1, <1>2, <1>3, <1>4, <1>5, <1>6, <1>7, <1>8, <1>9, <1>10, <1>11, <1>12
     DEF AdmissionNext

(***************************************************************************)
(* The outer fees chosen by build_inner never under-reimburse the          *)
(* sequencer, respect the configured minimum and fit the envelope.         *)
(***************************************************************************)
THEOREM OuterFeesSoundHolds == AdmissionSpec => []OuterFeesSound
<1>1. FeeInv => OuterFeesSound
  BY DEF FeeInv
<1> QED
  BY <1>1, InitFeeInv, NextFeeInv, PTL DEF AdmissionSpec
=============================================================================
