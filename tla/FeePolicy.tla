------------------------------ MODULE FeePolicy ------------------------------
(***************************************************************************)
(* The arithmetic of crates/bundler/src/bundler.rs: per-operation fee      *)
(* policy, prefund and the fees of the outer transaction.  U256 arithmetic *)
(* saturates.                                                              *)
(***************************************************************************)
EXTENDS Packing, GasMargin

CONSTANT MinPriorityFee     \* cfg.min_priority_fee_wei

ASSUME FeeAssumption == MinPriorityFee \in Nat

min_u256(a, b) == IF a <= b THEN a ELSE b

max_u256(a, b) == IF a >= b THEN a ELSE b

saturating_add(a, b) == min_u256(a + b, U256Max)

saturating_mul(a, b) == min_u256(a * b, U256Max)

-----------------------------------------------------------------------------

\* The first rule an operation breaks, or "Ok".
check_per_op_fees(op, base_fee) ==
    IF op.max_priority_fee_per_gas > op.max_fee_per_gas THEN "InvalidUserOp"
    ELSE IF op.max_priority_fee_per_gas < MinPriorityFee THEN "PriorityFeeTooLow"
    ELSE IF op.max_fee_per_gas < saturating_add(base_fee, MinPriorityFee)
         THEN "FeeCapTooLow"
    ELSE "Ok"

\* check_prefund: whose deposit is asked for, and how much it must hold.
Prefund(op, header) ==
    LET pm == IF header[1] # 0 THEN header ELSE <<op.sender, 0, 0>>
        total_gas ==
            saturating_add(saturating_add(saturating_add(saturating_add(
                op.verification_gas_limit, op.call_gas_limit), pm[2]), pm[3]),
                op.pre_verification_gas)
    IN  [sponsor |-> pm[1],
         required |-> saturating_mul(total_gas, op.max_fee_per_gas)]

\* Mutant of update_min: the largest instead of the smallest.
UpdateMax(slot, candidate) ==
    IF \E current \in slot : current >= candidate THEN slot ELSE {candidate}

\* Option<U256> is a set with at most one element.
update_min(slot, candidate) ==
    IF \E current \in slot : current <= candidate THEN slot ELSE {candidate}

choose_outer_fees(base_fee, suggested_tip, min_user_tip, min_user_fee_cap) ==
    LET tip == min_u256(max_u256(MinPriorityFee, suggested_tip), min_user_tip)
    IN  IF min_user_fee_cap < saturating_add(base_fee, tip)
        THEN Err("FeeCapTooLow")
        ELSE Ok([tip |-> tip, fee_cap |-> min_user_fee_cap])
=============================================================================
