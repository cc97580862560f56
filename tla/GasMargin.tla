------------------------------ MODULE GasMargin ------------------------------
(***************************************************************************)
(* The gas limit of the outer transaction (crates/bundler/src/bundler.rs): *)
(* the estimate and a margin.  The u64 product wraps, as in a release      *)
(* build; the sum saturates.                                               *)
(***************************************************************************)
EXTENDS Naturals

CONSTANTS
    GasMarginPct,       \* cfg.gas_margin_pct
    U64Max              \* stands for 2^64 - 1

ASSUME GasMarginAssumption == GasMarginPct \in Nat /\ U64Max \in Nat

saturating_u64(n) == IF n <= U64Max THEN n ELSE U64Max

\* Mutant of GasWithMargin: the sum does not saturate.
GasUnsaturated(estimated) ==
    estimated + ((estimated * GasMarginPct) % (U64Max + 1)) \div 100

\* Mutant of GasWithMargin: divided before it is multiplied.
GasRoundedFirst(estimated) ==
    saturating_u64(estimated + (((estimated \div 100) * GasMarginPct) % (U64Max + 1)))

\* estimated.saturating_add(estimated * pct / 100)
GasWithMargin(estimated) ==
    saturating_u64(estimated + ((estimated * GasMarginPct) % (U64Max + 1)) \div 100)
=============================================================================
