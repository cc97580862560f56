------------------------------ MODULE Validator ------------------------------
(***************************************************************************)
(* crates/bundler/src/validator.rs: what simulateValidation returned is    *)
(* taken apart and judged.  A validation-data word keeps its layout        *)
(*     aggregator | validUntil << 160 | validAfter << 208                  *)
(* with scaled widths: AddrSpace stands for 2^160, TimeSpace for 2^48.     *)
(***************************************************************************)
EXTENDS Naturals

CONSTANTS AddrSpace, TimeSpace

ASSUME SpaceAssumption == AddrSpace \in Nat \ 0 .. 1 /\ TimeSpace \in Nat \ 0 .. 1

SIG_VALIDATION_FAILED == 1

UINT48_MAX == TimeSpace - 1

\* The word an account or paymaster contract returns (external).
PackWindow(w) ==
    w.aggregator + AddrSpace * (w.valid_until + TimeSpace * w.valid_after)

\* Mutant of parse_window: the two time fields change places.
ParseWindowSwapped(data) ==
    LET raw == (data \div (AddrSpace * TimeSpace)) % TimeSpace
    IN  [aggregator |-> data % AddrSpace,
         valid_until |-> IF raw = 0 THEN UINT48_MAX ELSE raw,
         valid_after |-> (data \div AddrSpace) % TimeSpace]

\* validUntil = 0 means no expiry.
parse_window(data) ==
    LET raw == (data \div AddrSpace) % TimeSpace
    IN  [aggregator |-> data % AddrSpace,
         valid_until |-> IF raw = 0 THEN UINT48_MAX ELSE raw,
         valid_after |-> (data \div (AddrSpace * TimeSpace)) % TimeSpace]

signature_failed(w) == w.aggregator = SIG_VALIDATION_FAILED

requires_aggregator(w) == w.aggregator # 0 /\ ~signature_failed(w)

\* Mutant of is_out_of_time_range: the last valid second is refused.
OutFromLastSecond(w, now) == now >= w.valid_until \/ now < w.valid_after

is_out_of_time_range(w, now) == now > w.valid_until \/ now < w.valid_after

\* `simulate` on a result of simulateValidation: the first failed rule, or "Ok".
simulate(account_data, paymaster_data, now) ==
    LET account == parse_window(account_data)
        paymaster == parse_window(paymaster_data)
    IN  IF signature_failed(account) THEN "AccountSignatureFailed"
        ELSE IF signature_failed(paymaster) THEN "PaymasterSignatureFailed"
        ELSE IF requires_aggregator(account) \/ requires_aggregator(paymaster)
             THEN "UnsupportedAggregator"
        ELSE IF \/ is_out_of_time_range(account, now)
                \/ is_out_of_time_range(paymaster, now)
             THEN "OutOfTimeRange"
        ELSE "Ok"
=============================================================================
