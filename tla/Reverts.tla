------------------------------- MODULE Reverts -------------------------------
(***************************************************************************)
(* The second half of crates/bundler/src/errors.rs: decoding the revert    *)
(* data of handleOps and the code it is answered with.  Revert data is its *)
(* selector, whether the body decodes, and the two parts of the body that  *)
(* matter: the number (operation index, panic code) and the AA reason.     *)
(***************************************************************************)
EXTENDS Errors

CONSTANT U64Max     \* stands for 2^64 - 1

ASSUME U64Assumption == U64Max \in Nat

\* The selectors decode_handle_ops_revert knows.
Selectors ==
    {"FailedOp", "FailedOpWithRevert", "SignatureValidationFailed",
     "PostOpReverted", "StandardError", "Panic"}

\* Reasons of FailedOp that start with "AA3": the paymaster's.
AA3 == {"AA31", "AA32", "AA34"}

Reasons == AA3 \cup {"AA21", "AA22", "AA24", "other"}

clamp_u64(v) == IF v <= U64Max THEN v ELSE U64Max

Unknown == [variant |-> "Unknown", number |-> 0, reason |-> "other"]

\* Mutant of decode_handle_ops_revert: a known selector vouches for its body.
DecodeBySelector(data) ==
    IF data.selector \in Selectors
    THEN [variant |-> data.selector, number |-> clamp_u64(data.number),
          reason |-> data.reason]
    ELSE Unknown

\* Data shorter than a selector has the selector "short".
decode_handle_ops_revert(data) ==
    IF data.selector \in Selectors /\ data.decodes
    THEN [variant |-> data.selector, number |-> clamp_u64(data.number),
          reason |-> data.reason]
    ELSE Unknown

\* HandleOpsRevertReason::classify
classify_revert(r) ==
    CASE r.variant \in {"FailedOp", "FailedOpWithRevert"} /\ r.reason \in AA3 ->
            PAYMASTER_REJECTED
      [] r.variant = "PostOpReverted" -> PAYMASTER_REJECTED
      [] r.variant = "Unknown" -> INTERNAL_ERROR
      [] OTHER -> SIMULATE_VALIDATION_REJECTED
=============================================================================
