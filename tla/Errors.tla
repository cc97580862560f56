-------------------------------- MODULE Errors --------------------------------
(***************************************************************************)
(* crates/bundler/src/errors.rs: the JSON-RPC code a BundlerError is       *)
(* answered with.  An error is its variant; the texts and numbers of the   *)
(* `data` payload are left out.                                            *)
(***************************************************************************)
EXTENDS Integers

INVALID_PARAMS               == -32602
INTERNAL_ERROR               == -32603
SIMULATE_VALIDATION_REJECTED == -32500
PAYMASTER_REJECTED           == -32501
OUT_OF_TIME_RANGE            == -32503
ACCOUNT_VALIDATION_REVERTED  == -32521

\* Refused for what the request itself says, before the EntryPoint is asked.
ParamErrors ==
    {"WrongChainId", "InvalidBatch", "BatchTooLarge", "InvalidUserOp",
     "PriorityFeeTooLow", "FeeCapTooLow", "Pack"}

\* The variants with an op_index; Pack, Validation and Provider have none.
IndexedErrors ==
    {"InvalidUserOp", "PriorityFeeTooLow", "FeeCapTooLow", "InsufficientDeposit"}

\* ValidationError, the verdicts of `simulate`; "Provider" is its own variant too.
ValidationErrors ==
    {"AccountSignatureFailed", "PaymasterSignatureFailed", "OutOfTimeRange",
     "UnsupportedAggregator"}

\* The errors of build_inner before it asks for the nonce.
BuildErrors ==
    ParamErrors \cup ValidationErrors \cup {"InsufficientDeposit", "Provider"}

\* Mutant of classify: a deposit that is too small counts as bad parameters.
ClassifyDepositAsParams(e) ==
    CASE e \in ParamErrors \cup {"InsufficientDeposit"} -> INVALID_PARAMS
      [] e = "AccountSignatureFailed" -> SIMULATE_VALIDATION_REJECTED
      [] e = "PaymasterSignatureFailed" -> PAYMASTER_REJECTED
      [] e = "OutOfTimeRange" -> OUT_OF_TIME_RANGE
      [] e = "UnsupportedAggregator" -> ACCOUNT_VALIDATION_REVERTED
      [] OTHER -> INTERNAL_ERROR

classify(e) ==
    CASE e \in ParamErrors -> INVALID_PARAMS
      [] e \in {"InsufficientDeposit", "AccountSignatureFailed"} ->
            SIMULATE_VALIDATION_REJECTED
      [] e = "PaymasterSignatureFailed" -> PAYMASTER_REJECTED
      [] e = "OutOfTimeRange" -> OUT_OF_TIME_RANGE
      [] e = "UnsupportedAggregator" -> ACCOUNT_VALIDATION_REVERTED
      [] OTHER -> INTERNAL_ERROR      \* Provider, Signer, Cancelled, ReceiptTimeout
=============================================================================
