------------------------------ MODULE Admission ------------------------------
(***************************************************************************)
(* The checks of one request: `build_inner` of                             *)
(* crates/bundler/src/bundler.rs from its first line to the outer fees.    *)
(* Module Bundler takes this part as one step; here every provider call is *)
(* a step of its own and the data is concrete, in scaled-down widths.      *)
(*                                                                         *)
(* The node moves between any two calls: a deposit, a validation result or *)
(* an estimate is read once, so each read returns any value of its set;    *)
(* the base fee and the suggested tip are kept as state, because what the  *)
(* request decides with them is decided later.                             *)
(***************************************************************************)
EXTENDS FeePolicy, Validator, Errors

CONSTANTS
    UserOps,        \* wire-format operations a request may hold
    MaxBatchSize,   \* cfg.max_batch_size
    BaseFees, Tips, Clocks, Deposits, Windows, Estimates    \* the node's answers

ASSUME AdmissionAssumption ==
    /\ UserOps \subseteq UserOpV07
    /\ MaxBatchSize \in Nat
    /\ BaseFees \subseteq U256 /\ Tips \subseteq U256
    /\ Clocks \subseteq Nat
    /\ Deposits \subseteq 0 .. U256Max - 1      \* more than all ether there is
    /\ Windows \subseteq [aggregator : 0 .. AddrSpace - 1,
                          valid_until : 0 .. UINT48_MAX,
                          valid_after : 0 .. UINT48_MAX]
    /\ Estimates \subseteq 0 .. U64Max

VARIABLES
    ops, chain_ok,              \* the request; chain_ok: its chain id is ours
    pc,                         \* the provider call that is awaited
    base_fee, suggested_tip, now_unix,              \* read once, at the start
    packed_ops, user_op_hashes,
    min_user_tip, min_user_fee_cap,
    gas, fees,                  \* of the outer transaction
    error,                      \* variant and operation (0: none in particular)
    el_base_fee, el_tip,        \* the node's own values
    asked,          \* history: what the node answered about each operation
    estimated,      \* history: the answer of eth_estimateGas
    ep_rejected     \* history: the EntryPoint reverted simulateValidation

adm_vars == <<ops, chain_ok, pc, base_fee, suggested_tip, now_unix, packed_ops,
              user_op_hashes, min_user_tip, min_user_fee_cap, gas, fees, error,
              el_base_fee, el_tip, asked, estimated, ep_rejected>>

request   == <<ops, chain_ok>>
snapshot  == <<base_fee, suggested_tip, now_unix>>
collected == <<packed_ops, user_op_hashes, min_user_tip, min_user_fee_cap>>
outer     == <<gas, fees, estimated>>
node      == <<el_base_fee, el_tip>>

NoError == [kind |-> "none", op |-> 0]

Calls == {"base_fee", "max_priority_fee", "balance_of", "simulate_validation",
          "user_op_hash", "estimate_gas"}

AdmissionInit ==
    /\ ops \in UNION {[1 .. n -> UserOps] : n \in 0 .. MaxBatchSize + 1}
    /\ chain_ok \in BOOLEAN
    /\ pc = "sanity"
    /\ base_fee = 0 /\ suggested_tip = 0 /\ now_unix = 0
    /\ packed_ops = <<>> /\ user_op_hashes = <<>>
    /\ min_user_tip = {} /\ min_user_fee_cap = {}
    /\ gas = 0 /\ fees = [tip |-> 0, fee_cap |-> 0] /\ estimated = 0
    /\ error = NoError
    /\ el_base_fee \in BaseFees /\ el_tip \in Tips
    /\ asked = <<>> /\ ep_rejected = FALSE

-----------------------------------------------------------------------------

\* The operation the loop is at, 0 outside the loop.
Index == IF pc \in {"check_op", "balance_of", "simulate_validation", "user_op_hash"}
         THEN Len(packed_ops) + 1 ELSE 0

Op == ops[Index]

\* The `?` operator: the request ends with this error.
Fail(kind) ==
    /\ pc' = "failed"
    /\ error' = [kind |-> kind, op |-> IF kind \in IndexedErrors THEN Index ELSE 0]

\* The call succeeds or its error ends the request.
Step(verdict, to) ==
    IF verdict = "Ok" THEN pc' = to /\ UNCHANGED error ELSE Fail(verdict)

\* Chain id and batch size, checked before any call.
Sanity ==
    /\ pc = "sanity"
    /\ Step(IF ~chain_ok THEN "WrongChainId"
            ELSE IF Len(ops) = 0 THEN "InvalidBatch"
            ELSE IF Len(ops) > MaxBatchSize THEN "BatchTooLarge"
            ELSE "Ok", "base_fee")
    /\ UNCHANGED <<request, snapshot, collected, outer, node, asked, ep_rejected>>

ReadBaseFee ==
    /\ pc = "base_fee"
    /\ base_fee' = el_base_fee
    /\ pc' = "max_priority_fee"
    /\ UNCHANGED <<request, suggested_tip, now_unix, collected, outer, error, node,
                   asked, ep_rejected>>

\* The clock is read in the poll that receives the tip.
ReadTip ==
    /\ pc = "max_priority_fee"
    /\ suggested_tip' = el_tip
    /\ now_unix' \in Clocks
    /\ pc' = "check_op"
    /\ UNCHANGED <<request, base_fee, collected, outer, error, node, asked,
                   ep_rejected>>

\* Fee policy, packing and the paymaster header of the next operation.
CheckOp ==
    /\ pc = "check_op"
    /\ LET fee_check == check_per_op_fees(Op, base_fee)
           packed == pack(Op)
       IN  Step(IF fee_check # "Ok" THEN fee_check
                ELSE IF ~packed.ok THEN packed.err
                ELSE IF ~parse_paymaster_and_data(packed.val.paymasterAndData).ok
                     THEN "Pack"
                ELSE "Ok", "balance_of")
    /\ UNCHANGED <<request, snapshot, collected, outer, node, asked, ep_rejected>>

\* The packed form of the operation in the loop, and the prefund asked for it.
Packed == pack(Op).val

Asked == Prefund(Op, parse_paymaster_and_data(Packed.paymasterAndData).val)

\* Mutant of CheckPrefund: the deposit of the sender, whoever pays.
CheckSenderDeposit ==
    /\ pc = "balance_of"
    /\ \E deposit \in Deposits :
          /\ asked' = Append(asked, [sponsor |-> Op.sender, deposit |-> deposit,
                                     windows |-> <<>>])
          /\ Step(IF deposit < Asked.required THEN "InsufficientDeposit" ELSE "Ok",
                  "simulate_validation")
    /\ UNCHANGED <<request, snapshot, collected, outer, node, ep_rejected>>

\* EntryPoint.balanceOf(sponsor) answers.
CheckPrefund ==
    /\ pc = "balance_of"
    /\ \E deposit \in Deposits :
          /\ asked' = Append(asked, [sponsor |-> Asked.sponsor, deposit |-> deposit,
                                     windows |-> <<>>])
          /\ Step(IF deposit < Asked.required THEN "InsufficientDeposit" ELSE "Ok",
                  "simulate_validation")
    /\ UNCHANGED <<request, snapshot, collected, outer, node, ep_rejected>>

\* simulateValidation answers; the verdict uses the clock read at the start.
Simulate ==
    /\ pc = "simulate_validation"
    /\ \E account, paymaster \in Windows :
          /\ asked' = [asked EXCEPT ![Index].windows = <<account, paymaster>>]
          /\ Step(simulate(PackWindow(account), PackWindow(paymaster), now_unix),
                  "user_op_hash")
    /\ UNCHANGED <<request, snapshot, collected, outer, node, ep_rejected>>

\* The EntryPoint reverts (FailedOp): the eth_call fails like a transport error.
SimulateReverts ==
    /\ pc = "simulate_validation"
    /\ Fail("Provider")
    /\ ep_rejected' = TRUE
    /\ UNCHANGED <<request, snapshot, collected, outer, node, asked>>

\* getUserOpHash answers (the hash stands for what was hashed).
CollectOp ==
    /\ pc = "user_op_hash"
    /\ user_op_hashes' = Append(user_op_hashes, Packed)
    /\ packed_ops' = Append(packed_ops, Packed)
    /\ min_user_tip' = update_min(min_user_tip, Op.max_priority_fee_per_gas)
    /\ min_user_fee_cap' = update_min(min_user_fee_cap, Op.max_fee_per_gas)
    /\ pc' = IF Index = Len(ops) THEN "estimate_gas" ELSE "check_op"
    /\ UNCHANGED <<request, snapshot, outer, error, node, asked, ep_rejected>>

\* eth_estimateGas answers; margin and outer fees are chosen in the same poll.
ChooseFees ==
    /\ pc = "estimate_gas"
    /\ estimated' \in Estimates
    /\ gas' = GasWithMargin(estimated')
    /\ \E tip \in min_user_tip, cap \in min_user_fee_cap :
          LET chosen == choose_outer_fees(base_fee, suggested_tip, tip, cap)
          IN  IF chosen.ok
              THEN fees' = chosen.val /\ pc' = "admitted" /\ UNCHANGED error
              ELSE UNCHANGED fees /\ Fail(chosen.err)
    /\ UNCHANGED <<request, snapshot, collected, node, asked, ep_rejected>>

\* Any provider call may fail.
CallFails ==
    /\ pc \in Calls
    /\ Fail("Provider")
    /\ UNCHANGED <<request, snapshot, collected, outer, node, asked, ep_rejected>>

\* A block: the node's fee figures change.
NodeMoves ==
    /\ pc \notin {"admitted", "failed"}
    /\ el_base_fee' \in BaseFees /\ el_tip' \in Tips
    /\ UNCHANGED <<request, pc, snapshot, collected, outer, error, asked, ep_rejected>>

Answered == pc \in {"admitted", "failed"} /\ UNCHANGED adm_vars

AdmissionNext ==
    \/ Sanity \/ ReadBaseFee \/ ReadTip \/ CheckOp \/ CheckPrefund \/ Simulate
    \/ SimulateReverts \/ CollectOp \/ ChooseFees \/ CallFails
    \/ NodeMoves \/ Answered

AdmissionSpec == AdmissionInit /\ [][AdmissionNext]_adm_vars

-----------------------------------------------------------------------------
\* Properties.

AdmissionTypeOK ==
    /\ pc \in Calls \cup {"sanity", "check_op", "admitted", "failed"}
    /\ base_fee \in 0 .. U256Max /\ suggested_tip \in 0 .. U256Max
    /\ Len(packed_ops) <= MaxBatchSize
    /\ min_user_tip \subseteq 0 .. U256Max /\ min_user_fee_cap \subseteq 0 .. U256Max
    /\ gas \in 0 .. U64Max
    /\ fees \in [tip : 0 .. U256Max, fee_cap : 0 .. U256Max]
    /\ error.kind \in BuildErrors \cup {"none"} /\ error.op \in 0 .. Len(ops)

\* What one unit of gas costs at base fee b under a fee cap and a tip.
GasPrice(fee_cap, tip, b) == min_u256(fee_cap, b + tip)

(***************************************************************************)
(* The outer fees of an admitted batch: the sequencer never pays more per  *)
(* gas than any operation reimburses, at whatever base fee the transaction *)
(* is mined; the tip is within the fee cap (or the node refuses the        *)
(* transaction) and not below the configured minimum; the snapshot's base  *)
(* fee is covered; both values fit the u128 fields of TxEip1559, so the    *)
(* conversions after the nonce is drawn cannot fail; the gas limit is not  *)
(* below the estimate.                                                     *)
(***************************************************************************)
OuterFeesSound ==
    pc = "admitted" =>
        /\ \A j \in 1 .. Len(ops), b \in 0 .. U256Max :
              GasPrice(fees.fee_cap, fees.tip, b)
                  <= GasPrice(ops[j].max_fee_per_gas, ops[j].max_priority_fee_per_gas, b)
        /\ MinPriorityFee <= fees.tip /\ fees.tip <= fees.fee_cap
        /\ base_fee + fees.tip <= fees.fee_cap
        /\ fees.fee_cap <= U128Max
        /\ gas >= estimated

\* What the EntryPoint reads as initCode: a pre-packed one wins over the factory.
InitCodeFaithful(p, o) ==
    /\ o.init_code # <<>> => p.initCode = o.init_code
    /\ o.init_code = <<>> /\ o.factory # 0 => p.initCode = <<o.factory>> \o o.factory_data
    /\ o.init_code = <<>> /\ o.factory = 0 => p.initCode = <<>>

\* What it reads as paymaster, paymaster gas limits and paymaster data.
PaymasterFaithful(p, o) ==
    /\ o.paymaster_and_data # <<>> => p.paymasterAndData = o.paymaster_and_data
    /\ o.paymaster_and_data = <<>> /\ o.paymaster # 0 =>
          /\ EPPaymasterHeader(p) =
                <<o.paymaster, o.paymaster_verification_gas_limit,
                  o.paymaster_post_op_gas_limit>>
          /\ EPPaymasterData(p) = o.paymaster_data
    /\ o.paymaster_and_data = <<>> /\ o.paymaster = 0 => p.paymasterAndData = <<>>

(***************************************************************************)
(* The EntryPoint reads from handleOps what the client wrote: every field  *)
(* of every operation survives packing, in the order of the request, in    *)
(* either wire form and with the precedence of pre-packed blobs, and the   *)
(* response's hashes belong to the same operations.                        *)
(***************************************************************************)
PackedFaithful ==
    pc \in {"estimate_gas", "admitted"} =>
        /\ Len(packed_ops) = Len(ops)
        /\ user_op_hashes = packed_ops
        /\ \A j \in 1 .. Len(ops) :
              LET p == packed_ops[j]
                  o == ops[j]
              IN  /\ p.sender = o.sender /\ p.opaque = o.opaque
                  /\ InitCodeFaithful(p, o)
                  /\ EPHigh(p.accountGasLimits) = o.verification_gas_limit
                  /\ EPLow(p.accountGasLimits) = o.call_gas_limit
                  /\ p.preVerificationGas = o.pre_verification_gas
                  /\ EPHigh(p.gasFees) = o.max_priority_fee_per_gas
                  /\ EPLow(p.gasFees) = o.max_fee_per_gas
                  /\ PaymasterFaithful(p, o)

(***************************************************************************)
(* The prefund check asks the deposit the EntryPoint will charge, and      *)
(* saturating arithmetic never lets an operation pass that the exact       *)
(* formula refuses.  Blobs that name the zero address as paymaster are     *)
(* excepted: the code does not count their gas limits.                     *)
(***************************************************************************)
PrefundCovered ==
    \A j \in 1 .. Len(packed_ops) :
        /\ asked[j].sponsor = EPPayer(packed_ops[j])
        /\ \/ asked[j].deposit >= EPRequiredPrefund(packed_ops[j])
           \/ packed_ops[j].paymasterAndData # <<>> /\ packed_ops[j].paymasterAndData[1] = 0

\* The contract's own reading of a window: an end of 0 is the last uint48 second.
InWindow(w, now) ==
    /\ w.valid_after <= now
    /\ now <= w.valid_until \/ (w.valid_until = 0 /\ now <= UINT48_MAX)

(***************************************************************************)
(* Every admitted operation was signed correctly, needs no aggregator and  *)
(* was inside both its windows when the request read the clock.            *)
(***************************************************************************)
WindowsHonoured ==
    \A j \in 1 .. Len(packed_ops), k \in 1 .. 2 :
        LET w == asked[j].windows[k]
        IN  w.aggregator = 0 /\ InWindow(w, now_unix)

(***************************************************************************)
(* A rejection tells the client what really happened.  -32602 is answered  *)
(* only for what the request itself says: never for a verdict of the       *)
(* EntryPoint or a failed call.  A low deposit, a failed signature, a      *)
(* missed window or an aggregator is reported only if the node answered    *)
(* just that for the operation in hand, and an opIndex names that          *)
(* operation.  (Which code the deposit and the aggregator get is disputed  *)
(* among the repository's own comments, and is not part of this.)          *)
(***************************************************************************)
RejectionsAreTrue ==
    pc = "failed" =>
        LET j == Len(packed_ops) + 1        \* the operation in hand, if any
            o == ops[j]
            a == asked[j]
        IN  /\ error.op \in {0, j}
            /\ classify(error.kind) = INVALID_PARAMS =>
                  \/ ~chain_ok \/ Len(ops) \notin 1 .. MaxBatchSize
                  \/ /\ j <= Len(ops)
                     /\ \/ check_per_op_fees(o, base_fee) # "Ok"
                        \/ ~pack(o).ok
                        \/ Len(o.paymaster_and_data) \in 1 .. PAYMASTER_HEADER_LEN - 1
                  \/ /\ j > Len(ops)
                     /\ \E i \in 1 .. Len(ops) :
                           ops[i].max_fee_per_gas
                               < base_fee + max_u256(MinPriorityFee, suggested_tip)
            /\ error.kind = "InsufficientDeposit" =>
                  /\ error.op = j
                  /\ a.sponsor = EPPayer(pack(o).val)
                  /\ a.deposit < EPRequiredPrefund(pack(o).val)
            /\ error.kind = "AccountSignatureFailed" =>
                  a.windows[1].aggregator = SIG_VALIDATION_FAILED
            /\ error.kind = "PaymasterSignatureFailed" =>
                  a.windows[2].aggregator = SIG_VALIDATION_FAILED
            /\ error.kind = "OutOfTimeRange" =>
                  \E k \in 1 .. 2 : ~InWindow(a.windows[k], now_unix)
            /\ error.kind = "UnsupportedAggregator" =>
                  \E k \in 1 .. 2 : a.windows[k].aggregator > SIG_VALIDATION_FAILED

-----------------------------------------------------------------------------
\* A statement of a comment that the code does not meet.

(***************************************************************************)
(* errors.rs: -32500 is "Transaction rejected by EntryPoint's              *)
(* simulateValidation".                                                    *)
(***************************************************************************)
EntryPointRejectionCode ==
    ep_rejected => classify(error.kind) = SIMULATE_VALIDATION_REJECTED
=============================================================================
