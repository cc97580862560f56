------------------------------- MODULE Packing -------------------------------
(***************************************************************************)
(* crates/bundler/src/packing.rs: the wire-format UserOperation becomes    *)
(* the PackedUserOperation the EntryPoint reads.  Integers keep their      *)
(* widths, scaled down: U128Max stands for 2^128 - 1.  A byte string is a  *)
(* sequence of cells, one cell for an address, one for a uint128 and one   *)
(* for each piece of opaque data, so the 52-byte paymaster header has      *)
(* three cells.  Address 0 is the zero address; an absent factory or       *)
(* paymaster is 0 too, since pack treats them alike.  `opaque` stands for  *)
(* nonce, callData and signature, which are copied.                        *)
(***************************************************************************)
EXTENDS Naturals, Sequences

CONSTANTS U128Max

ASSUME U128Assumption == U128Max \in Nat \ {0}

Two128 == U128Max + 1

U256Max == Two128 * Two128 - 1

U256 == 0 .. U256Max

PAYMASTER_HEADER_LEN == 3

Cells == Seq(U256)

\* The wire format.
UserOpV07 ==
    [sender : U256, opaque : U256,
     init_code : Cells, factory : U256, factory_data : Cells,
     call_gas_limit : U256, verification_gas_limit : U256,
     pre_verification_gas : U256,
     max_fee_per_gas : U256, max_priority_fee_per_gas : U256,
     paymaster : U256, paymaster_verification_gas_limit : U256,
     paymaster_post_op_gas_limit : U256, paymaster_data : Cells,
     paymaster_and_data : Cells]

\* Result<T, E>: a value, or the error that ends the request.
Ok(v) == [ok |-> TRUE, val |-> v]

Err(e) == [ok |-> FALSE, err |-> e]

-----------------------------------------------------------------------------

\* Mutant of pack_pair_to_bytes32: the low half is not checked.
PackPairUnchecked(hi, lo) ==
    IF hi > U128Max THEN Err("Pack") ELSE Ok(hi * Two128 + lo)

\* (hi << 128) | lo, refused when a half does not fit.
pack_pair_to_bytes32(hi, lo) ==
    IF hi > U128Max \/ lo > U128Max THEN Err("Pack") ELSE Ok(hi * Two128 + lo)

\* A pre-packed initCode wins over factory and factoryData.
init_code(op) ==
    IF op.init_code # <<>> THEN op.init_code
    ELSE IF op.factory # 0 THEN <<op.factory>> \o op.factory_data
    ELSE <<>>

\* Mutant of paymaster_and_data: the paymaster's data is not appended.
HeaderOnly(op) ==
    IF op.paymaster_and_data # <<>> THEN Ok(op.paymaster_and_data)
    ELSE IF op.paymaster = 0 THEN Ok(<<>>)
    ELSE IF \/ op.paymaster_verification_gas_limit > U128Max
            \/ op.paymaster_post_op_gas_limit > U128Max
    THEN Err("Pack")
    ELSE Ok(<<op.paymaster, op.paymaster_verification_gas_limit,
              op.paymaster_post_op_gas_limit>>)

\* A pre-packed paymasterAndData wins; the gas limits keep their low 128 bits.
paymaster_and_data(op) ==
    CASE op.paymaster_and_data # <<>> -> Ok(op.paymaster_and_data)
      [] op.paymaster_and_data = <<>> /\ op.paymaster = 0 -> Ok(<<>>)
      [] OTHER ->
            IF \/ op.paymaster_verification_gas_limit > U128Max
               \/ op.paymaster_post_op_gas_limit > U128Max
            THEN Err("Pack")
            ELSE Ok(<<op.paymaster,
                      op.paymaster_verification_gas_limit % Two128,
                      op.paymaster_post_op_gas_limit % Two128>> \o op.paymaster_data)

pack(op) ==
    LET blob == paymaster_and_data(op)
        limits == pack_pair_to_bytes32(op.verification_gas_limit, op.call_gas_limit)
        fees == pack_pair_to_bytes32(op.max_priority_fee_per_gas, op.max_fee_per_gas)
    IN  IF blob.ok /\ limits.ok /\ fees.ok
        THEN Ok([sender |-> op.sender,
                 opaque |-> op.opaque,
                 initCode |-> init_code(op),
                 accountGasLimits |-> limits.val,
                 preVerificationGas |-> op.pre_verification_gas,
                 gasFees |-> fees.val,
                 paymasterAndData |-> blob.val])
        ELSE Err("Pack")

\* (paymaster, verificationGasLimit, postOpGasLimit); paymaster 0 for "none".
parse_paymaster_and_data(blob) ==
    CASE Len(blob) = 0 -> Ok(<<0, 0, 0>>)
      [] Len(blob) \in 1 .. PAYMASTER_HEADER_LEN - 1 -> Err("Pack")
      [] OTHER -> Ok(SubSeq(blob, 1, PAYMASTER_HEADER_LEN))

-----------------------------------------------------------------------------
(***************************************************************************)
(* How the EntryPoint reads a packed operation (external: the contract is  *)
(* not in the repository; `unpackUints` and the header layout are quoted   *)
(* in packing.rs, the prefund formula in bundler.rs and the README).       *)
(***************************************************************************)
EPHigh(word) == word \div Two128

EPLow(word) == word % Two128

EPPaymasterHeader(packed) ==
    IF packed.paymasterAndData = <<>> THEN <<0, 0, 0>>
    ELSE SubSeq(packed.paymasterAndData, 1, PAYMASTER_HEADER_LEN)

\* What is left for the paymaster contract after the header.
EPPaymasterData(packed) ==
    SubSeq(packed.paymasterAndData, PAYMASTER_HEADER_LEN + 1,
           Len(packed.paymasterAndData))

\* Whose deposit pays.
EPPayer(packed) ==
    IF EPPaymasterHeader(packed)[1] # 0 THEN EPPaymasterHeader(packed)[1]
    ELSE packed.sender

EPRequiredPrefund(packed) ==
    ( EPHigh(packed.accountGasLimits) + EPLow(packed.accountGasLimits)
      + EPPaymasterHeader(packed)[2] + EPPaymasterHeader(packed)[3]
      + packed.preVerificationGas ) * EPLow(packed.gasFees)
=============================================================================
