----------------------------- MODULE MCAdmission -----------------------------
(***************************************************************************)
(* Small instances of Admission: uint128 has two bits (0 .. 3), uint256    *)
(* four, an address three values, a time stamp two bits, u64 eight bits.   *)
(***************************************************************************)
EXTENDS Admission

\* An operation that passes every check; sender 1, no paymaster.
BaseOp ==
    [sender |-> 1, opaque |-> 0, init_code |-> <<>>, factory |-> 0,
     factory_data |-> <<>>, call_gas_limit |-> 1, verification_gas_limit |-> 1,
     pre_verification_gas |-> 0, max_fee_per_gas |-> 3,
     max_priority_fee_per_gas |-> 1, paymaster |-> 0,
     paymaster_verification_gas_limit |-> 0, paymaster_post_op_gas_limit |-> 0,
     paymaster_data |-> <<>>, paymaster_and_data |-> <<>>]

\* Every pair of fees, one value beyond uint128 included.
FeeOps ==
    {[BaseOp EXCEPT !.max_fee_per_gas = f, !.max_priority_fee_per_gas = t] :
        f, t \in 0 .. 4}

\* Gas limits at and beyond their bounds, so that sums and products saturate.
GasOps ==
    {[BaseOp EXCEPT !.verification_gas_limit = v, !.call_gas_limit = c,
                    !.pre_verification_gas = p, !.opaque = 1] :
        v \in {0, 4}, c \in {1, 3, 4}, p \in {0, 15}}

\* Paymaster 2, given as fields or as a blob of every length around the header.
PaymasterOps ==
    {[BaseOp EXCEPT !.paymaster = 2, !.paymaster_verification_gas_limit = v,
                    !.paymaster_post_op_gas_limit = p, !.paymaster_data = <<3>>] :
        v, p \in {1, 4}}
    \cup {[BaseOp EXCEPT !.paymaster = pm, !.paymaster_and_data = blob] :
        pm \in {0, 2}, blob \in {<<2>>, <<2, 1>>, <<2, 1, 0>>, <<0, 1, 0>>}}

FactoryOps ==
    {[BaseOp EXCEPT !.factory = f, !.factory_data = <<3>>, !.init_code = i] :
        f \in {0, 2}, i \in {<<>>, <<1>>}}

DataOps == GasOps \cup PaymasterOps \cup FactoryOps

\* Windows: open, bounded on either side, failed, aggregated.
AnyWindow == {[aggregator |-> 0, valid_until |-> 0, valid_after |-> 0]}

SomeWindows ==
    {[aggregator |-> 0, valid_until |-> u, valid_after |-> s] : u \in {0, 2}, s \in {0, 1}}
    \cup {[aggregator |-> g, valid_until |-> 0, valid_after |-> 0] : g \in {1, 2}}
=============================================================================
