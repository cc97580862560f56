----------------------------- MODULE Sponsorship -----------------------------
(***************************************************************************)
(* Who pays for a batch.  `check_prefund` (crates/bundler/src/bundler.rs)  *)
(* holds every operation against the whole deposit of its sponsor, one at  *)
(* a time, and keeps no account of the operations before it or of other    *)
(* requests; only the gas estimate looks at the batch as a whole, and the  *)
(* gas limit is that estimate and a margin.  When handleOps reverts on     *)
(* chain, nobody reimburses the sequencer.                                 *)
(*                                                                         *)
(* Operations, sponsors and prefunds are given; packing, fees and nonces   *)
(* are in Admission and Bundler.  Calls are evaluated on the latest block; *)
(* an estimate is the gas the batch needs there.                           *)
(***************************************************************************)
EXTENDS GasMargin, Sequences, FiniteSetsExt

CONSTANTS
    Requests,       \* requests under way at a time
    Ops, Sponsors,
    Sponsor,        \* of an operation: its paymaster, or else its sender
    Prefund,        \* of an operation: what check_prefund requires
    MaxDeposit,     \* bound of the deposits
    MaxBatchSize,   \* cfg.max_batch_size
    GasUses         \* what a handleOps may need

ASSUME SponsorshipAssumption ==
    /\ Sponsor \in [Ops -> Sponsors]
    /\ Prefund \in [Ops -> Nat]
    /\ MaxDeposit \in Nat
    /\ MaxBatchSize \in Nat
    /\ GasUses \subseteq 0 .. U64Max

VARIABLES
    deposit,    \* EntryPoint.balanceOf of every sponsor
    invalid,    \* operations that no longer validate: executed, expired, or by
                \* another change of what their validation reads
    phase,      \* of a request: the call it awaits; "lost" if it was mined and reverted
    batch,      \* of a request: its operations, in order
    idx,        \* of a request: the operation its loop is at
    limit,      \* of a request: the gas limit of its transaction
    need,       \* of a batch: the gas it needs at the latest block, once estimated
    touched,    \* history: what its estimate saw has changed since
    estimated   \* history: what eth_estimateGas answered

gas     == <<limit, need, estimated>>
sp_vars == <<deposit, invalid, phase, batch, idx, touched, gas>>

Checking == {"balance", "simulate", "estimate"}

\* Between the estimate and the block.
Exposed(r) == phase[r] \in {"estimated", "sent"}

SponsorshipTypeOK ==
    /\ deposit \in [Sponsors -> 0 .. MaxDeposit]
    /\ invalid \subseteq Ops
    /\ phase \in [Requests -> Checking \cup {"idle", "estimated", "sent", "lost"}]
    /\ batch \in [Requests -> Seq(Ops)]
    /\ idx \in [Requests -> Nat]
    /\ \A r \in Requests : phase[r] \in {"balance", "simulate"} => idx[r] \in DOMAIN batch[r]
    /\ touched \in [Requests -> BOOLEAN]
    /\ limit \in [Requests -> 0 .. U64Max]
    /\ need \in [Requests -> GasUses \cup {0}]
    /\ estimated \in [Requests -> GasUses \cup {0}]

SponsorshipInit ==
    /\ deposit \in [Sponsors -> 0 .. MaxDeposit]
    /\ invalid = {}
    /\ phase = [r \in Requests |-> "idle"]
    /\ batch = [r \in Requests |-> <<>>]
    /\ idx = [r \in Requests |-> 1]
    /\ touched = [r \in Requests |-> FALSE]
    /\ limit = [r \in Requests |-> 0]
    /\ need = [r \in Requests |-> 0]
    /\ estimated = [r \in Requests |-> 0]

-----------------------------------------------------------------------------

PrefundAt(b, i) == Prefund[b[i]]

\* The positions of batch b that sponsor s pays for.
PaidBy(b, s) == {i \in DOMAIN b : Sponsor[b[i]] = s}

\* What handleOps takes from the deposit of s before it executes batch b.
Charge(b, s) == MapThenSumSet(LAMBDA i : PrefundAt(b, i), PaidBy(b, s))

SponsorsOf(b) == {Sponsor[b[i]] : i \in DOMAIN b}

(***************************************************************************)
(* handleOps validates all operations first: each must be valid, none may  *)
(* come twice, and each sponsor pays for all of its own.                   *)
(***************************************************************************)
HandleOpsPasses(b) ==
    /\ \A i \in DOMAIN b : b[i] \notin invalid
    /\ \A i, j \in DOMAIN b : b[i] = b[j] => i = j
    /\ \A s \in SponsorsOf(b) : Charge(b, s) \in 0 .. deposit[s]

Become(r, p) == phase' = [phase EXCEPT ![r] = p]

Current(r) == batch[r][idx[r]]

\* The request has no more use for its operations.
Forget(r) ==
    /\ batch' = [batch EXCEPT ![r] = <<>>]
    /\ idx' = [idx EXCEPT ![r] = 1]

\* A request that has ended keeps nothing; its place is free for another one.
Over(r) ==
    /\ Become(r, "idle")
    /\ Forget(r)
    /\ limit' = [limit EXCEPT ![r] = 0]
    /\ need' = [need EXCEPT ![r] = 0]
    /\ estimated' = [estimated EXCEPT ![r] = 0]

Reject(r) == Over(r) /\ touched' = [touched EXCEPT ![r] = FALSE]

Begin(r) ==
    /\ phase[r] = "idle"
    /\ \E n \in 1 .. MaxBatchSize : \E b \in [1 .. n -> Ops] : batch' = [batch EXCEPT ![r] = b]
    /\ idx' = [idx EXCEPT ![r] = 1]
    /\ Become(r, "balance")
    /\ UNCHANGED <<deposit, invalid, touched, gas>>

\* The operation at hand against the whole deposit of its sponsor.
Covered(r) == deposit[Sponsor[Current(r)]] >= Prefund[Current(r)]

\* balance_of answers.
CheckDeposit(r) ==
    /\ phase[r] = "balance"
    /\ \/ ~Covered(r) /\ Reject(r)
       \/ Covered(r) /\ Become(r, "simulate") /\ UNCHANGED <<batch, idx, touched, gas>>
    /\ UNCHANGED <<deposit, invalid>>

\* Mutant of SimulateOp: the loop runs past the last operation.
SimulatePastEnd(r) ==
    /\ phase[r] = "simulate"
    /\ Current(r) \notin invalid /\ Covered(r)
    /\ Become(r, IF idx[r] <= Len(batch[r]) THEN "balance" ELSE "estimate")
    /\ idx' = [idx EXCEPT ![r] = @ + 1]
    /\ UNCHANGED <<deposit, invalid, batch, touched, gas>>

\* simulateValidation of the operation alone; then the next one.
SimulateOp(r) ==
    /\ phase[r] = "simulate"
    /\ \/ /\ Current(r) \in invalid \/ ~Covered(r)
          /\ Reject(r)
       \/ /\ Current(r) \notin invalid /\ Covered(r)
          /\ IF idx[r] < Len(batch[r])
             THEN Become(r, "balance") /\ idx' = [idx EXCEPT ![r] = @ + 1]
             ELSE Become(r, "estimate") /\ UNCHANGED idx
          /\ UNCHANGED <<batch, touched, gas>>
    /\ UNCHANGED <<deposit, invalid>>

\* The answer g of eth_estimateGas and the gas limit made of it.
SetLimit(r, g) ==
    /\ need' = [need EXCEPT ![r] = g]
    /\ estimated' = [estimated EXCEPT ![r] = g]
    /\ limit' = [limit EXCEPT ![r] = GasWithMargin(g)]

\* Mutant of EstimateBatch: a batch that fails its estimate is sent all the same.
EstimateOptional(r) ==
    /\ phase[r] = "estimate"
    /\ Become(r, "estimated")
    /\ \E g \in GasUses : SetLimit(r, g)
    /\ UNCHANGED <<deposit, invalid, batch, idx, touched>>

\* eth_estimateGas runs the whole handleOps; a revert is an error.
EstimateBatch(r) ==
    /\ phase[r] = "estimate"
    /\ \/ ~HandleOpsPasses(batch[r]) /\ Reject(r)
       \/ /\ HandleOpsPasses(batch[r])
          /\ Become(r, "estimated")
          /\ \E g \in GasUses : SetLimit(r, g)
          /\ UNCHANGED <<batch, idx, touched>>
    /\ UNCHANGED <<deposit, invalid>>

\* Outer fees, lock, nonce, signature and send.
SendBatch(r) ==
    /\ phase[r] = "estimated"
    /\ Become(r, "sent")
    /\ UNCHANGED <<deposit, invalid, batch, idx, touched, gas>>

\* A call fails or the request is dropped before the send, or the node drops what was sent.
GiveUp(r) ==
    /\ phase[r] \in Checking \cup {"estimated", "sent"}
    /\ Reject(r)
    /\ UNCHANGED <<deposit, invalid>>

-----------------------------------------------------------------------------
\* The chain.

\* This step takes something away that q's batch needs.
Touches(q) ==
    \/ \E s \in SponsorsOf(batch[q]) : deposit'[s] < deposit[s]
    \/ \E i \in DOMAIN batch[q] : batch[q][i] \in invalid' \ invalid

MarkTouched ==
    touched' = [q \in Requests |->
                   phase'[q] # "idle" /\ (touched[q] \/ (Exposed(q) /\ Touches(q)))]

\* handleOps is mined; unused prefund is given back.
MineOk(r) ==
    /\ phase[r] = "sent" /\ HandleOpsPasses(batch[r]) /\ need[r] <= limit[r]
    /\ Over(r)
    /\ invalid' = invalid \cup {batch[r][i] : i \in DOMAIN batch[r]}
    /\ \E cost \in [Sponsors -> 0 .. MaxDeposit] :
          /\ \A s \in Sponsors : cost[s] <= deposit[s] /\ cost[s] <= Charge(batch[r], s)
          /\ deposit' = [s \in Sponsors |-> deposit[s] - cost[s]]
    /\ MarkTouched

\* handleOps is mined and reverts, or runs out of gas: the sequencer pays for nothing.
MineReverts(r) ==
    /\ phase[r] = "sent"
    /\ ~HandleOpsPasses(batch[r]) \/ need[r] > limit[r]
    /\ Become(r, "lost")
    /\ Forget(r)
    /\ UNCHANGED <<deposit, invalid, touched, gas>>

\* Somebody tops a deposit up or withdraws.
MoveDeposit(s) ==
    /\ \E d \in 0 .. MaxDeposit : deposit' = [deposit EXCEPT ![s] = d]
    /\ UNCHANGED <<invalid, phase, batch, idx, gas>>
    /\ MarkTouched

\* An operation expires, is executed through another bundler, or its account refuses it.
Invalidate(o) ==
    /\ invalid' = invalid \cup {o}
    /\ UNCHANGED <<deposit, phase, batch, idx, gas>>
    /\ MarkTouched

\* The gas a batch needs depends on the state it meets.
NeedChanges(r) ==
    /\ Exposed(r)
    /\ \E g \in GasUses : need' = [need EXCEPT ![r] = g]
    /\ UNCHANGED <<deposit, invalid, phase, batch, idx, touched, limit, estimated>>

SponsorshipNext ==
    \/ \E r \in Requests :
          \/ Begin(r) \/ CheckDeposit(r) \/ SimulateOp(r) \/ EstimateBatch(r)
          \/ SendBatch(r) \/ GiveUp(r) \/ MineOk(r) \/ MineReverts(r) \/ NeedChanges(r)
    \/ \E s \in Sponsors : MoveDeposit(s)
    \/ \E o \in Ops : Invalidate(o)

SponsorshipSpec == SponsorshipInit /\ [][SponsorshipNext]_sp_vars

-----------------------------------------------------------------------------
\* Properties.

(***************************************************************************)
(* The gas the batch needs has grown by more than the configured share of  *)
(* the estimate; if the product of estimate and share left the u64, the    *)
(* code grants less, but never less than the estimate.                     *)
(***************************************************************************)
OutgrewMargin(r) ==
    LET margin == estimated[r] * GasMarginPct
    IN  /\ need[r] > estimated[r]
        /\ margin <= U64Max => 100 * (need[r] - estimated[r]) > margin

(***************************************************************************)
(* The sequencer pays for a handleOps that reverts only if the chain       *)
(* changed after its gas estimate: the deposit of one of its sponsors fell *)
(* (a withdrawal, or another batch of that sponsor), one of its operations *)
(* stopped to validate, or it came to need more gas than the estimate and  *)
(* the margin.  Several operations of one sponsor, or one operation twice, *)
(* do not get through on their own, and the limit is not cut below what    *)
(* gas_margin_pct promises.                                                *)
(***************************************************************************)
LossNeedsInterference ==
    \A r \in Requests : phase[r] = "lost" => touched[r] \/ OutgrewMargin(r)
=============================================================================
