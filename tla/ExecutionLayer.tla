--------------------------- MODULE ExecutionLayer ---------------------------
(***************************************************************************)
(* The execution-layer node behind `EthProvider` (external to the          *)
(* repository), reduced to what the bundler core relies on: the            *)
(* transaction pool and the nonce of ONE account, the sequencer's.  It is  *)
(* modelled from how crates/bundler/src/bundler.rs and provider.rs use it: *)
(* the pending nonce "already accounts for in-flight transactions and      *)
(* released reservations", "a stale or duplicate nonce is rejected", a     *)
(* receipt says whether handleOps succeeded.                               *)
(***************************************************************************)
EXTENDS Naturals

CONSTANTS
    Ops,        \* UserOperations a batch may hold
    Fees,       \* outer fee settings a signed transaction may carry
    MaxNonce    \* bound of the nonces the model can draw

ASSUME MaxNonceAssumption == MaxNonce \in Nat

VARIABLES
    pool,           \* accepted transactions that are not mined yet
    account_nonce,  \* the sequencer's nonce at the latest block
    receipts,       \* the mined transactions, each with its status
    released        \* history: nonces whose transaction left the pool unmined

el_vars == <<pool, account_nonce, receipts, released>>

Nonces == 0 .. MaxNonce

Batches == (SUBSET Ops) \ {{}}

(***************************************************************************)
(* Two transactions are the same (one raw encoding, one hash) exactly when *)
(* all their fields are: signing is deterministic.                         *)
(***************************************************************************)
Tx == [nonce : Nonces, ops : SUBSET Ops, fee : Fees]

Receipts == [tx : Tx, success : BOOLEAN]

ELTypeOK ==
    /\ pool \subseteq Tx
    /\ account_nonce \in Nat
    /\ receipts \subseteq Receipts
    /\ released \subseteq Nonces

ELInit ==
    /\ pool = {}
    /\ account_nonce = 0
    /\ receipts = {}
    /\ released = {}

-----------------------------------------------------------------------------

\* Some pooled transaction occupies nonce n.
InPool(n) == \E t \in pool : t.nonce = n

\* Nonce n could still be given to a transaction of its own.
Free(n) == n >= account_nonce /\ ~InPool(n)

\* n is eth_getTransactionCount(sequencer, "pending"): the first free nonce.
IsPendingNonce(n) ==
    /\ Free(n)
    /\ \A m \in Nonces : (account_nonce <= m /\ m < n) => InPool(m)

\* UserOperations already executed on chain; EntryPoint refuses them (AA25).
Executed == UNION {x.tx.ops : x \in {y \in receipts : y.success}}

Mined(t, ok) == [tx |-> t, success |-> ok] \in receipts

\* eth_sendRawTransaction takes the transaction into the pool.
Accept(t) ==
    /\ Free(t.nonce)
    /\ pool' = pool \cup {t}
    /\ UNCHANGED <<account_nonce, receipts, released>>

(***************************************************************************)
(* A block takes the transaction that is next in nonce order.  handleOps   *)
(* reverts as a whole when one of its operations was executed before, and  *)
(* it may revert for reasons the bundler's simulation did not see.         *)
(***************************************************************************)
Mine ==
    \E t \in pool, ok \in BOOLEAN :
        /\ t.nonce = account_nonce
        /\ ok => t.ops \cap Executed = {}
        /\ pool' = pool \ {t}
        /\ account_nonce' = account_nonce + 1
        /\ receipts' = receipts \cup {[tx |-> t, success |-> ok]}
        /\ UNCHANGED released

(***************************************************************************)
(* A pooled transaction is dropped (an aborted cross-chain leg, eviction): *)
(* its nonce is released and the pending nonce falls back.                 *)
(***************************************************************************)
Release ==
    \E t \in pool :
        /\ pool' = pool \ {t}
        /\ released' = released \cup {t.nonce}
        /\ UNCHANGED <<account_nonce, receipts>>
=============================================================================
