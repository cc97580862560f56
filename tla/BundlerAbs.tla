------------------------------ MODULE BundlerAbs ------------------------------
(***************************************************************************)
(* What `build_signed_user_ops_tx` promises its clients, without locks,    *)
(* pools, tasks or networks: a request is open until it is answered once,  *)
(* at most one envelope is signed for it, only signed envelopes reach the  *)
(* ledger, in nonce order, and an answer says what is true of the ledger.  *)
(***************************************************************************)
EXTENDS Naturals

CONSTANTS Requests, Envelopes, Answers

VARIABLES
    stage,      \* of a request: "idle", "open" or "closed"
    submitted,  \* whether the bundler was asked to broadcast
    envelope,   \* of a request: the set of what was signed for it
    answer,
    ledger,     \* mined envelopes with their status
    height      \* the next nonce of the ledger

abs_vars == <<stage, submitted, envelope, answer, ledger, height>>

AbsInit ==
    /\ stage = [r \in Requests |-> "idle"]
    /\ submitted = [r \in Requests |-> FALSE]
    /\ envelope = [r \in Requests |-> {}]
    /\ answer = [r \in Requests |-> "none"]
    /\ ledger = {}
    /\ height = 0

Settled(t, ok) == [tx |-> t, success |-> ok] \in ledger

AbsExecuted == UNION {x.tx.ops : x \in {y \in ledger : y.success}}

Open(r) ==
    /\ stage[r] = "idle"
    /\ stage' = [stage EXCEPT ![r] = "open"]
    /\ \E s \in BOOLEAN : submitted' = [submitted EXCEPT ![r] = s]
    /\ UNCHANGED <<envelope, answer, ledger, height>>

\* One envelope per request, signed while the request is open.
Sign(r) ==
    /\ stage[r] = "open"
    /\ envelope[r] = {}
    /\ \E t \in Envelopes : envelope' = [envelope EXCEPT ![r] = {t}]

Broadcast(r) ==
    /\ submitted[r]
    /\ Sign(r)
    /\ UNCHANGED <<stage, submitted, answer, ledger, height>>

\* What an answer claims about the ledger and about the envelope.
Truthful(r, a) ==
    /\ a = "Ok" => submitted[r] /\ \E t \in envelope[r] : Settled(t, TRUE)
    /\ a = "HandleOpsReverted" => \E t \in envelope[r] : Settled(t, FALSE)
    /\ a = "ReceiptTimeout" => submitted[r] /\ envelope[r] # {}
    /\ a \in {"Rejected", "SignerError"} => envelope[r] = {}

Close(r, a) ==
    /\ stage' = [stage EXCEPT ![r] = "closed"]
    /\ answer' = [answer EXCEPT ![r] = a]

Reply(r) ==
    /\ stage[r] = "open"
    /\ \E a \in Answers : Truthful(r, a) /\ Close(r, a)
    /\ UNCHANGED <<submitted, envelope, ledger, height>>

\* Sign-only: the envelope is the answer.
HandOver(r) ==
    /\ ~submitted[r]
    /\ Sign(r)
    /\ Close(r, "Ok")
    /\ UNCHANGED <<submitted, ledger, height>>

\* A signed envelope is mined, open request or not; no operation runs twice.
Settle ==
    \E r \in Requests, ok \in BOOLEAN : \E t \in envelope[r] :
        /\ t.nonce = height
        /\ ok => t.ops \cap AbsExecuted = {}
        /\ ledger' = ledger \cup {[tx |-> t, success |-> ok]}
        /\ height' = height + 1
        /\ UNCHANGED <<stage, submitted, envelope, answer>>

AbsNext ==
    \/ \E r \in Requests : Open(r) \/ Broadcast(r) \/ Reply(r) \/ HandOver(r)
    \/ Settle

AbsSpec == AbsInit /\ [][AbsNext]_abs_vars
=============================================================================
