------------------------------- MODULE Bundler -------------------------------
(***************************************************************************)
(* The request life cycle of `Bundler` (crates/bundler/src/bundler.rs):    *)
(* any number of `build_signed_user_ops_tx` calls run concurrently on one  *)
(* bundler, share one `submit_lock` and one execution layer, and race      *)
(* against the shutdown token.                                             *)
(*                                                                         *)
(* A request is one tokio task.  An action is what the task does between   *)
(* two awaits, or the moment the node evaluates one of its calls.  A poll  *)
(* of the task asks the shutdown token first (biased select) and then runs *)
(* build_inner up to its next pending call.  main runs on another thread   *)
(* of the runtime, so the token can fire in the middle of a poll, which    *)
(* still runs to its end.                                                  *)
(*                                                                         *)
(* The data of a batch is abstracted: which operations it holds and which  *)
(* outer fees it ends up with.  Module Admission models the checks that    *)
(* are one step ("build") here.                                            *)
(***************************************************************************)
EXTENDS ExecutionLayer

CONSTANTS Requests      \* the calls of ethera_buildSignedUserOpsTx

ASSUME FeesAssumption == Fees # {}

VARIABLES
    pc,           \* where the task of a request stands
    submit,       \* opts.submit
    batch,        \* the operations of the request
    fee,          \* outer fees chosen for it
    nonce,        \* the pending nonce it was told
    signed,       \* requests that hold a signed envelope
    outcome,      \* what the client was answered
    ticket,       \* place in the queue of submit_lock, 0 when not in it
    next_ticket,  \* the next place in that queue
    cancelled,    \* the shutdown token
    mid_poll,     \* tasks in the middle of a poll that asked before it fired
    late,         \* history: submits whose broadcast began after the token
    wire,         \* eth_sendRawTransaction calls the node has not evaluated
    reply         \* the node's verdict on a send its caller still awaits

vars == <<pool, account_nonce, receipts, released, pc, submit, batch, fee,
          nonce, signed, outcome, ticket, next_ticket, cancelled, mid_poll,
          late, wire, reply>>

\* Control states; "lock" .. "send" lie between the lock call and its drop.
PCs == {"idle", "build", "lock", "nonce", "sign", "send", "receipt",
        "replay", "done"}

(***************************************************************************)
(* What one poll can run through: the calls of the provider are HTTP calls *)
(* that always pend, an uncontended lock and the local signer do not.      *)
(***************************************************************************)
Segment(at) ==
    CASE at \in {"build", "lock"} -> "build"
      [] at \in {"nonce", "sign"} -> "nonce"
      [] OTHER                    -> at

(***************************************************************************)
(* Answers.  "Rejected" stands for every BundlerError of the checks that   *)
(* do not depend on a failed call (chain id, batch, fees, packing,         *)
(* deposit, validation); "Disconnected" for a client that went away.       *)
(***************************************************************************)
Outcomes == {"none", "Ok", "Rejected", "ProviderError", "SignerError",
             "Cancelled", "ReceiptTimeout", "HandleOpsReverted", "Disconnected"}

TypeOK ==
    /\ ELTypeOK
    /\ pc \in [Requests -> PCs]
    /\ submit \in [Requests -> BOOLEAN]
    /\ batch \in [Requests -> SUBSET Ops]
    /\ fee \in [Requests -> Fees]
    /\ nonce \in [Requests -> Nonces]
    /\ signed \subseteq Requests
    /\ outcome \in [Requests -> Outcomes]
    /\ ticket \in [Requests -> Nat]
    /\ next_ticket \in Nat \ {0}
    /\ cancelled \in BOOLEAN
    /\ mid_poll \subseteq Requests
    /\ late \subseteq Requests
    /\ wire \subseteq Requests
    /\ reply \in [Requests -> {"none", "accepted", "rejected"}]

Init ==
    /\ ELInit
    /\ pc = [r \in Requests |-> "idle"]
    /\ submit = [r \in Requests |-> FALSE]
    /\ batch = [r \in Requests |-> {}]
    /\ fee = [r \in Requests |-> CHOOSE f \in Fees : TRUE]
    /\ nonce = [r \in Requests |-> 0]
    /\ signed = {}
    /\ outcome = [r \in Requests |-> "none"]
    /\ ticket = [r \in Requests |-> 0]
    /\ next_ticket = 1
    /\ cancelled = FALSE
    /\ mid_poll = {}
    /\ late = {}
    /\ wire = {}
    /\ reply = [r \in Requests |-> "none"]

-----------------------------------------------------------------------------
\* Helpers.

\* The envelope of request r.
TxOf(r) == [nonce |-> nonce[r], ops |-> batch[r], fee |-> fee[r]]

(***************************************************************************)
(* submit_lock is a tokio Mutex: first come, first served.  The task with  *)
(* the smallest ticket owns it; leaving the queue is dropping the guard    *)
(* or the pending lock() future.                                           *)
(***************************************************************************)
Owner(r) ==
    /\ ticket[r] # 0
    /\ \A s \in Requests : ticket[s] # 0 => ticket[r] <= ticket[s]

\* Mutant of Polled: the select is not biased, a fired token may lose.
PolledUnbiased(r, at) == pc[r] = at

(***************************************************************************)
(* The select! of build_signed_user_ops_tx polls the inner future at `at`: *)
(* the token had not fired when this poll asked it.                        *)
(***************************************************************************)
Polled(r, at) ==
    /\ pc[r] = at
    /\ ~cancelled \/ r \in mid_poll

\* Mutant of Answer: a finished request keeps its place in the lock.
AnswerKeepsGuard(r, res) ==
    /\ pc' = [pc EXCEPT ![r] = "done"]
    /\ mid_poll' = mid_poll \ {r}
    /\ outcome' = [outcome EXCEPT ![r] = res]
    /\ UNCHANGED ticket

\* The inner future is finished and dropped, the guard with it.
Answer(r, res) ==
    /\ pc' = [pc EXCEPT ![r] = "done"]
    /\ mid_poll' = mid_poll \ {r}
    /\ outcome' = [outcome EXCEPT ![r] = res]
    /\ ticket' = [ticket EXCEPT ![r] = 0]

\* The inner future goes on; its poll ends with the segment.
Goto(r, to) ==
    /\ pc' = [pc EXCEPT ![r] = to]
    /\ mid_poll' = IF Segment(to) = Segment(pc[r]) THEN mid_poll
                                                   ELSE mid_poll \ {r}

request == <<submit, batch>>
lock    == <<ticket, next_ticket>>
token   == <<cancelled, late>>
net     == <<wire, reply>>

-----------------------------------------------------------------------------
\* The steps of a task.

\* The RPC server starts a call.
Arrive(r) ==
    /\ pc[r] = "idle"
    /\ Goto(r, "build")
    /\ \E s \in BOOLEAN, b \in Batches :
          /\ submit' = [submit EXCEPT ![r] = s]
          /\ batch' = [batch EXCEPT ![r] = b]
    /\ UNCHANGED <<el_vars, fee, nonce, signed, outcome, lock, token, net>>

(***************************************************************************)
(* Every check passed and the gas estimate is back.  simulateValidation    *)
(* runs on the latest state, so an executed operation does not get here.   *)
(* A submit queues up for the lock in the same poll.                       *)
(***************************************************************************)
BuildPasses(r) ==
    /\ Polled(r, "build")
    /\ batch[r] \cap Executed = {}
    /\ \E f \in Fees : fee' = [fee EXCEPT ![r] = f]
    /\ IF submit[r]
       THEN /\ Goto(r, "lock")
            /\ ticket' = [ticket EXCEPT ![r] = next_ticket]
            /\ next_ticket' = next_ticket + 1
       ELSE /\ Goto(r, "nonce")
            /\ UNCHANGED lock
    /\ UNCHANGED <<el_vars, request, nonce, signed, outcome, token, net>>

\* A check fails, or a call the checks make.
BuildFails(r) ==
    /\ Polled(r, "build")
    /\ \E e \in {"Rejected", "ProviderError"} : Answer(r, e)
    /\ UNCHANGED <<el_vars, request, fee, nonce, signed, next_ticket,
                   token, net>>

\* Mutant of LockGranted: submits do not wait for one another.
LockIgnored(r) ==
    /\ Polled(r, "lock")
    /\ Goto(r, "nonce")
    /\ UNCHANGED <<el_vars, request, fee, nonce, signed, outcome, lock,
                   token, net>>

\* submit_lock.lock().await returns the guard.
LockGranted(r) ==
    /\ Polled(r, "lock")
    /\ Owner(r)
    /\ Goto(r, "nonce")
    /\ UNCHANGED <<el_vars, request, fee, nonce, signed, outcome, lock,
                   token, net>>

\* Mutant of ReadPendingNonce: one above the pending nonce.
ReadNonceOffByOne(r) ==
    /\ Polled(r, "nonce")
    /\ \E n \in Nonces :
          /\ IsPendingNonce(n)
          /\ nonce' = [nonce EXCEPT ![r] = n + 1]
    /\ Goto(r, "sign")
    /\ UNCHANGED <<el_vars, request, fee, signed, outcome, lock, token, net>>

\* Mutant of ReadPendingNonce: the place in the queue counts as a reservation.
ReadNonceByQueue(r) ==
    /\ Polled(r, "nonce")
    /\ \E n \in Nonces :
          /\ IsPendingNonce(n)
          /\ nonce' = [nonce EXCEPT ![r] = n + ticket[r]]
    /\ Goto(r, "sign")
    /\ UNCHANGED <<el_vars, request, fee, signed, outcome, lock, token, net>>

\* The node evaluates eth_getTransactionCount(sequencer, pending).
ReadPendingNonce(r) ==
    /\ Polled(r, "nonce")
    /\ \E n \in Nonces :
          /\ IsPendingNonce(n)
          /\ nonce' = [nonce EXCEPT ![r] = n]
    /\ Goto(r, "sign")
    /\ UNCHANGED <<el_vars, request, fee, signed, outcome, lock, token, net>>

NonceReadFails(r) ==
    /\ Polled(r, "nonce")
    /\ Answer(r, "ProviderError")
    /\ UNCHANGED <<el_vars, request, fee, nonce, signed, next_ticket,
                   token, net>>

\* Mutant of SignAndSend: the guard is dropped before the broadcast.
SendAfterUnlock(r) ==
    /\ Polled(r, "sign")
    /\ submit[r]
    /\ signed' = signed \cup {r}
    /\ wire' = wire \cup {r}
    /\ Goto(r, "send")
    /\ late' = IF cancelled THEN late \cup {r} ELSE late
    /\ ticket' = [ticket EXCEPT ![r] = 0]
    /\ UNCHANGED <<el_vars, request, fee, nonce, outcome, next_ticket,
                   cancelled, reply>>

\* Submit: sign and start eth_sendRawTransaction, still under the lock.
SignAndSend(r) ==
    /\ Polled(r, "sign")
    /\ submit[r]
    /\ signed' = signed \cup {r}
    /\ wire' = wire \cup {r}
    /\ late' = IF cancelled THEN late \cup {r} ELSE late
    /\ Goto(r, "send")
    /\ UNCHANGED <<el_vars, request, fee, nonce, outcome, lock, cancelled,
                   reply>>

\* Sign-only: the envelope goes back to the client, who relays it.
SignOnly(r) ==
    /\ Polled(r, "sign")
    /\ ~submit[r]
    /\ signed' = signed \cup {r}
    /\ Answer(r, "Ok")
    /\ UNCHANGED <<el_vars, request, fee, nonce, next_ticket, token, net>>

\* u128_from_u256: a chosen outer fee does not fit u128.
FeeOverflows(r) ==
    /\ Polled(r, "sign")
    /\ Answer(r, "Rejected")
    /\ UNCHANGED <<el_vars, request, fee, nonce, signed, next_ticket,
                   token, net>>

\* sign_eip1559 returns an error.
SignFails(r) ==
    /\ Polled(r, "sign")
    /\ Answer(r, "SignerError")
    /\ UNCHANGED <<el_vars, request, fee, nonce, signed, next_ticket,
                   token, net>>

\* The node took the transaction: drop(_guard), then wait for the receipt.
SendAccepted(r) ==
    /\ Polled(r, "send")
    /\ reply[r] = "accepted"
    /\ Goto(r, "receipt")
    /\ ticket' = [ticket EXCEPT ![r] = 0]
    /\ UNCHANGED <<el_vars, request, fee, nonce, signed, outcome, next_ticket,
                   token, net>>

(***************************************************************************)
(* The send returns an error: the node refused the transaction, or the     *)
(* transport failed, in which case the node may still evaluate it later    *)
(* or may have accepted it already.                                        *)
(***************************************************************************)
SendFails(r) ==
    /\ Polled(r, "send")
    /\ Answer(r, "ProviderError")
    /\ UNCHANGED <<el_vars, request, fee, nonce, signed, next_ticket,
                   token, net>>

\* Mutant of ReceiptFound: the status of the receipt is not looked at.
ReceiptStatusIgnored(r) ==
    /\ Polled(r, "receipt")
    /\ \E ok \in BOOLEAN : Mined(TxOf(r), ok)
    /\ Answer(r, "Ok")
    /\ UNCHANGED <<el_vars, request, fee, nonce, signed, next_ticket,
                   token, net>>

\* Mutant of ReceiptFound: any mined transaction with this nonce counts.
ReceiptByNonce(r) ==
    /\ Polled(r, "receipt")
    /\ \E t \in Tx : t.nonce = nonce[r] /\ Mined(t, TRUE)
    /\ Answer(r, "Ok")
    /\ UNCHANGED <<el_vars, request, fee, nonce, signed, next_ticket,
                   token, net>>

\* A poll of wait_for_receipt finds the receipt.
ReceiptFound(r) ==
    /\ Polled(r, "receipt")
    /\ \/ /\ Mined(TxOf(r), TRUE)
          /\ Answer(r, "Ok")
       \/ /\ Mined(TxOf(r), FALSE)
          /\ Goto(r, "replay")
          /\ UNCHANGED <<outcome, ticket>>
    /\ UNCHANGED <<el_vars, request, fee, nonce, signed, next_ticket,
                   token, net>>

\* The last poll, at or after the deadline, finds none.
ReceiptTimeout(r) ==
    /\ Polled(r, "receipt")
    /\ \A ok \in BOOLEAN : ~Mined(TxOf(r), ok)
    /\ Answer(r, "ReceiptTimeout")
    /\ UNCHANGED <<el_vars, request, fee, nonce, signed, next_ticket,
                   token, net>>

\* One failed poll ends the whole wait.
ReceiptPollFails(r) ==
    /\ Polled(r, "receipt")
    /\ Answer(r, "ProviderError")
    /\ UNCHANGED <<el_vars, request, fee, nonce, signed, next_ticket,
                   token, net>>

\* try_call_for_revert: every result of the replay, an error too, is a reason.
Replay(r) ==
    /\ Polled(r, "replay")
    /\ Answer(r, "HandleOpsReverted")
    /\ UNCHANGED <<el_vars, request, fee, nonce, signed, next_ticket,
                   token, net>>

\* Mutant of DropCancelled: a task parked on the lock does not see the token.
DropExceptLocked(r) ==
    /\ cancelled
    /\ pc[r] \notin {"idle", "lock", "done"}
    /\ Answer(r, "Cancelled")
    /\ UNCHANGED <<el_vars, request, fee, nonce, signed, next_ticket,
                   token, net>>

\* The token fired: the biased select answers and drops the inner future.
DropCancelled(r) ==
    /\ cancelled
    /\ pc[r] \notin {"idle", "done"}
    /\ Answer(r, "Cancelled")
    /\ UNCHANGED <<el_vars, request, fee, nonce, signed, next_ticket,
                   token, net>>

-----------------------------------------------------------------------------
\* The environment: ctrl-c, the network, the node, the clients.

\* The client's connection breaks: the server drops the call at its await.
Disconnect(r) ==
    /\ pc[r] \notin {"idle", "done"}
    /\ Answer(r, "Disconnected")
    /\ UNCHANGED <<el_vars, request, fee, nonce, signed, next_ticket,
                   token, net>>

\* main: ctrl-c fires the token, whatever the tasks are in the middle of.
Cancel ==
    /\ ~cancelled
    /\ cancelled' = TRUE
    /\ mid_poll' \in SUBSET {r \in Requests : pc[r] \notin {"idle", "done"}}
    /\ UNCHANGED <<el_vars, pc, request, fee, nonce, signed, outcome, lock,
                   late, net>>

\* The node evaluates a send; nobody may be waiting for the reply any more.
NodeAccepts(r) ==
    /\ r \in wire
    /\ Accept(TxOf(r))
    /\ wire' = wire \ {r}
    /\ reply' = [reply EXCEPT ![r] = IF pc[r] = "send" THEN "accepted" ELSE @]
    /\ UNCHANGED <<pc, request, fee, nonce, signed, outcome, lock, token,
                   mid_poll>>

NodeRejects(r) ==
    /\ r \in wire
    /\ ~Free(nonce[r])
    /\ wire' = wire \ {r}
    /\ reply' = [reply EXCEPT ![r] = IF pc[r] = "send" THEN "rejected" ELSE @]
    /\ UNCHANGED <<el_vars, pc, request, fee, nonce, signed, outcome, lock,
                   token, mid_poll>>

\* A send never reaches the node.
SendLost(r) ==
    /\ r \in wire
    /\ wire' = wire \ {r}
    /\ UNCHANGED <<el_vars, pc, request, fee, nonce, signed, outcome, lock,
                   token, mid_poll, reply>>

\* The client of a sign-only request sends the envelope to the node itself.
Relay(r) ==
    /\ pc[r] = "done" /\ outcome[r] = "Ok" /\ ~submit[r]
    /\ Accept(TxOf(r))
    /\ UNCHANGED <<pc, request, fee, nonce, signed, outcome, lock, token,
                   mid_poll, net>>

NodeStep ==
    /\ Mine \/ Release
    /\ UNCHANGED <<pc, request, fee, nonce, signed, outcome, lock, token,
                   mid_poll, net>>

\* Every request is answered: the model has nothing left to ask.
Drained ==
    /\ \A r \in Requests : pc[r] = "done"
    /\ UNCHANGED vars

-----------------------------------------------------------------------------

\* Steps that need nothing but the runtime to poll the task.
RuntimeStep(r) ==
    \/ LockGranted(r) \/ SignAndSend(r) \/ SignOnly(r)
    \/ FeeOverflows(r) \/ SignFails(r) \/ DropCancelled(r)

\* Steps in which a call of the provider returns to the task.
ProviderReturns(r) ==
    \/ BuildPasses(r) \/ BuildFails(r)
    \/ ReadPendingNonce(r) \/ NonceReadFails(r)
    \/ SendAccepted(r) \/ SendFails(r)
    \/ ReceiptFound(r) \/ ReceiptTimeout(r) \/ ReceiptPollFails(r)
    \/ Replay(r)

NetworkStep(r) ==
    NodeAccepts(r) \/ NodeRejects(r) \/ SendLost(r) \/ Relay(r) \/ Disconnect(r)

Next ==
    \/ \E r \in Requests :
          Arrive(r) \/ RuntimeStep(r) \/ ProviderReturns(r) \/ NetworkStep(r)
    \/ Cancel
    \/ NodeStep
    \/ Drained

Spec == Init /\ [][Next]_vars

(***************************************************************************)
(* The runtime polls every task that can move; nothing is assumed of the   *)
(* provider, whose HTTP calls have no timeout.                             *)
(***************************************************************************)
RuntimeFairness == \A r \in Requests : WF_vars(RuntimeStep(r))

WedgedSpec == Spec /\ RuntimeFairness

\* Every call of the provider returns, with a result or an error.
ProviderFairness == \A r \in Requests : WF_vars(ProviderReturns(r))

-----------------------------------------------------------------------------
\* Properties.

(***************************************************************************)
(* A submit whose envelope the node is not known to have taken: its send   *)
(* failed, or its task was dropped while the send was under way.           *)
(***************************************************************************)
Orphan(r) == pc[r] = "done" /\ reply[r] # "accepted"

\* Request s used r's nonce without the protection of submit_lock.
Outsider(r, s) ==
    /\ s \in signed
    /\ nonce[s] = nonce[r]
    /\ ~submit[s] \/ Orphan(s)

(***************************************************************************)
(* The lock around pending_nonce .. send_raw_transaction: when the node    *)
(* refuses the nonce of a submit, then because of a sign-only envelope or  *)
(* of a send that was given up earlier, never because of another submit    *)
(* that went through.                                                      *)
(***************************************************************************)
NoSelfCollision ==
    \A r \in Requests :
        reply[r] = "rejected" => \E s \in Requests \ {r} : Outsider(r, s)

(***************************************************************************)
(* What submit_lock achieves for the signatures themselves: two submits    *)
(* hold envelopes with the same nonce only if one of them is an orphan or  *)
(* the node gave the nonce free again in between.                          *)
(***************************************************************************)
DistinctNonces ==
    \A r, s \in signed :
        (r # s /\ submit[r] /\ submit[s] /\ nonce[r] = nonce[s])
            => Orphan(r) \/ Orphan(s) \/ nonce[r] \in released

(***************************************************************************)
(* Signing at the pending nonce and caching nothing: a pooled transaction  *)
(* waits behind a missing nonce only if the node itself released that      *)
(* nonce; no failure, cancellation or race of requests leaves a gap.       *)
(***************************************************************************)
GapOnlyFromRelease ==
    \A t \in pool, m \in Nonces :
        (account_nonce <= m /\ m < t.nonce) => InPool(m) \/ m \in released

(***************************************************************************)
(* The answer of build_inner tells the client the truth about the chain:   *)
(* Ok for a submit means mined and successful, HandleOpsReverted mined and *)
(* failed, ReceiptTimeout taken by the node, and after a rejection or a    *)
(* signer error no envelope of this request exists, so it can be retried.  *)
(***************************************************************************)
AnswersAreTrue ==
    \A r \in Requests :
        /\ outcome[r] = "Ok" /\ submit[r] => Mined(TxOf(r), TRUE)
        /\ outcome[r] = "HandleOpsReverted" => Mined(TxOf(r), FALSE)
        /\ outcome[r] = "ReceiptTimeout" => reply[r] = "accepted"
        /\ outcome[r] \in {"Rejected", "SignerError"} => r \notin signed

(***************************************************************************)
(* The receipt is asked for by the hash of the request's own envelope: of  *)
(* all submits that carry the same operation, by design or by a retry, two *)
(* are told Ok only if they signed the very same transaction.              *)
(***************************************************************************)
OneOkPerOperation ==
    \A r, s \in Requests :
        (/\ submit[r] /\ outcome[r] = "Ok"
         /\ submit[s] /\ outcome[s] = "Ok"
         /\ batch[r] \cap batch[s] # {})
            => TxOf(r) = TxOf(s)

(***************************************************************************)
(* What shutdown promises of broadcasts on a multi-thread runtime.  A poll *)
(* that had asked the token before it fired still broadcasts, but only the *)
(* owner of submit_lock can be past the nonce, and the guard it drops      *)
(* afterwards lets nobody else through: after the token fired at most one  *)
(* more eth_sendRawTransaction begins.                                     *)
(***************************************************************************)
OneLateSend == \A r, s \in late : r = s

(***************************************************************************)
(* If provider calls return, every request is answered: no error path      *)
(* leaves the lock behind, and the lock's queue starves nobody.            *)
(***************************************************************************)
EveryRequestAnswered ==
    ProviderFairness => \A r \in Requests : pc[r] = "build" ~> pc[r] = "done"

(***************************************************************************)
(* "A SIGINT doesn't have to wait for a wedged provider call": after the   *)
(* token every request is answered although no provider call ever returns. *)
(***************************************************************************)
ShutdownDrains ==
    \A r \in Requests : cancelled /\ pc[r] # "idle" ~> pc[r] = "done"

(***************************************************************************)
(* The comment on `submit_lock`: it makes "the read-nonce -> broadcast     *)
(* sequence atomic, so concurrent submits never sign the same nonce".      *)
(* Read for broadcasts that are on their way at the same time.             *)
(***************************************************************************)
ConcurrentNoncesDiffer ==
    \A r, s \in wire : r # s => nonce[r] # nonce[s]

-----------------------------------------------------------------------------

\* The abstract view of a request's control state.
Stage(r) ==
    IF pc[r] = "idle" THEN "idle" ELSE IF pc[r] = "done" THEN "closed" ELSE "open"

Abs == INSTANCE BundlerAbs WITH
    Envelopes <- Tx,
    Answers   <- Outcomes \ {"none"},
    stage     <- [r \in Requests |-> Stage(r)],
    submitted <- submit,
    envelope  <- [r \in Requests |-> IF r \in signed THEN {TxOf(r)} ELSE {}],
    answer    <- outcome,
    ledger    <- receipts,
    height    <- account_nonce

(***************************************************************************)
(* build_signed_user_ops_tx keeps the promise of BundlerAbs: whatever the  *)
(* interleaving of tasks, failures, drops, shutdown and node, a request is *)
(* answered at most once and truthfully, signs at most one envelope, and   *)
(* only signed envelopes are mined.                                        *)
(***************************************************************************)
Implements == Abs!AbsSpec
=============================================================================
