------------------------------- MODULE Receipt -------------------------------
(***************************************************************************)
(* The end of a submit: `wait_for_receipt` of crates/bundler/src/          *)
(* provider.rs with its clock, backoff and deadline, and the replay of a   *)
(* reverted handleOps.  Module Bundler takes each of these as one step.    *)
(*                                                                         *)
(* Time passes between any two steps.  A poll is asked, evaluated by the   *)
(* node and answered at three different times, and nothing bounds how long *)
(* a call takes (the HTTP client has no timeout); a sleeping task is woken *)
(* at most Overshoot late.                                                 *)
(***************************************************************************)
EXTENDS Reverts

CONSTANTS
    InitialBackoff,     \* 200 ms
    MaxBackoff,         \* 2 s
    Timeout,            \* RECEIPT_TIMEOUT, 30 s
    Overshoot,          \* how late the timer may wake the task
    RevertData,         \* what handleOps may revert with
    Horizon             \* bound of the clock

ASSUME ReceiptAssumption ==
    /\ InitialBackoff \in Nat \ {0}
    /\ MaxBackoff \in Nat /\ InitialBackoff <= MaxBackoff
    /\ Timeout \in Nat \ {0}
    /\ Overshoot \in Nat
    /\ Horizon \in Nat /\ Timeout + Overshoot < Horizon
    /\ RevertData \subseteq [selector : Selectors \cup {"short", "other"},
                             decodes : BOOLEAN, number : Nat, reason : Reasons]

VARIABLES
    now,
    pc,         \* "asked", "replied", "asleep", "replay" or "done"
    deadline, backoff, wake_at,
    seen,       \* what the node answered to the poll
    result,     \* of the wait; for a revert, with its decoded reason
    mined,      \* "no", "succeeded" or "reverted"
    latest,     \* what the call of handleOps would do at the latest block
    mined_at, asked_at, eval_at, back_at,   \* history: times
    mined_revert,   \* history: what the transaction reverted with
    moved,          \* history: the call has come to do something else since
    replayed        \* history: the node answered the replay

wait    == <<deadline, backoff, wake_at>>
chain   == <<mined, mined_at, mined_revert, latest, moved>>
times   == <<asked_at, eval_at, back_at>>
rc_vars == <<now, pc, wait, seen, result, chain, times, replayed>>

Succeeds == [selector |-> "none"]

ReceiptInit ==
    /\ now = 0
    /\ pc = "asked"
    /\ deadline = now + Timeout
    /\ backoff = InitialBackoff
    /\ wake_at = 0
    /\ seen = "no"
    /\ result = [kind |-> "none"]
    /\ mined = "no" /\ latest = Succeeds /\ mined_at = 0
    /\ mined_revert = Succeeds /\ moved = FALSE /\ replayed = FALSE
    /\ asked_at = 0 /\ eval_at = 0 /\ back_at = 0

min(a, b) == IF a <= b THEN a ELSE b

Done(res) == pc' = "done" /\ result' = res

-----------------------------------------------------------------------------

\* The node evaluates eth_getTransactionReceipt.
PollEvaluated ==
    /\ pc = "asked"
    /\ pc' = "replied"
    /\ seen' = mined
    /\ eval_at' = now
    /\ UNCHANGED <<now, wait, result, chain, asked_at, back_at, replayed>>

\* The answer holds a receipt; a reverted one is replayed by build_inner.
ReceiptReturned ==
    /\ pc = "replied" /\ seen # "no"
    /\ back_at' = now
    /\ IF seen = "succeeded"
       THEN Done([kind |-> "Ok"])
       ELSE pc' = "replay" /\ UNCHANGED result
    /\ UNCHANGED <<now, wait, seen, chain, asked_at, eval_at, replayed>>

\* Mutant of NoReceiptYet: the backoff grows without its limit.
SleepUncapped ==
    /\ pc = "replied" /\ seen = "no" /\ now < deadline
    /\ back_at' = now
    /\ pc' = "asleep"
    /\ wake_at' = now + min(backoff, deadline - now)
    /\ backoff' = backoff * 2
    /\ UNCHANGED <<now, deadline, seen, result, chain, asked_at, eval_at, replayed>>

\* Mutant of NoReceiptYet: the last sleep is not cut at the deadline.
SleepPastDeadline ==
    /\ pc = "replied" /\ seen = "no" /\ now < deadline
    /\ back_at' = now
    /\ pc' = "asleep"
    /\ wake_at' = now + backoff
    /\ backoff' = min(backoff * 2, MaxBackoff)
    /\ UNCHANGED <<now, deadline, seen, result, chain, asked_at, eval_at, replayed>>

\* No receipt before the deadline: sleep.
NoReceiptYet ==
    /\ pc = "replied" /\ seen = "no" /\ now < deadline
    /\ back_at' = now
    /\ pc' = "asleep"
    /\ wake_at' = now + min(backoff, deadline - now)
    /\ backoff' = min(backoff * 2, MaxBackoff)
    /\ UNCHANGED <<now, deadline, seen, result, chain, asked_at, eval_at, replayed>>

\* Mutant of TimedOut: at the deadline the rest of the time is slept, which is none.
SleepTheRest ==
    /\ pc = "replied" /\ seen = "no" /\ now >= deadline
    /\ back_at' = now
    /\ pc' = "asleep"
    /\ wake_at' = now
    /\ UNCHANGED <<now, deadline, backoff, seen, result, chain, asked_at, eval_at, replayed>>

\* No receipt at or after the deadline: Ok(None).
TimedOut ==
    /\ pc = "replied" /\ seen = "no" /\ now >= deadline
    /\ back_at' = now
    /\ Done([kind |-> "ReceiptTimeout"])
    /\ UNCHANGED <<now, wait, seen, chain, asked_at, eval_at, replayed>>

\* A failed poll ends the wait.
PollFails ==
    /\ pc \in {"asked", "replied"}
    /\ back_at' = now
    /\ Done([kind |-> "Provider"])
    /\ UNCHANGED <<now, wait, seen, chain, asked_at, eval_at, replayed>>

\* Mutant of Wake: the deadline is looked at before the poll.
WakeAndGiveUp ==
    /\ pc = "asleep" /\ now >= wake_at
    /\ IF now >= deadline
       THEN Done([kind |-> "ReceiptTimeout"]) /\ UNCHANGED asked_at
       ELSE pc' = "asked" /\ asked_at' = now /\ UNCHANGED result
    /\ UNCHANGED <<now, wait, seen, chain, eval_at, back_at, replayed>>

Wake ==
    /\ pc = "asleep" /\ now >= wake_at
    /\ pc' = "asked"
    /\ asked_at' = now
    /\ UNCHANGED <<now, wait, seen, result, chain, eval_at, back_at, replayed>>

\* try_call_for_revert at the latest block.
Replay ==
    /\ pc = "replay"
    /\ Done([kind |-> "HandleOpsReverted",
             reason |-> IF latest = Succeeds THEN Unknown ELSE decode_handle_ops_revert(latest)])
    /\ replayed' = TRUE
    /\ UNCHANGED <<now, wait, seen, chain, times>>

\* A replay that fails for any other cause gives no data either.
ReplayFails ==
    /\ pc = "replay"
    /\ Done([kind |-> "HandleOpsReverted", reason |-> Unknown])
    /\ UNCHANGED <<now, wait, seen, chain, times, replayed>>

-----------------------------------------------------------------------------
\* The clock and the node.

Tick ==
    /\ pc # "done"
    /\ now < Horizon
    /\ pc = "asleep" => now < wake_at + Overshoot
    /\ now' = now + 1
    /\ UNCHANGED <<pc, wait, seen, result, chain, times, replayed>>

\* The replay sets no gas limit: what reverted for want of gas succeeds there.
MineTx ==
    /\ mined = "no"
    /\ mined_at' = now
    /\ \/ mined' = "succeeded" /\ UNCHANGED <<mined_revert, latest>>
       \/ /\ mined' = "reverted"
          /\ mined_revert' \in RevertData
          /\ latest' \in {mined_revert', Succeeds}
    /\ UNCHANGED <<now, pc, wait, seen, result, times, moved, replayed>>

\* Later blocks: the same call does something else at the latest block.
NodeMoves ==
    /\ mined = "reverted" /\ pc # "done"
    /\ latest' \in RevertData \cup {Succeeds}
    /\ moved' = TRUE
    /\ UNCHANGED <<now, pc, wait, seen, result, mined, mined_at, mined_revert, times, replayed>>

Ended == pc = "done" /\ UNCHANGED rc_vars

ReceiptNext ==
    \/ PollEvaluated \/ ReceiptReturned \/ NoReceiptYet \/ TimedOut \/ PollFails
    \/ Wake \/ Replay \/ ReplayFails \/ Tick \/ MineTx \/ NodeMoves \/ Ended

ReceiptSpec == ReceiptInit /\ [][ReceiptNext]_rc_vars

\* Calls return, with a result or an error, time passes, sleepers are woken.
ReceiptFairSpec ==
    /\ ReceiptSpec
    /\ WF_rc_vars(Tick) /\ WF_rc_vars(Wake) /\ WF_rc_vars(PollEvaluated \/ PollFails)
    /\ WF_rc_vars(ReceiptReturned \/ NoReceiptYet \/ TimedOut \/ PollFails)
    /\ WF_rc_vars(Replay \/ ReplayFails)

-----------------------------------------------------------------------------
\* Properties.

ReceiptTypeOK ==
    /\ pc \in {"asked", "replied", "asleep", "replay", "done"}
    /\ now \in Nat /\ deadline \in Nat /\ wake_at \in Nat
    /\ backoff \in InitialBackoff .. MaxBackoff
    /\ seen \in {"no", "succeeded", "reverted"} /\ mined \in {"no", "succeeded", "reverted"}
    /\ moved \in BOOLEAN /\ replayed \in BOOLEAN
    /\ mined_at \in Nat /\ asked_at \in Nat /\ eval_at \in Nat /\ back_at \in Nat

(***************************************************************************)
(* ReceiptTimeout is honest: the last answer came at or after the          *)
(* deadline, to a question the node was asked before it had the receipt.   *)
(* A receipt that exists before the deadline is missed only if that very   *)
(* question was under way across the deadline.                             *)
(***************************************************************************)
TimeoutIsHonest ==
    result.kind = "ReceiptTimeout" =>
        /\ deadline <= back_at
        /\ mined # "no" => eval_at <= mined_at
        /\ mined # "no" /\ mined_at < deadline => asked_at < deadline

(***************************************************************************)
(* wait_for_receipt never sleeps over a receipt the node had shown it, and *)
(* asks again within the largest backoff: a receipt is asked for at most   *)
(* MaxBackoff (and the timer's delay) after it exists and the call that    *)
(* may have just missed it is back.                                        *)
(***************************************************************************)
PromptPolls ==
    /\ pc \in {"asleep", "asked"} /\ mined # "no" => eval_at <= mined_at
    /\ pc = "asleep" => now <= back_at + MaxBackoff + Overshoot
    /\ pc \in {"asked", "replied"} => asked_at <= back_at + MaxBackoff + Overshoot

(***************************************************************************)
(* The sleep is cut at the deadline: no poll starts later than that (and   *)
(* the timer's delay), and at most one at or after it, since every earlier *)
(* poll was back before.                                                   *)
(***************************************************************************)
PollsStopAtDeadline ==
    pc \in {"asleep", "asked", "replied"} =>
        /\ back_at < deadline
        /\ asked_at <= deadline + Overshoot
        /\ pc = "asleep" => now <= deadline + Overshoot

\* The answer tells what the revert data says: its error, reason and number.
Tells(reason, data) ==
    /\ data # Succeeds
    /\ data.selector \in Selectors /\ data.decodes
    /\ reason.variant = data.selector
    /\ reason.reason = data.reason
    /\ \/ reason.number = data.number
       \/ data.number > U64Max /\ reason.number = U64Max

(***************************************************************************)
(* The replay is honest as far as it can be.  HandleOpsReverted is         *)
(* answered only for a transaction that reverted; the reason is the one it *)
(* reverted with, unless later blocks changed what the call does, and then *)
(* it is what the call did at the latest block; it never comes from data   *)
(* that does not decode.  Of a replay the node answered, Unknown means     *)
(* that the call no longer reverted, or with data that says nothing.       *)
(***************************************************************************)
RevertReasonIsReal ==
    result.kind = "HandleOpsReverted" =>
        /\ mined = "reverted"
        /\ \/ result.reason = Unknown
           \/ Tells(result.reason, mined_revert)
           \/ moved /\ Tells(result.reason, latest)
        /\ replayed /\ result.reason = Unknown =>
              latest = Succeeds \/ latest.selector \notin Selectors \/ ~latest.decodes

\* The wait ends, whatever the chain does, if calls return and time passes.
WaitEnds == <>(pc = "done")

-----------------------------------------------------------------------------
\* Statements of comments that the code does not meet.

\* RECEIPT_TIMEOUT: "Upper bound on the receipt wait".
WaitBounded == pc \in {"asked", "replied", "asleep"} => now <= deadline + Overshoot

\* errors.rs: -32503 is "UserOperation out of valid time range".
ExpiryHasItsCode ==
    result.kind = "HandleOpsReverted" /\ result.reason.reason = "AA22" =>
        classify_revert(result.reason) = classify("OutOfTimeRange")
=============================================================================
