----------------------------- MODULE ReceiptProofs -----------------------------
(***************************************************************************)
(* Proofs about `wait_for_receipt` for every backoff, timeout, timer delay *)
(* and clock bound, and about the replay for every revert data.  RInv      *)
(* orders the times of the last poll and the deadline; RevertInv follows   *)
(* what the call of handleOps does from its block to the replay.           *)
(***************************************************************************)
EXTENDS Receipt, TLAPS

Polling == {"asked", "replied", "asleep"}

\* What has happened lies in the past.
PastInv ==
    /\ deadline = Timeout
    /\ asked_at <= now /\ eval_at <= now /\ back_at <= now
    /\ mined # "no" => mined_at <= now
    /\ pc # "done" => result.kind = "none"

\* The loop goes round only before the deadline, and a sleep ends by then.
LoopInv ==
    /\ pc \in Polling => back_at < deadline
    /\ pc = "asleep" =>
          /\ wake_at <= back_at + MaxBackoff
          /\ wake_at <= deadline
          /\ now <= wake_at + Overshoot
    /\ pc \in {"asked", "replied"} => asked_at <= back_at + MaxBackoff + Overshoot
    /\ pc \in Polling => asked_at <= deadline + Overshoot

\* A poll that saw nothing was evaluated before the transaction was mined.
MissInv ==
    /\ pc = "replied" => asked_at <= eval_at
    /\ pc = "replied" => (seen = "no" \/ seen = mined)
    /\ pc = "replied" /\ seen = "no" /\ mined # "no" => eval_at <= mined_at
    /\ pc \in {"asleep", "asked"} /\ mined # "no" => eval_at <= mined_at

RInv == ReceiptTypeOK /\ PastInv /\ LoopInv /\ MissInv /\ TimeoutIsHonest

-----------------------------------------------------------------------------

LEMMA RInvInit == ReceiptInit => RInv
<1> SUFFICES ASSUME ReceiptInit PROVE RInv
  OBVIOUS
<1>1. moved \in BOOLEAN /\ replayed \in BOOLEAN
  BY Zenon DEF ReceiptInit
<1> QED
  BY <1>1, ReceiptAssumption DEF ReceiptInit, RInv, ReceiptTypeOK, PastInv, LoopInv, MissInv,
     TimeoutIsHonest, Polling

\* A poll without a receipt before the deadline: the next sleep is cut there.
LEMMA NoReceiptYetStep ==
  ASSUME RInv, NoReceiptYet
  PROVE  RInv'
<1> USE ReceiptAssumption
<1> DEFINE sleep == min(backoff, deadline - now)
<1>1. /\ sleep \in Nat /\ sleep <= MaxBackoff /\ now + sleep <= deadline
      /\ min(backoff * 2, MaxBackoff) \in InitialBackoff .. MaxBackoff
  BY DEF RInv, ReceiptTypeOK, NoReceiptYet, min
<1>2. wake_at' = now + sleep /\ backoff' = min(backoff * 2, MaxBackoff)
  BY DEF NoReceiptYet
<1> HIDE DEF sleep
<1>3. ReceiptTypeOK'
  BY <1>1, <1>2 DEF RInv, ReceiptTypeOK, NoReceiptYet, chain
<1>4. PastInv' /\ LoopInv' /\ MissInv'
  BY <1>1, <1>2 DEF RInv, ReceiptTypeOK, PastInv, LoopInv, MissInv, Polling, NoReceiptYet,
     chain
<1>5. TimeoutIsHonest'
  BY DEF RInv, PastInv, TimeoutIsHonest, NoReceiptYet, chain
<1> QED
  BY <1>3, <1>4, <1>5 DEF RInv

\* The answers that end the wait.
LEMMA EndStep ==
  ASSUME RInv, ReceiptReturned \/ TimedOut \/ PollFails \/ Replay \/ ReplayFails
  PROVE  RInv'
<1> USE ReceiptAssumption DEF RInv, ReceiptTypeOK, Done, wait, chain, times
<1>1. ReceiptTypeOK'
  BY DEF ReceiptReturned, TimedOut, PollFails, Replay, ReplayFails
<1>2. PastInv' /\ LoopInv' /\ MissInv'
  BY DEF PastInv, LoopInv, MissInv, Polling, ReceiptReturned, TimedOut, PollFails, Replay, ReplayFails
<1>3. CASE TimedOut
  <2>1. TimeoutIsHonest'
    BY <1>3 DEF TimedOut, TimeoutIsHonest, PastInv, MissInv
  <2> QED
    BY <1>1, <1>2, <2>1
<1>4. CASE ReceiptReturned \/ PollFails \/ Replay \/ ReplayFails
  <2>1. result'.kind # "ReceiptTimeout"
    BY <1>4 DEF ReceiptReturned, PollFails, Replay, ReplayFails, PastInv
  <2> QED
    BY <1>1, <1>2, <2>1 DEF TimeoutIsHonest
<1> QED
  BY <1>3, <1>4

\* Polls, the timer, the clock and the node.
LEMMA OtherStep ==
  ASSUME RInv, PollEvaluated \/ Wake \/ Tick \/ MineTx \/ NodeMoves \/ UNCHANGED rc_vars
  PROVE  RInv'
<1> USE ReceiptAssumption DEF RInv, ReceiptTypeOK, wait, chain, times, rc_vars
<1>1. ReceiptTypeOK'
  <2>1. CASE NodeMoves
    <3>1. moved' \in BOOLEAN /\ replayed' \in BOOLEAN
      BY <2>1, Zenon DEF NodeMoves
    <3> QED
      BY <2>1, <3>1 DEF NodeMoves
  <2>2. CASE PollEvaluated \/ Wake \/ Tick \/ MineTx \/ UNCHANGED rc_vars
    BY <2>2 DEF PollEvaluated, Wake, Tick, MineTx
  <2> QED
    BY <2>1, <2>2
<1>2. PastInv'
  BY DEF PastInv, PollEvaluated, Wake, Tick, MineTx, NodeMoves
<1>3. LoopInv'
  BY DEF PastInv, LoopInv, Polling, PollEvaluated, Wake, Tick, MineTx, NodeMoves
<1>4. MissInv'
  BY DEF PastInv, MissInv, PollEvaluated, Wake, Tick, MineTx, NodeMoves
<1>5. TimeoutIsHonest'
  BY DEF PastInv, TimeoutIsHonest, PollEvaluated, Wake, Tick, MineTx, NodeMoves
<1> QED
  BY <1>1, <1>2, <1>3, <1>4, <1>5

LEMMA NextRInv == RInv /\ [ReceiptNext]_rc_vars => RInv'
  BY NoReceiptYetStep, EndStep, OtherStep DEF ReceiptNext, Ended

LEMMA RInvHolds == ReceiptSpec => []RInv
  BY RInvInit, NextRInv, PTL DEF ReceiptSpec

-----------------------------------------------------------------------------

\* The wait keeps its types; the backoff stays between its first value and its limit.
THEOREM ReceiptTypes == ReceiptSpec => []ReceiptTypeOK
<1>1. RInv => ReceiptTypeOK
  BY DEF RInv
<1> QED
  BY <1>1, RInvHolds, PTL

\* wait_for_receipt gives up only at the deadline and on a poll that missed the receipt.
THEOREM TimeoutIsHonestHolds == ReceiptSpec => []TimeoutIsHonest
<1>1. RInv => TimeoutIsHonest
  BY DEF RInv
<1> QED
  BY <1>1, RInvHolds, PTL

\* wait_for_receipt asks again within the largest backoff after an answer.
THEOREM PromptPollsHolds == ReceiptSpec => []PromptPolls
<1>1. RInv => PromptPolls
  BY ReceiptAssumption DEF RInv, ReceiptTypeOK, LoopInv, MissInv, PromptPolls
<1> QED
  BY <1>1, RInvHolds, PTL

\* wait_for_receipt starts no poll after the deadline and the timer's delay.
THEOREM PollsStopAtDeadlineHolds == ReceiptSpec => []PollsStopAtDeadline
<1>1. RInv => PollsStopAtDeadline
  BY ReceiptAssumption DEF RInv, ReceiptTypeOK, LoopInv, Polling, PollsStopAtDeadline
<1> QED
  BY <1>1, RInvHolds, PTL

-----------------------------------------------------------------------------

\* Until it is answered, a reverted transaction has the outcome of its block or moved on.
RevertInv ==
    /\ pc = "replied" /\ seen = "reverted" => mined = "reverted"
    /\ pc = "replay" => mined = "reverted"
    /\ pc # "done" => ~replayed
    /\ mined = "reverted" =>
          /\ latest \in RevertData \cup {Succeeds}
          /\ moved \/ latest \in {mined_revert, Succeeds}

\* decode_handle_ops_revert tells what the data says, or Unknown where it says nothing.
LEMMA DecodeTells ==
  ASSUME NEW d \in RevertData
  PROVE  LET reason == decode_handle_ops_revert(d) IN
         /\ reason = Unknown \/ Tells(reason, d)
         /\ reason = Unknown => d.selector \notin Selectors \/ ~d.decodes
<1>1. d.number \in Nat /\ U64Max \in Nat /\ d # Succeeds
  <2>1. d \in [selector : Selectors \cup {"short", "other"}, decodes : BOOLEAN,
               number : Nat, reason : Reasons]
    BY ReceiptAssumption
  <2>2. d.selector # "none" /\ d.number \in Nat
    BY <2>1 DEF Selectors
  <2> QED
    BY <2>2, U64Assumption DEF Succeeds
<1>2. CASE d.selector \in Selectors /\ d.decodes
  <2> DEFINE reason == decode_handle_ops_revert(d)
  <2>1. /\ reason.variant = d.selector /\ reason.reason = d.reason
        /\ reason.number = clamp_u64(d.number)
    BY <1>2 DEF decode_handle_ops_revert
  <2>2. reason # Unknown
    BY <1>2, <2>1 DEF Unknown, Selectors
  <2>3. \/ reason.number = d.number
        \/ d.number > U64Max /\ reason.number = U64Max
    BY <1>1, <2>1 DEF clamp_u64
  <2> QED
    BY <1>1, <1>2, <2>1, <2>2, <2>3 DEF Tells
<1>3. CASE ~(d.selector \in Selectors /\ d.decodes)
  BY <1>3 DEF decode_handle_ops_revert
<1> QED
  BY <1>2, <1>3

LEMMA NextRevertInv ==
  RInv /\ RevertInv /\ [ReceiptNext]_rc_vars => RevertInv'
<1> SUFFICES ASSUME RInv, RevertInv, [ReceiptNext]_rc_vars PROVE RevertInv'
  OBVIOUS
<1> USE DEF RInv, ReceiptTypeOK, RevertInv, wait, chain, times, rc_vars, Done
<1>1. CASE PollEvaluated \/ ReceiptReturned \/ NoReceiptYet \/ TimedOut \/ PollFails
  BY <1>1 DEF PollEvaluated, ReceiptReturned, NoReceiptYet, TimedOut, PollFails
<1>2. CASE Wake \/ Replay \/ ReplayFails \/ Tick \/ UNCHANGED rc_vars
  BY <1>2 DEF Wake, Replay, ReplayFails, Tick
<1>3. CASE MineTx \/ NodeMoves
  BY <1>3 DEF MineTx, NodeMoves
<1> QED
  BY <1>1, <1>2, <1>3 DEF ReceiptNext, Ended

\* Only the replay answers HandleOpsReverted; nothing it rests on changes afterwards.
LEMMA NextRevertReason ==
  RInv /\ RevertInv /\ RevertReasonIsReal /\ [ReceiptNext]_rc_vars => RevertReasonIsReal'
<1> SUFFICES ASSUME RInv, RevertInv, RevertReasonIsReal, [ReceiptNext]_rc_vars
             PROVE  RevertReasonIsReal'
  OBVIOUS
<1>1. CASE Replay
  <2>1. mined' = "reverted" /\ UNCHANGED <<mined_revert, latest, moved>>
    BY <1>1 DEF Replay, RevertInv, chain
  <2>2. CASE latest = Succeeds
    <3>1. result'.reason = Unknown
      BY <1>1, <2>2 DEF Replay, Done
    <3> QED
      BY <2>1, <2>2, <3>1 DEF RevertReasonIsReal
  <2>3. CASE latest # Succeeds
    <3>1. latest \in RevertData /\ (moved \/ latest = mined_revert)
      BY <1>1, <2>3 DEF Replay, RevertInv
    <3>2. result'.reason = decode_handle_ops_revert(latest)
      BY <1>1, <2>3 DEF Replay, Done
    <3>3. /\ result'.reason = Unknown \/ Tells(result'.reason, latest)
          /\ result'.reason = Unknown => latest.selector \notin Selectors \/ ~latest.decodes
      BY <3>1, <3>2, DecodeTells
    <3> QED
      BY <2>1, <3>1, <3>3 DEF RevertReasonIsReal, Tells
  <2> QED
    BY <2>2, <2>3
<1>2. CASE ReplayFails
  <2>1. mined' = "reverted" /\ replayed' = replayed /\ result'.reason = Unknown
    BY <1>2 DEF ReplayFails, RevertInv, chain, Done
  <2>2. ~replayed
    BY <1>2 DEF RevertInv, ReplayFails
  <2> QED
    BY <2>1, <2>2 DEF RevertReasonIsReal
<1>3. CASE ReceiptReturned \/ TimedOut \/ PollFails
  <2>1. result'.kind # "HandleOpsReverted"
    BY <1>3 DEF ReceiptReturned, TimedOut, PollFails, Done, RInv, PastInv
  <2> QED
    BY <2>1 DEF RevertReasonIsReal
<1>4. CASE PollEvaluated \/ NoReceiptYet \/ Wake \/ Tick \/ UNCHANGED rc_vars
  <2>1. UNCHANGED <<result, mined, mined_revert, latest, moved, replayed>>
    BY <1>4 DEF PollEvaluated, NoReceiptYet, Wake, Tick, rc_vars, chain
  <2> QED
    BY <2>1 DEF RevertReasonIsReal, Tells
<1>5. CASE MineTx \/ NodeMoves
  <2>1. result' = result
    BY <1>5 DEF MineTx, NodeMoves
  <2>2. result.kind # "HandleOpsReverted"
    BY <1>5 DEF MineTx, NodeMoves, RInv, PastInv, RevertReasonIsReal
  <2> QED
    BY <2>1, <2>2 DEF RevertReasonIsReal
<1> QED
  BY <1>1, <1>2, <1>3, <1>4, <1>5 DEF ReceiptNext, Ended

(***************************************************************************)
(* A reverted handleOps is answered with the reason it reverted with, or,  *)
(* if the chain moved on, with the one of the block it was replayed on,    *)
(* for every revert data.                                                  *)
(***************************************************************************)
THEOREM RevertReasonIsRealHolds == ReceiptSpec => []RevertReasonIsReal
<1>1. ReceiptInit => RevertInv /\ RevertReasonIsReal
  BY DEF ReceiptInit, RevertInv, RevertReasonIsReal
<1> QED
  BY <1>1, NextRevertInv, NextRevertReason, RInvHolds, PTL DEF ReceiptSpec
=============================================================================
