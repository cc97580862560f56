--------------------------- MODULE RefinementProofs ---------------------------
(***************************************************************************)
(* Proof that Bundler implements BundlerAbs, for every number of requests, *)
(* operations, fees and nonces.  A step that ends a request is a Reply,    *)
(* signing is a Broadcast or a HandOver, mining is a Settle, and all the   *)
(* rest (lock, nonce, network, pool) stutters.                             *)
(***************************************************************************)
EXTENDS BundlerProofs

\* The refinement mapping, named.
StageMap == [r \in Requests |-> Stage(r)]

EnvelopeMap == [r \in Requests |-> IF r \in signed THEN {TxOf(r)} ELSE {}]

\* The pool holds nothing but envelopes that were signed for some request.
PoolSigned == \A t \in pool : \E r \in signed : t = TxOf(r)

-----------------------------------------------------------------------------

\* Nothing of an envelope changes once it is signed.
LEMMA EnvelopeStable ==
  ASSUME IInv, [Next]_vars
  PROVE  /\ signed \subseteq signed'
         /\ \A r \in signed : TxOf(r)' = TxOf(r)
<1> USE DEF TxOf, request, lock, net, token, Goto, Answer, Polled
<1>1. \A r \in signed : pc[r] \in {"send", "receipt", "replay", "done"}
  BY DEF IInv, TypeOK, FlightInv
<1>2. ASSUME NEW r \in Requests, Arrive(r) \/ RuntimeStep(r)
      PROVE  signed \subseteq signed' /\ \A s \in signed : TxOf(s)' = TxOf(s)
  BY <1>1, <1>2 DEF IInv, TypeOK, RuntimeStep, Arrive, LockGranted, SignAndSend,
     SignOnly, FeeOverflows, SignFails, DropCancelled
<1>3. ASSUME NEW r \in Requests, ProviderReturns(r)
      PROVE  signed \subseteq signed' /\ \A s \in signed : TxOf(s)' = TxOf(s)
  BY <1>1, <1>3 DEF IInv, TypeOK, ProviderReturns, BuildPasses, BuildFails,
     ReadPendingNonce, NonceReadFails, SendAccepted, SendFails, ReceiptFound,
     ReceiptTimeout, ReceiptPollFails, Replay
<1>4. ASSUME NEW r \in Requests, NetworkStep(r)
      PROVE  signed \subseteq signed' /\ \A s \in signed : TxOf(s)' = TxOf(s)
  BY <1>4 DEF NetworkStep, NodeAccepts, NodeRejects, SendLost, Relay, Disconnect
<1>5. CASE Cancel \/ NodeStep \/ Drained \/ UNCHANGED vars
  BY <1>5 DEF Cancel, NodeStep, Drained, vars
<1> QED
  BY <1>2, <1>3, <1>4, <1>5 DEF Next

\* Only sends that are on the wire and relayed envelopes enter the pool.
LEMMA PoolSignedStep ==
  ASSUME IInv, PoolSigned, [Next]_vars
  PROVE  PoolSigned'
<1>1. pool' \subseteq pool \/ \E r \in signed : pool' = pool \cup {TxOf(r)}
  <2>1. ASSUME NEW r \in Requests, NodeAccepts(r) \/ Relay(r)
        PROVE  \E s \in signed : pool' = pool \cup {TxOf(s)}
    <3>1. r \in signed
      BY <2>1 DEF IInv, FlightInv, NodeAccepts, Relay
    <3> QED
      BY <2>1, <3>1 DEF NodeAccepts, Relay, Accept
  <2>2. ASSUME NEW r \in Requests, RuntimeStep(r) \/ Arrive(r) \/ ProviderReturns(r)
        PROVE  pool' = pool
    BY <2>2 DEF RuntimeStep, Arrive, LockGranted, SignAndSend, SignOnly,
       FeeOverflows, SignFails, DropCancelled, ProviderReturns, BuildPasses, BuildFails, ReadPendingNonce,
       NonceReadFails, SendAccepted, SendFails, ReceiptFound, ReceiptTimeout,
       ReceiptPollFails, Replay, el_vars
  <2>3. ASSUME NEW r \in Requests, NodeRejects(r) \/ SendLost(r) \/ Disconnect(r)
        PROVE  pool' = pool
    BY <2>3 DEF NodeRejects, SendLost, Disconnect, el_vars
  <2>4. CASE NodeStep
    BY <2>4 DEF NodeStep, Mine, Release
  <2>5. CASE Cancel \/ Drained \/ UNCHANGED vars
    BY <2>5 DEF Cancel, Drained, vars, el_vars
  <2> QED
    BY <2>1, <2>2, <2>3, <2>4, <2>5 DEF Next, NetworkStep
<1> QED
  BY <1>1, EnvelopeStable DEF PoolSigned

\* The invariant under which the steps are simulated.
LEMMA RefinementInvariant == Spec => [](IInv /\ PoolSigned)
<1>1. Init => PoolSigned
  BY DEF Init, ELInit, PoolSigned
<1>2. IInv /\ PoolSigned /\ [Next]_vars => PoolSigned'
  BY PoolSignedStep
<1> QED
  BY <1>1, <1>2, InitIInv, NextIInv, PTL DEF Spec

-----------------------------------------------------------------------------

\* A step that leaves all that the abstract specification sees alone.
LEMMA Stutters ==
  ASSUME StageMap' = StageMap, EnvelopeMap' = EnvelopeMap,
         UNCHANGED <<submit, outcome, receipts, account_nonce>>
  PROVE  UNCHANGED Abs!abs_vars
BY DEF Abs!abs_vars, StageMap, EnvelopeMap

\* An answer that is true is a Reply.
LEMMA LeaveIsReply ==
  ASSUME IInv, NEW r \in Requests, NEW res \in Outcomes \ {"none"},
         pc[r] \notin {"idle", "done"},
         Answer(r, res),
         UNCHANGED <<el_vars, request, fee, nonce, signed, next_ticket,
                     token, net>>,
         res = "Ok" => r \in signed /\ submit[r] /\ Mined(TxOf(r), TRUE),
         res = "HandleOpsReverted" => r \in signed /\ Mined(TxOf(r), FALSE),
         res = "ReceiptTimeout" => r \in signed /\ submit[r],
         res \in {"Rejected", "SignerError"} => r \notin signed
  PROVE  Abs!Reply(r)
<1>1. StageMap[r] = "open"
  BY DEF StageMap, Stage
<1>2. StageMap' = [StageMap EXCEPT ![r] = "closed"]
  BY DEF IInv, TypeOK, StageMap, Stage, Answer
<1>3. EnvelopeMap' = EnvelopeMap
  BY DEF EnvelopeMap, TxOf, request
<1>4. outcome' = [outcome EXCEPT ![r] = res]
  BY DEF Answer
<1>5. Abs!Truthful(r, res)
  BY DEF Abs!Truthful, Abs!Settled, Mined
<1> QED
  BY <1>1, <1>2, <1>3, <1>4, <1>5
     DEF Abs!Reply, Abs!Close, StageMap, EnvelopeMap, el_vars, request

\* The steps of a task that end it without a mined transaction.
LEMMA FailureIsReply ==
  ASSUME IInv, NEW r \in Requests,
         \/ BuildFails(r) \/ NonceReadFails(r) \/ FeeOverflows(r)
         \/ SignFails(r) \/ SendFails(r)
         \/ ReceiptPollFails(r) \/ DropCancelled(r) \/ Disconnect(r)
  PROVE  Abs!Reply(r)
<1> USE DEF Polled
<1>1. pc[r] \in {"build", "sign"} => r \notin signed
  BY DEF IInv, FlightInv
<1>2. CASE BuildFails(r)
  BY <1>1, <1>2, LeaveIsReply DEF BuildFails, Outcomes
<1>3. CASE FeeOverflows(r)
  BY <1>1, <1>3, LeaveIsReply DEF FeeOverflows, Outcomes
<1>4. CASE SignFails(r)
  BY <1>1, <1>4, LeaveIsReply DEF SignFails, Outcomes
<1>5. CASE NonceReadFails(r)
  BY <1>5, LeaveIsReply DEF NonceReadFails, Outcomes
<1>6. CASE SendFails(r)
  BY <1>6, LeaveIsReply DEF SendFails, Outcomes
<1>7. CASE ReceiptPollFails(r)
  BY <1>7, LeaveIsReply DEF ReceiptPollFails, Outcomes
<1>8. CASE DropCancelled(r)
  BY <1>8, LeaveIsReply DEF DropCancelled, Outcomes
<1>9. CASE Disconnect(r)
  BY <1>9, LeaveIsReply DEF Disconnect, Outcomes
<1> QED
  BY <1>2, <1>3, <1>4, <1>5, <1>6, <1>7, <1>8, <1>9

\* The receipt: found, found with a revert (no answer yet), absent; the replay.
LEMMA ReceiptIsReply ==
  ASSUME IInv, NEW r \in Requests,
         ReceiptFound(r) \/ ReceiptTimeout(r) \/ Replay(r)
  PROVE  Abs!Reply(r) \/ UNCHANGED Abs!abs_vars
<1> USE DEF Polled
<1>1. pc[r] \in {"receipt", "replay"} => r \in signed /\ submit[r]
  BY DEF IInv, FlightInv
<1>2. CASE ReceiptFound(r) /\ Answer(r, "Ok") /\ Mined(TxOf(r), TRUE)
  BY <1>1, <1>2, LeaveIsReply DEF ReceiptFound, Outcomes
<1>3. CASE ReceiptFound(r) /\ Goto(r, "replay") /\ UNCHANGED <<outcome, ticket>>
  <2>1. StageMap' = StageMap
    BY <1>3 DEF ReceiptFound, IInv, TypeOK, StageMap, Stage, Goto
  <2>2. EnvelopeMap' = EnvelopeMap
    BY <1>3 DEF ReceiptFound, EnvelopeMap, TxOf, request
  <2> QED
    BY <1>3, <2>1, <2>2, Stutters DEF ReceiptFound, el_vars, request
<1>4. CASE ReceiptTimeout(r)
  BY <1>1, <1>4, LeaveIsReply DEF ReceiptTimeout, Outcomes
<1>5. CASE Replay(r)
  <2>1. Mined(TxOf(r), FALSE)
    BY <1>5 DEF IInv, ReplayInv, Replay
  <2> QED
    BY <1>1, <1>5, <2>1, LeaveIsReply DEF Replay, Outcomes
<1> QED
  BY <1>2, <1>3, <1>4, <1>5 DEF ReceiptFound

\* A call arrives.
LEMMA ArriveIsOpen ==
  ASSUME IInv, NEW r \in Requests, Arrive(r)
  PROVE  Abs!Open(r)
<1>1. r \notin signed
  BY DEF IInv, FlightInv, Arrive
<1>2. StageMap[r] = "idle" /\ StageMap' = [StageMap EXCEPT ![r] = "open"]
  BY DEF IInv, TypeOK, StageMap, Stage, Arrive, Goto
<1>3. EnvelopeMap' = EnvelopeMap
  BY <1>1 DEF IInv, TypeOK, EnvelopeMap, TxOf, Arrive
<1> QED
  BY <1>2, <1>3 DEF Abs!Open, StageMap, EnvelopeMap, Arrive, el_vars

\* The envelope a request signs is one of the abstract envelopes.
LEMMA SignedEnvelope ==
  ASSUME IInv, NEW r \in Requests, r \notin signed, signed' = signed \cup {r},
         UNCHANGED <<request, fee, nonce>>
  PROVE  /\ EnvelopeMap[r] = {}
         /\ TxOf(r) \in Tx
         /\ EnvelopeMap' = [EnvelopeMap EXCEPT ![r] = {TxOf(r)}]
BY DEF IInv, TypeOK, EnvelopeMap, TxOf, Tx, request

\* Signing is a Broadcast for a submit, a HandOver otherwise.
LEMMA SignIsSign ==
  ASSUME IInv, NEW r \in Requests
  PROVE  /\ SignAndSend(r) => Abs!Broadcast(r)
         /\ SignOnly(r) => Abs!HandOver(r)
<1> USE DEF Polled
<1>1. ASSUME SignAndSend(r) PROVE Abs!Broadcast(r)
  <2>1. r \notin signed
    BY <1>1 DEF IInv, FlightInv, SignAndSend
  <2>2. /\ EnvelopeMap[r] = {} /\ TxOf(r) \in Tx
        /\ EnvelopeMap' = [EnvelopeMap EXCEPT ![r] = {TxOf(r)}]
    BY <1>1, <2>1, SignedEnvelope DEF SignAndSend
  <2>3. StageMap[r] = "open" /\ StageMap' = StageMap
    BY <1>1 DEF IInv, TypeOK, StageMap, Stage, SignAndSend, Goto
  <2> QED
    BY <1>1, <2>2, <2>3
       DEF Abs!Broadcast, Abs!Sign, StageMap, EnvelopeMap, SignAndSend, el_vars, request
<1>2. ASSUME SignOnly(r) PROVE Abs!HandOver(r)
  <2>1. r \notin signed
    BY <1>2 DEF IInv, FlightInv, SignOnly
  <2>2. /\ EnvelopeMap[r] = {} /\ TxOf(r) \in Tx
        /\ EnvelopeMap' = [EnvelopeMap EXCEPT ![r] = {TxOf(r)}]
    BY <1>2, <2>1, SignedEnvelope DEF SignOnly
  <2>3. StageMap[r] = "open" /\ StageMap' = [StageMap EXCEPT ![r] = "closed"]
    BY <1>2 DEF IInv, TypeOK, StageMap, Stage, SignOnly, Answer
  <2> QED
    BY <1>2, <2>2, <2>3
       DEF Abs!HandOver, Abs!Sign, Abs!Close, StageMap, EnvelopeMap, SignOnly, Answer,
           el_vars, request
<1> QED
  BY <1>1, <1>2

\* Steps between the arrival and the answer that the client does not see.
LEMMA InnerStutters ==
  ASSUME IInv, NEW r \in Requests,
         \/ BuildPasses(r) \/ LockGranted(r) \/ ReadPendingNonce(r) \/ SendAccepted(r)
         \/ NodeAccepts(r) \/ NodeRejects(r) \/ SendLost(r) \/ Relay(r)
  PROVE  UNCHANGED Abs!abs_vars
<1> USE DEF Polled, Goto, request, lock, net, token, el_vars
<1>1. pc[r] \in {"build", "nonce"} => r \notin signed
  BY DEF IInv, FlightInv
<1>2. UNCHANGED <<submit, outcome, receipts, account_nonce, signed>>
  BY DEF BuildPasses, LockGranted, ReadPendingNonce, SendAccepted, NodeAccepts,
     NodeRejects, SendLost, Relay, Accept
<1>3. StageMap' = StageMap
  BY DEF IInv, TypeOK, StageMap, Stage, BuildPasses, LockGranted, ReadPendingNonce,
     SendAccepted, NodeAccepts, NodeRejects, SendLost, Relay
<1>4. \A s \in signed : TxOf(s)' = TxOf(s)
  BY <1>1 DEF IInv, TypeOK, TxOf, BuildPasses, LockGranted, ReadPendingNonce,
     SendAccepted, NodeAccepts, NodeRejects, SendLost, Relay
<1>5. EnvelopeMap' = EnvelopeMap
  BY <1>2, <1>4 DEF EnvelopeMap
<1> QED
  BY <1>2, <1>3, <1>5, Stutters

\* A block is a Settle of a signed envelope; an eviction is not seen.
LEMMA NodeIsSettle ==
  ASSUME IInv, PoolSigned, NodeStep
  PROVE  Abs!Settle \/ UNCHANGED Abs!abs_vars
<1>1. /\ StageMap' = StageMap /\ EnvelopeMap' = EnvelopeMap
      /\ UNCHANGED <<submit, outcome>>
  BY DEF NodeStep, StageMap, Stage, EnvelopeMap, TxOf, request
<1>2. CASE Mine
  <2>1. PICK t \in pool, ok \in BOOLEAN :
          /\ t.nonce = account_nonce
          /\ ok => t.ops \cap Executed = {}
          /\ account_nonce' = account_nonce + 1
          /\ receipts' = receipts \cup {[tx |-> t, success |-> ok]}
    BY <1>2 DEF Mine
  <2>2. PICK r \in signed : t = TxOf(r)
    BY DEF PoolSigned
  <2>3. r \in Requests /\ t \in EnvelopeMap[r]
    BY <2>2 DEF IInv, TypeOK, EnvelopeMap
  <2>4. Abs!AbsExecuted = Executed
    BY DEF Abs!AbsExecuted, Executed
  <2> QED
    BY <1>1, <2>1, <2>3, <2>4 DEF Abs!Settle, StageMap, EnvelopeMap
<1>3. CASE Release
  BY <1>1, <1>3, Stutters DEF Release
<1> QED
  BY <1>2, <1>3 DEF NodeStep

\* Every step of Bundler is a step of BundlerAbs or a stutter.
LEMMA StepSimulation ==
  ASSUME IInv, PoolSigned, [Next]_vars
  PROVE  [Abs!AbsNext]_(Abs!abs_vars)
<1>1. ASSUME NEW r \in Requests, Arrive(r) PROVE Abs!AbsNext
  BY <1>1, ArriveIsOpen DEF Abs!AbsNext
<1>2. ASSUME NEW r \in Requests, RuntimeStep(r)
      PROVE  Abs!AbsNext \/ UNCHANGED Abs!abs_vars
  BY <1>2, SignIsSign, FailureIsReply, InnerStutters DEF RuntimeStep, Abs!AbsNext
<1>3. ASSUME NEW r \in Requests, ProviderReturns(r)
      PROVE  Abs!AbsNext \/ UNCHANGED Abs!abs_vars
  BY <1>3, ReceiptIsReply, FailureIsReply, InnerStutters DEF ProviderReturns, Abs!AbsNext
<1>4. ASSUME NEW r \in Requests, NetworkStep(r)
      PROVE  Abs!AbsNext \/ UNCHANGED Abs!abs_vars
  BY <1>4, FailureIsReply, InnerStutters DEF NetworkStep, Abs!AbsNext
<1>5. CASE NodeStep
  BY <1>5, NodeIsSettle DEF Abs!AbsNext
<1>6. CASE Cancel \/ Drained \/ UNCHANGED vars
  <2>1. UNCHANGED <<submit, outcome, receipts, account_nonce, signed, pc, fee, nonce, batch>>
    BY <1>6 DEF Cancel, Drained, vars, el_vars, request
  <2>2. StageMap' = StageMap /\ EnvelopeMap' = EnvelopeMap
    BY <2>1 DEF StageMap, Stage, EnvelopeMap, TxOf
  <2> QED
    BY <2>1, <2>2, Stutters
<1> QED
  BY <1>1, <1>2, <1>3, <1>4, <1>5, <1>6 DEF Next

\* The initial state is an initial state of BundlerAbs.
LEMMA InitSimulation == Init => Abs!AbsInit
BY DEF Init, ELInit, Abs!AbsInit, Stage

(***************************************************************************)
(* build_signed_user_ops_tx keeps the promise of BundlerAbs, for every     *)
(* number of requests, operations, fees and nonces.                        *)
(***************************************************************************)
THEOREM ImplementsHolds == Spec => Implements
<1>1. IInv /\ PoolSigned /\ [Next]_vars => [Abs!AbsNext]_(Abs!abs_vars)
  BY StepSimulation
<1> QED
  BY <1>1, InitSimulation, RefinementInvariant, PTL DEF Spec, Implements, Abs!AbsSpec
=============================================================================
