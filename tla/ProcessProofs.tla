----------------------------- MODULE ProcessProofs -----------------------------
(***************************************************************************)
(* Proofs about the whole process, for every number of requests, restarts, *)
(* chains and entry points.  Every step of Process is a step of Bundler, a *)
(* stutter or a Restart, so the invariant and the simulation of the        *)
(* bundler carry over; what a configuration is worth is a second           *)
(* invariant (TargetInv).                                                  *)
(***************************************************************************)
EXTENDS Process, RefinementProofs

\* A restart finds no task, so a new lock and a new token disturb nobody.
LEMMA RestartIInv ==
  ASSUME IInv, Restart
  PROVE  IInv'
<1> USE DEF el_vars, net, request, Restart, NewBundler
<1>1. \A r \in Requests : ticket[r] = 0 /\ pc[r] \in {"idle", "done"}
  BY DEF IInv, TypeOK, LockInv, InFlight
<1>2. TypeOK'
  <2>1. ELTypeOK' /\ (next_ticket \in Nat \ {0})'
    BY DEF IInv, TypeOK, ELTypeOK
  <2>2. (cancelled \in BOOLEAN)'
    BY Zenon
  <2>4. (mid_poll \subseteq Requests /\ late \subseteq Requests)'
    OBVIOUS
  <2>3. /\ UNCHANGED <<pc, submit, batch, fee, nonce, signed, outcome, ticket>>
        /\ UNCHANGED <<wire, reply>>
    OBVIOUS
  <2> QED
    BY <2>1, <2>2, <2>3, <2>4 DEF IInv, TypeOK
<1>3. LockInv'
  BY <1>1 DEF IInv, TypeOK, LockInv, Owner
<1>4. FlightInv' /\ TakenInv'
  BY DEF IInv, FlightInv, TakenInv, Free, InPool
<1>5. FreshInv' /\ NoSelfCollision'
  BY DEF IInv, FreshInv, Undecided, Free, InPool, Collided, Outsider, Orphan,
         NoSelfCollision
<1>6. DrawnInv' /\ GapInv'
  BY DEF IInv, DrawnInv, Drew, Orphan, GapInv, NoGapBelow, InPool
<1>7. ReplayInv' /\ AnswersAreTrue'
  BY DEF IInv, ReplayInv, AnswersAreTrue, Mined, TxOf
<1> QED
  BY <1>2, <1>3, <1>4, <1>5, <1>6, <1>7 DEF IInv

\* The process only schedules the bundler, or starts it again.
LEMMA ProcStepIsBundlerStep ==
  ASSUME ProcNext \/ UNCHANGED pvars
  PROVE  [Next]_vars \/ Restart
<1>1. ASSUME NEW r \in Requests, Discover(r) \/ Call(r) \/ TaskPolled(r) \/ TaskReturns(r)
      PROVE  [Next]_vars
  BY <1>1 DEF Discover, Call, TaskPolled, TaskReturns, Next
<1>2. CASE Outside \/ CtrlC
  BY <1>2 DEF Outside, CtrlC, Next
<1>3. CASE \/ ProbeChainId \/ ProbeCode \/ ProbeBalance \/ Bind \/ StartupFails \/ AwaitCtrlC
           \/ StopServer \/ Exit \/ Kill \/ Off \/ UNCHANGED pvars
  <2>1. UNCHANGED vars
    BY <1>3 DEF ProbeChainId, ProbeCode, ProbeBalance, Bind, StartupFails, AwaitCtrlC,
       StopServer, Exit, Kill, Off, pvars
  <2> QED
    BY <2>1
<1> QED
  BY <1>1, <1>2, <1>3 DEF ProcNext

\* A restart is invisible to the promise, and it empties nobody's envelope.
LEMMA RestartStutters ==
  ASSUME Restart
  PROVE  UNCHANGED Abs!abs_vars /\ (PoolSigned => PoolSigned')
<1>1. /\ UNCHANGED <<pool, signed, nonce, batch, fee>>
      /\ UNCHANGED <<submit, outcome, receipts, account_nonce, pc>>
  BY DEF Restart, el_vars, request
<1>2. StageMap' = StageMap /\ EnvelopeMap' = EnvelopeMap
  BY <1>1 DEF StageMap, Stage, EnvelopeMap, TxOf
<1> QED
  BY <1>1, <1>2, Stutters DEF PoolSigned, TxOf

\* The invariant of the bundler survives crashes and restarts.
LEMMA CrashInvariant == ProcSpec => [](IInv /\ PoolSigned)
<1>1. ProcInit => IInv /\ PoolSigned
  BY InitIInv DEF ProcInit, Init, ELInit, PoolSigned
<1>2. IInv /\ PoolSigned /\ [ProcNext]_pvars => (IInv /\ PoolSigned)'
  BY ProcStepIsBundlerStep, NextIInv, PoolSignedStep, RestartIInv, RestartStutters
<1> QED
  BY <1>1, <1>2, PTL DEF ProcSpec

(***************************************************************************)
(* The lock of a new process does not know the sends of the old one, and   *)
(* still no submit loses its nonce to another that went through.           *)
(***************************************************************************)
THEOREM NoSelfCollisionAcrossCrashes == ProcSpec => []NoSelfCollision
<1>1. IInv => NoSelfCollision
  BY DEF IInv
<1> QED
  BY <1>1, CrashInvariant, PTL

(***************************************************************************)
(* No reservation is kept anywhere, so none is lost in a crash: envelopes  *)
(* of different processes share a nonce only if one of them is an orphan   *)
(* or the node released the nonce.                                         *)
(***************************************************************************)
THEOREM DistinctNoncesAcrossCrashes == ProcSpec => []DistinctNonces
  BY DistinctNoncesFromInv, CrashInvariant, PTL

(***************************************************************************)
(* A process that dies between reading a nonce and sending leaves no gap   *)
(* in the pool: its successor reads the pending nonce anew.                *)
(***************************************************************************)
THEOREM GapOnlyFromReleaseAcrossCrashes == ProcSpec => []GapOnlyFromRelease
  BY GapOnlyFromReleaseFromInv, CrashInvariant, PTL

\* What a client was answered stays true after the process that said it is gone.
THEOREM AnswersAreTrueAcrossCrashes == ProcSpec => []AnswersAreTrue
<1>1. IInv => AnswersAreTrue
  BY DEF IInv
<1> QED
  BY <1>1, CrashInvariant, PTL

(***************************************************************************)
(* A client that repeats an operation after a crash, at the new process,   *)
(* is not told Ok for a second transaction.                                *)
(***************************************************************************)
THEOREM OneOkAcrossCrashes == ProcSpec => []OneOkPerOperation
<1>1. ProcInit => OpsOnce
  BY DEF ProcInit, Init, ELInit, OpsOnce
<1>2. OpsOnce /\ [ProcNext]_pvars => OpsOnce'
  <2>1. OpsOnce /\ Restart => OpsOnce'
    BY DEF Restart, el_vars, OpsOnce
  <2> QED
    BY <2>1, ProcStepIsBundlerStep, OpsOnceStep
<1>3. ProcSpec => []OpsOnce
  BY <1>1, <1>2, PTL DEF ProcSpec
<1> QED
  BY <1>3, OneOkFromInv, CrashInvariant, PTL

(***************************************************************************)
(* Every life of the process ends with at most one late broadcast: the     *)
(* sends a dead process left behind and a new lock change nothing about    *)
(* who may still be past the token.                                        *)
(***************************************************************************)
THEOREM OneLateSendAcrossCrashes == ProcSpec => []OneLateSend
<1>1. ProcInit => LateInv
  BY DEF ProcInit, Init, LateInv, OneLateSend
<1>2. IInv /\ LateInv /\ [ProcNext]_pvars => LateInv'
  <2>1. Restart => LateInv'
    BY DEF Restart, NewBundler, LateInv, OneLateSend
  <2> QED
    BY <2>1, ProcStepIsBundlerStep, LateInvStep
<1>3. LateInv => OneLateSend
  BY DEF LateInv
<1> QED
  BY <1>1, <1>2, <1>3, CrashInvariant, PTL DEF ProcSpec

(***************************************************************************)
(* The promise of build_signed_user_ops_tx holds for a process that        *)
(* crashes, is stopped and is restarted at any time.                       *)
(***************************************************************************)
THEOREM ImplementsAcrossCrashes == ProcSpec => Implements
<1>1. IInv /\ PoolSigned /\ [ProcNext]_pvars => [Abs!AbsNext]_(Abs!abs_vars)
  BY ProcStepIsBundlerStep, StepSimulation, RestartStutters
<1>2. ProcInit => Abs!AbsInit
  BY InitSimulation DEF ProcInit
<1> QED
  BY <1>1, <1>2, CrashInvariant, PTL DEF ProcSpec, Implements, Abs!AbsSpec

-----------------------------------------------------------------------------

\* Types of what Process adds to Bundler.
OwnTypes ==
    /\ config \in Configs
    /\ target \in [Requests -> Configs]
    /\ signed_for \in [Requests -> Configs]
    /\ node \in [chain_id : Chains, deployed : SUBSET EntryPoints]
    /\ main \in Startup \cup {"started", "serving", "cancelled", "stopping", "exited", "down"}
    /\ restarts \in 0 .. MaxRestarts

OnChain == config.chain_id = node.chain_id

HasCode == config.entrypoint \in node.deployed

\* A request whose checks have passed in this process.
Admitted(r) == pc[r] \in {"lock", "nonce", "sign", "send", "receipt", "replay"}

\* The probe vouches for the configuration, the checks for each request.
TargetInv ==
    /\ main \notin {"chain_id", "down"} => OnChain
    /\ main \notin {"chain_id", "code", "down"} => HasCode
    /\ \A r \in Requests : Admitted(r) => target[r] = config /\ OnChain /\ HasCode
    /\ SignedForTarget

PInv == IInv /\ OwnTypes /\ TargetInv

\* What a task can do to the control state and to the signatures.
LEMMA TaskFacts ==
  ASSUME TypeOK, NEW r \in Requests, RuntimeStep(r) \/ ProviderReturns(r)
  PROVE  /\ signed \subseteq signed' /\ signed' \subseteq signed \cup {r}
         /\ signed' # signed => pc[r] = "sign"
         /\ \A s \in Requests \ {r} : pc'[s] = pc[s]
         /\ Admitted(r)' => Admitted(r) \/ pc[r] = "build"
<1> USE DEF TypeOK, Polled, Goto, Answer, lock, net, token, request, el_vars, Admitted
<1>1. CASE RuntimeStep(r)
  BY <1>1 DEF RuntimeStep, LockGranted, SignAndSend, SignOnly, FeeOverflows, SignFails, DropCancelled
<1>2. CASE ProviderReturns(r)
  BY <1>2 DEF ProviderReturns, BuildPasses, BuildFails, ReadPendingNonce, NonceReadFails,
     SendAccepted, SendFails, ReceiptFound, ReceiptTimeout, ReceiptPollFails, Replay
<1> QED
  BY <1>1, <1>2

\* A task that passes the checks was meant for this configuration.
LEMMA TaskTargetStep ==
  ASSUME PInv, NEW r \in Requests, TaskPolled(r) \/ TaskReturns(r)
  PROVE  (OwnTypes /\ TargetInv)'
<1>1. Runs(r) /\ (RuntimeStep(r) \/ ProviderReturns(r))
  BY DEF TaskPolled, TaskReturns
<1>2. OwnTypes'
  BY <1>1 DEF PInv, OwnTypes, Runs
<1>3. /\ UNCHANGED <<main, config, node, target>>
      /\ \A s \in Requests :
            signed_for'[s] = IF s \in signed' \ signed THEN config ELSE signed_for[s]
  BY <1>1 DEF Runs
<1>4. OnChain /\ HasCode
  BY <1>1 DEF PInv, TargetInv, Runs, Up, Accepting
<1>5. Admitted(r)' => target[r] = config
  <2>1. CASE Admitted(r)
    BY <2>1 DEF PInv, TargetInv
  <2>2. CASE pc[r] = "build" /\ Admitted(r)'
    <3>1. /\ target[r].chain_id = config.chain_id
          /\ target[r].entrypoint = config.entrypoint
      BY <1>1, <2>2 DEF Runs, RightChain, RightEntryPoint, Admitted
    <3> QED
      BY <3>1 DEF PInv, OwnTypes, Configs
  <2> QED
    BY <1>1, <2>1, <2>2, TaskFacts DEF PInv, IInv
<1>6. \A s \in Requests : Admitted(s)' => (target[s] = config /\ OnChain /\ HasCode)'
  BY <1>1, <1>3, <1>4, <1>5, TaskFacts DEF PInv, IInv, TargetInv, Admitted, OnChain, HasCode
<1>7. SignedForTarget'
  BY <1>1, <1>3, <1>4, TaskFacts DEF PInv, IInv, TypeOK, TargetInv, SignedForTarget, Admitted,
     OnChain, HasCode
<1> QED
  BY <1>2, <1>3, <1>4, <1>6, <1>7 DEF TargetInv, OnChain, HasCode

\* Arrivals, discovery and the world outside do not touch admitted requests.
LEMMA OutsideTargetStep ==
  ASSUME PInv, Outside \/ CtrlC \/ \E r \in Requests : Discover(r) \/ Call(r)
  PROVE  (OwnTypes /\ TargetInv)'
<1> USE DEF PInv, IInv, TypeOK, rest
<1>1. OwnTypes'
  BY DEF OwnTypes, Outside, CtrlC, Discover, Call
<1>2. UNCHANGED <<config, node, signed_for, signed>>
  BY DEF Outside, CtrlC, Discover, Call, Arrive, Cancel, NodeStep, NetworkStep, NodeAccepts,
     NodeRejects, SendLost, Relay, Disconnect, vars
<1>3. \A s \in Requests : Admitted(s)' => Admitted(s) /\ target'[s] = target[s]
  <2> USE DEF Admitted, Goto, Answer
  <2>1. CASE Outside \/ CtrlC
    BY <2>1 DEF Outside, CtrlC, Cancel, NodeStep, NetworkStep, NodeAccepts, NodeRejects,
       SendLost, Relay, Disconnect
  <2>2. ASSUME NEW r \in Requests, Discover(r) \/ Call(r)
        PROVE  \A s \in Requests : Admitted(s)' => Admitted(s) /\ target'[s] = target[s]
    BY <2>2 DEF OwnTypes, Discover, Call, Arrive, vars
  <2> QED
    BY <2>1, <2>2
<1>4. main' = main \/ (main = "serving" /\ main' = "cancelled")
  BY DEF Outside, CtrlC, Discover, Call
<1>5. \A s \in signed : target'[s] = target[s]
  <2>1. CASE Outside \/ CtrlC
    BY <2>1 DEF Outside, CtrlC
  <2>2. ASSUME NEW r \in Requests, Discover(r) \/ Call(r), r \notin signed
        PROVE  \A s \in signed : target'[s] = target[s]
    BY <2>2 DEF OwnTypes, Discover, Call
  <2> QED
    BY <2>1, <2>2 DEF FlightInv, Discover, Call, Arrive
<1> QED
  BY <1>1, <1>2, <1>3, <1>4, <1>5 DEF TargetInv, SignedForTarget, OnChain, HasCode

\* main itself: the probe checks what the later states rely on.
LEMMA MainTargetStep ==
  ASSUME PInv,
         \/ ProbeChainId \/ ProbeCode \/ ProbeBalance \/ Bind \/ StartupFails \/ AwaitCtrlC
         \/ StopServer \/ Exit \/ Kill \/ Off \/ UNCHANGED pvars
  PROVE  (OwnTypes /\ TargetInv)'
<1> USE DEF ProbeChainId, ProbeCode, ProbeBalance, Bind, StartupFails, AwaitCtrlC,
       StopServer, Exit, Kill, Off, pvars, rest
<1>1. UNCHANGED <<config, node, target, signed_for, restarts>> /\ UNCHANGED vars
  OBVIOUS
<1>2. OwnTypes'
  BY DEF PInv, OwnTypes, Startup
<1>3. UNCHANGED <<pc, signed>>
  BY <1>1 DEF vars
<1>4. /\ \A r \in Requests : Admitted(r)' => (target[r] = config /\ OnChain /\ HasCode)'
      /\ SignedForTarget'
  BY <1>1, <1>3 DEF PInv, TargetInv, SignedForTarget, Admitted, OnChain, HasCode
<1>5. /\ main' \notin {"chain_id", "down"} => OnChain'
      /\ main' \notin {"chain_id", "code", "down"} => HasCode'
  BY <1>1 DEF PInv, OwnTypes, TargetInv, OnChain, HasCode, Startup
<1> QED
  BY <1>2, <1>4, <1>5 DEF TargetInv

\* A new configuration: no request of the old one is admitted any more.
LEMMA RestartTargetStep ==
  ASSUME PInv, Restart
  PROVE  (OwnTypes /\ TargetInv)'
<1>1. OwnTypes'
  BY MaxRestartsAssumption DEF PInv, OwnTypes, Restart, Startup
<1>2. \A r \in Requests : ~Admitted(r)'
  BY DEF Restart, InFlight, Admitted
<1>3. SignedForTarget'
  BY DEF PInv, TargetInv, SignedForTarget, Restart
<1> QED
  BY <1>1, <1>2, <1>3 DEF TargetInv, Restart

LEMMA NextPInv == PInv /\ [ProcNext]_pvars => PInv'
<1> SUFFICES ASSUME PInv, [ProcNext]_pvars PROVE PInv'
  OBVIOUS
<1>1. IInv'
  BY ProcStepIsBundlerStep, NextIInv, RestartIInv DEF PInv
<1>2. (OwnTypes /\ TargetInv)'
  BY TaskTargetStep, OutsideTargetStep, MainTargetStep, RestartTargetStep DEF ProcNext
<1> QED
  BY <1>1, <1>2 DEF PInv

LEMMA PInvHolds == ProcSpec => []PInv
<1>1. ProcInit => PInv
  <2> SUFFICES ASSUME ProcInit PROVE PInv
    OBVIOUS
  <2>1. IInv
    BY InitIInv DEF ProcInit
  <2>2. OwnTypes
    BY MaxRestartsAssumption DEF ProcInit, OwnTypes, Startup
  <2>3. TargetInv
    BY DEF ProcInit, Init, TargetInv, Admitted, SignedForTarget
  <2> QED
    BY <2>1, <2>2, <2>3 DEF PInv
<1> QED
  BY <1>1, NextPInv, PTL DEF ProcSpec

\* The whole process keeps its types.
THEOREM ProcessTypes == ProcSpec => []ProcTypeOK
<1>1. PInv => ProcTypeOK
  BY DEF PInv, IInv, OwnTypes, ProcTypeOK
<1> QED
  BY <1>1, PInvHolds, PTL

(***************************************************************************)
(* Probe and chain id check: whatever the operator configures and restarts *)
(* and whenever a client asked, the key signs only for the chain and the   *)
(* entry point the client meant, and these are the node's.                 *)
(***************************************************************************)
THEOREM SignedForTargetHolds == ProcSpec => []SignedForTarget
<1>1. PInv => SignedForTarget
  BY DEF PInv, TargetInv
<1> QED
  BY <1>1, PInvHolds, PTL
=============================================================================
