# TLA+ verification of ethera-bundler

`ethera-bundler` is an ERC-4337 (v0.7) bundler that runs next to a sequencer. A
client sends a batch of UserOperations with `ethera_buildSignedUserOpsTx`; the
bundler checks them, packs them into one `handleOps` call, signs the outer
transaction with the sequencer's key and either returns it (*sign-only*) or
broadcasts it and waits for the receipt (*submit*).

The project models the whole path of a request. `Admission` has the checks,
`Bundler` what follows them for any number of concurrent requests; `Process` puts
the bundler into a process that starts, stops, dies and starts again; `Receipt`
and `Sponsorship` look closer at two places that `Bundler` takes as one step: the
wait for the receipt, and who pays.

| module | part | source |
|---|---|---|
| `ExecutionLayer` | the node: pool, account nonce, receipts | external, as used by `bundler.rs`, `provider.rs` |
| `Bundler` | concurrent requests: lock, nonce, sign, broadcast, receipt, shutdown | `bundler.rs`, `rpc.rs`, `signer.rs`, `main.rs` |
| `Packing` | UserOperation to packed operation, paymaster header | `packing.rs`, `types.rs` |
| `GasMargin` | gas limit of the outer transaction | `bundler.rs` |
| `FeePolicy` | fee rules, prefund, outer fees; extends `Packing`, `GasMargin` | `bundler.rs` |
| `Validator` | validity windows, signature and aggregator verdict | `validator.rs` |
| `Errors` | error variant to JSON-RPC code | `errors.rs` |
| `Admission` | the checks of one request, call by call; extends the five above | `bundler.rs` |
| `BundlerAbs` | what a request is promised; `Bundler` implements it | the contract of `build_signed_user_ops_tx` |
| `Reverts` | decoding of revert data, code of a reason; extends `Errors` | `errors.rs` |
| `Receipt` | `wait_for_receipt` with clock and backoff, replay; extends `Reverts` | `provider.rs`, `bundler.rs` |
| `Process` | probe, servers, discovery, shutdown, crash, restart; extends `Bundler` | `main.rs`, `startup.rs`, `discovery.rs`, `rpc.rs`, `config.rs` |
| `Sponsorship` | deposits that operations and requests share, gas limit; extends `GasMargin` | `bundler.rs` |
| `BundlerProofs`, `RefinementProofs`, `ProcessProofs`, `AdmissionProofs`, `ChecksProofs`, `ReceiptProofs`, `SponsorshipProofs` | theorems | |
| `MCBundler`, `MCProcess`, `MCAdmission`, `MCReceipt`, `MCSponsorship` | TLC instances | |

## 1. Inventory

**Request life cycle** (`bundler.rs`, `Bundler`). State: `submit_lock` (a tokio
mutex), the shutdown token, and nothing else; in particular no nonce is cached.
Operations: `build_signed_user_ops_tx` (a biased select of the token against
`build_inner`) and `build_inner`. Hard: any number of calls run concurrently, a
call may be dropped at every await, a broadcast may fail after the node took it,
and the nonce that is read is used two awaits later. Correct when submits do not
take each other's nonce, no failure leaves a nonce gap or a held lock, and the
answer is what happened on the chain.

**Request checks** (`bundler.rs`, first half of `build_inner`). State: locals of
the call (base fee, tip, clock, minima, packed operations). Hard: values read
once and used many awaits later, saturating and wrapping arithmetic, alignment
of several lists. Correct when the sequencer never pays more than it is
reimbursed and every operation that is admitted passed each rule.

**Packing** (`packing.rs`). Pure. Correct when the EntryPoint reads back what the
client wrote. Hard: values at 128 bits, blobs around the header length.

**Validator** (`validator.rs`). One `eth_call` with a state override, then the
decision on two windows. Hard: bounds of the windows, 0 as "no expiry".

**Provider** (`provider.rs`). Trait `EthProvider` and its alloy implementation.
State: none. Hard: no timeout on any HTTP call; `wait_for_receipt` polls with
backoff up to a deadline and gives up at the first failed poll.

**Errors** (`errors.rs`). `classify` maps an error to a code; a failed `handleOps`
is replayed and its revert data decoded into a reason.

**Signer** (`signer.rs`), **RPC server** (`rpc.rs`), **process** (`main.rs`,
`startup.rs`): signs an envelope; passes a call on and converts the error;
probes the node, starts the servers, on ctrl-c fires the token, then stops the
servers.

Correct when the key signs only for the node's chain and the client's entry point,
when a crash at any point does no harm to the next life of the process, and when
ctrl-c ends the process. Hard: nothing is persisted, sends of the dead process are
still under way, the new one may have another configuration, and calls arrive
between the token and the stop of the server.

**Discovery** (`discovery.rs`): answers from the configuration, not from the node.
**Configuration** (`config.rs`), **contracts** (`contracts.rs`): options, and
generated bindings. No state of their own.

Calls go RPC server → bundler → packing / validator / provider / signer; the only
state that requests share is the lock, the token and the node. The `hazards` of
`PROJECT.json` list, at their lines, what can go wrong in this that a test would
hardly reach.

## 2. How the models correspond to the code

### Bundler

One element of `Requests` is one call. `pc` is the await the task is at, and one
action is what the task does from one await to the next, or the moment at which
the node evaluates one of its calls:

| action | code |
|---|---|
| `Arrive` | the RPC handler calls `build_signed_user_ops_tx` |
| `BuildPasses`, `BuildFails` | the checks (detailed in `Admission`), up to `submit_lock.lock()` |
| `LockGranted` | the guard is returned |
| `ReadPendingNonce`, `NonceReadFails` | `pending_nonce` |
| `FeeOverflows` | `u128_from_u256` refuses an outer fee |
| `SignAndSend`, `SignOnly`, `SignFails` | signing, start of `send_raw_transaction` or return |
| `SendAccepted`, `SendFails` | `send_raw_transaction` returns; guard dropped |
| `ReceiptFound`, `ReceiptTimeout`, `ReceiptPollFails` | `wait_for_receipt` |
| `Replay` | `try_call_for_revert` and the answer `HandleOpsReverted` |
| `DropCancelled` | the other arm of the select |
| `Cancel` | ctrl-c in `main` |

`NodeAccepts`, `NodeRejects`, `SendLost`, `Relay` and `NodeStep` (`Mine`,
`Release`) are the environment. A send is put on `wire` when it starts and
evaluated at any later time, also after its caller has failed or was dropped.
`Relay` lets the client of a sign-only request give the envelope to the node.

Abstractions:

* The data of a request is the set of its operations and one fee setting. Two
  transactions are equal exactly when nonce, operations and fees are: signing is
  deterministic.
* `submit_lock` is a FIFO queue of tickets, which is what tokio's mutex promises.
* The select is `biased` with the token first: a poll asks the token before it goes on
  with `build_inner` (`Polled`), and a task whose poll begins after the token fired is
  dropped. The runtime has several threads, so the token may fire when other threads are
  in the middle of polls that have asked it already: `Cancel` picks any set of requests
  (`mid_poll`) of which this is so. Such a poll goes on up to the next await that pends.
  `Segment` says how far that is: every provider call pends, an uncontended lock and the
  local signer do not, so the steps from the answered nonce read to the start of the send
  are one poll.
* `Executed` makes an operation that was executed fail in simulation and in
  `handleOps`, as the EntryPoint's nonce check does. `handleOps` may also revert
  for any other reason.
* `Release` stands for eviction and for the released reservations that
  `bundler.rs` mentions. Replacement by fee and chain reorganisations are not
  modelled: the bundler sends neither a replacement nor handles a reorganisation.
* `FeeOverflows` keeps the failing fee conversion that the code has under the lock;
  `OuterFeesSound` shows that it cannot happen.
* `Disconnect` is a client that goes away: the server drops the handler's future
  at whichever await it is. It is not answered, and the send it may have started
  goes on.

`Abs` maps this state to `BundlerAbs`: `idle`, `done` and everything between become
`idle`, `closed` and `open`; the signed envelope, the answer and the receipts are
taken as they are. Locks, tickets, pool and wire are not visible there. Steps
that sign (`SignAndSend`, `SignOnly`) become `Broadcast` and `HandOver`, steps that
answer become `Reply`, mining becomes `Settle`, the rest are stutters.

### Process

`main` is the await that `main` is at: `chain_id`, `code`, `balance` (the probe),
`bind`, then `started` (the server runs, the ctrl-c handler is not installed yet),
`serving`, `cancelled` (the token has fired), `stopping` (`handle.stop()` was called)
and `exited`; `down` is a process that died or failed to start. All actions of
`Bundler` are kept, with the condition that makes them depend on the process:

| action | code |
|---|---|
| `ProbeChainId`, `ProbeCode`, `ProbeBalance`, `Bind`, `StartupFails` | `startup::probe` and `main` up to `server.start` |
| `AwaitCtrlC`, `CtrlC`, `StopServer`, `Exit` | the end of `main` |
| `Discover` | a client reads `eth_chainId` and `eth_supportedEntryPoints` |
| `Call`, `TaskPolled`, `TaskReturns` | `Arrive` and the steps of a task, in the running process |
| `Kill` | crash, SIGKILL, SIGTERM, SIGINT before the handler, failing `ctrl_c()` |
| `Restart` | the operator starts the process again |
| `Outside` | node, network, clients: independent of the process |

`config` is chosen anew at every start. A request carries the `target` its client
had in mind, an old discovery answer perhaps. `RightChain` is the check of
`opts.chain_id`; `RightEntryPoint` stands for the EntryPoint's own check: an
operation's signature covers the entry point's address, so that its simulation fails
elsewhere. The server is external (jsonrpsee): it takes calls until `stop()`, and
`stopped()` waits for the calls it took. A dead process's connections break, which
is `Disconnect`, before the new one starts. Two bundlers that run with one key
at the same time are outside the model: the lock cannot help there, and the mutant
`RestartOverlaps` shows what is lost.

### Receipt

One submit from the start of `wait_for_receipt` on, in time. A poll is asked,
evaluated by the node and answered at three moments (`asked_at`, `eval_at`,
`back_at`), with any time between them, because the HTTP client has no timeout. A
sleep ends at most `Overshoot` late. The transaction is mined at any moment and
succeeds or reverts with some revert data (`mined_revert`). `latest` is what the same call
would do at the latest block, and that is what the replay sees: at first the same revert,
or success if the transaction only lacked gas, since the replay sets no gas limit; later
blocks change it at will (`NodeMoves`, recorded in `moved`). `ReplayFails` is a replay that
fails for another cause; `try_call_for_revert` gives no data for it. Revert data is its
selector, whether the body decodes, and the number and the reason in the body.
That the wait can be cancelled is in `Bundler` and not repeated.

### Sponsorship

Several requests at a time, each a sequence of operations with given sponsors and
prefunds; one that has ended makes room for another. The
loop of `build_inner` is kept (`CheckDeposit`, `SimulateOp`, per operation, against
the whole deposit), then `EstimateBatch`, which is where the node runs the whole
`handleOps` and answers with the gas it needs; `SetLimit` makes the gas limit of it
(`GasWithMargin`). Every call sees the latest block. `MineOk` charges any cost up to the
prefund and so includes refunds; `MoveDeposit` and `Invalidate` are
everybody else, and `NeedChanges` lets the gas a batch needs become anything until it is
mined. A mined `handleOps` fails (`MineReverts`) when one of its operations no longer
validates, for whatever cause, when a sponsor cannot pay for all of its operations, or
when it needs more gas than its limit; a call of an operation that fails does not make
`handleOps` revert. `touched` records, from the estimate on, that something the
batch needs was taken away. `SendBatch` does not tell submit from sign-only: either
way the sequencer's transaction is out.

### Admission

One request; `pc` names the provider call that is awaited. `ops` is a sequence
of records with the fields of `UserOpV07`, except that call data, signature and
operation nonce, which are passed on unread, are one field `opaque`. Byte strings
are sequences of fields, not of bytes: a paymaster blob is address, two gas
limits, rest. Widths are constants: `U128Max`, `U256Max = (U128Max+1)^2 - 1`,
`U64Max`, `AddrSpace`, `TimeSpace`; packing multiplies and adds in these bases,
so that an unchecked half does spill into the other. The EntryPoint's own reading
of a packed operation (`EPHigh`, `EPLow`, `EPPaymasterData`, `EPPayer`,
`EPRequiredPrefund`, ...) is written separately, as an external reference. An error names
an operation only if its variant has an `op_index` (`IndexedErrors`); packing, validation
and provider errors name none.

The node's base fee and tip change at any time (`NodeMoves`); deposits, windows
and gas estimates are read once each and take any value of their set. `asked`,
`estimated` and `ep_rejected` are history variables for the properties.

The gas margin multiplies in `u64`, which wraps in a release build, and adds with
saturation; both are modelled.

## 3. Runs

| run | instance | checks |
|---|---|---|
| `lifecycle_safety` | 3 requests, 1 operation, 2 fee settings, symmetry of requests | `TypeOK`, `NoSelfCollision`, `DistinctNonces`, `GapOnlyFromRelease`, `AnswersAreTrue`, `OneOkPerOperation`, `OneLateSend` |
| `promise_and_progress` | 2 requests, 2 operations, `WedgedSpec` | `Implements` (`BundlerAbs`), `EveryRequestAnswered`, `ShutdownDrains` |
| `crash_restart` | 2 requests, 1 operation, 1 restart, `ProcWedgedSpec` | `ProcTypeOK`, `NoSelfCollision`, `Implements`, `ShutdownCompletes` |
| `signed_for_target` | 1 request, 2 chains, 2 entry points, 1 restart | `SignedForTarget` |
| `outer_fees` | all pairs of fees 0..4, batches of 0..3 | `AdmissionTypeOK`, `OuterFeesSound` |
| `checks_and_codes` | gas, paymaster and factory variants, all windows, batches of 0..3 | `PackedFaithful`, `PrefundCovered`, `WindowsHonoured`, `RejectionsAreTrue` |
| `receipt_wait` | backoff 1, 2, 2, timeout 7, clock to 10, four kinds of revert data, `ReceiptFairSpec` | `ReceiptTypeOK`, `TimeoutIsHonest`, `PromptPolls`, `PollsStopAtDeadline`, `RevertReasonIsReal`, `WaitEnds` |
| `sponsorship` | 2 requests at a time of up to 2 of 3 operations, deposits 0..2, gas 3..5, margin 50%, symmetry of requests | `SponsorshipTypeOK`, `LossNeedsInterference` |
| `same_nonce`, `simulation_code`, `receipt_bound`, `expiry_code` | smallest instance that shows it | one statement of a comment or document each, violated (section 5) |

What they show:

* `NoSelfCollision`: when the node refuses the nonce of a submit, the nonce was
  used by a sign-only envelope or by a send that was given up, never by another
  submit that went through. This is what holding the lock until the node answers
  achieves; releasing it before the broadcast breaks the property.
* `DistinctNonces`: two submits sign the same nonce only if one of them failed
  (or was cancelled) during its send, or the node released the nonce in between.
* `GapOnlyFromRelease`: because the nonce is read anew each time, no failure,
  cancellation or race leaves a pooled transaction behind a missing nonce.
* `AnswersAreTrue`: `Ok` of a submit means mined and successful,
  `HandleOpsReverted` mined and failed, `ReceiptTimeout` that the node took it,
  and after a rejection or a signer error no envelope exists. `ProviderError` and
  `Cancelled` promise nothing: the transaction may have been mined.
* `OneOkPerOperation`: when several submits carry one operation (a retry, or two clients),
  two of them are told `Ok` only if they signed the very same transaction. The receipt
  is asked for by the hash of the request's own envelope and an operation is executed
  once; a receipt looked up by nonce breaks the property.
* `OneLateSend`: shutdown does not stop every broadcast, since a poll may have asked the
  token just before it fired. But only the owner of the lock can be past its nonce read, and
  the next owner would have to be polled again, so at most one `eth_sendRawTransaction`
  begins after the token fired. A select that is not biased breaks the property.
* `ShutdownDrains`, `EveryRequestAnswered`: shutdown and progress.
* `OuterFeesSound`: at any base fee the sequencer pays at most what each operation
  of the batch reimburses per gas; the tip is at least the configured minimum and
  within the cap; both fit `u128`; the gas limit is at least the estimate.
* `PackedFaithful`, `PrefundCovered`, `WindowsHonoured`: each admitted operation is what
  the client wrote, field by field, with factory and paymaster data, in either wire form
  and with the precedence of pre-packed blobs; its payer had the deposit the EntryPoint
  charges; it was inside its windows at the time the clock was read.
* `RejectionsAreTrue`: -32602 is answered only for a fault of the request itself, never for
  the node's verdict or failure; a low deposit, a bad signature, a missed window or an
  aggregator is reported only if the node said so of the operation in hand, and an
  `opIndex` is that operation's. Which code a kind of rejection *should* have is not part
  of it: the comments disagree with the code there (section 5).
* `Implements`: a request is answered once, for ever; at most one envelope is signed
  for it; only signed envelopes are mined, in nonce order, and no operation is
  executed twice; the answer was true of the ledger when it was given. With
  `crash_restart` all this holds over the death of the process at any point.
* `SignedForTarget`: a client that goes by what an earlier process told it is
  refused, never signed for the wrong chain.
* `ShutdownCompletes`: `stopped()` does not wait for ever, because the token ends the
  calls first, also those that arrive after it fired.
* `TimeoutIsHonest`, `PromptPolls`, `PollsStopAtDeadline`, `WaitEnds`: a receipt that was
  there when the last poll was evaluated is never reported as a timeout; polls do not
  drift apart beyond the largest backoff; no poll starts after the deadline, and the
  last one comes at the deadline rather than before it.
* `RevertReasonIsReal`: `HandleOpsReverted` is answered only for a transaction that
  reverted. Its reason is the one the transaction reverted with as long as later blocks
  have not changed what the call does; otherwise it may be the reason at a later block,
  which is the stale replay of section 5. It never comes from data that does not decode, and
  a replay that got decodable data is not answered with `Unknown`.
* `LossNeedsInterference`: the sequencer pays for a `handleOps` that fails only if after the
  estimate somebody took a deposit or an operation away, or the batch came to need more
  gas than the estimate and `gas_margin_pct` of it (than the estimate, if the product of
  the two left the `u64`). That the deposit check looks at one operation at a time is made up
  for by the estimate; a fallback for a failing estimate breaks the property, and so does
  a margin that is rounded before it is multiplied.

State counts (distinct): `lifecycle_safety` 3,967,619; `promise_and_progress` 196,987;
`crash_restart` 228,050; `signed_for_target` 36,528; `outer_fees` 505,512;
`checks_and_codes` 3,317,900; `receipt_wait` 1,177,302; `sponsorship` 2,418,588.

### Bounds

* `MaxNonce = |Requests| - 1`: a request signs at most one envelope, so one that
  reads the nonce sees at most `|Requests| - 1` others.
* Three requests are the smallest number in which a submit meets both an orphaned
  send and a sign-only envelope, or a lock queue of two behind an owner. With two
  fee settings two requests at one nonce have equal or different envelopes; disjoint,
  overlapping and equal batches of two operations are in `promise_and_progress`. The
  theorems of section 4 remove these bounds.
* The liveness runs use two requests (one owner, one waiter) and no symmetry.
* One restart lets two lives of the process meet; any number is covered by the
  theorems of `ProcessProofs`. Two chains and two entry points: one right, one wrong.
* `receipt_wait`: the backoff reaches its limit, two more sleeps are full ones, the
  last is cut at the deadline, and the clock runs on past the timer's latest wake.
  The revert data are a reason, a number beyond `u64`, a body that does not decode and an
  unknown selector; every selector and every reason are in `expiry_code`, and
  `ReceiptProofs` holds for all revert data.
  `Horizon` bounds the clock; `ReceiptProofs` holds for every horizon.
* `sponsorship`: two operations share a sponsor who can pay for none, one or both; a
  third has a sponsor of its own; batches may hold an operation twice. With a margin of
  50% an estimate of 3 grants 4, rounded down, and not 5; with `U64Max = 240` the
  product of estimate 5 wraps and that of 4 does not. The proofs take any gas, margin and
  width.
* `U128Max = 3` has values below, at and beyond a half word; `U256Max = 15` lets
  sums and products of gas saturate. `U64Max = 255` with estimates 20, 26 and 255
  reaches the unwrapped product, the first product that wraps, and saturation.
  Three addresses are none, sender and paymaster. Clocks 0..4 lie before, on and
  after both ends of a window from 1 to 2, and 4 lies beyond `UINT48_MAX = 3`, where
  even an operation without expiry is refused.
* `Deposits` are below `U256Max`: a deposit is ether, of which there is less than
  2^256 - 1 wei. Without this a saturated requirement could be met.
* `MaxBatchSize = 2`, with batches of 0 to 3 operations: empty, allowed and one too
  many.

### Fairness

`RuntimeFairness` is weak fairness of the steps that need only the runtime: tokio
polls every task that was woken, and the lock and the token wake their waiters.
`WedgedSpec` assumes nothing else, because the HTTP client has no timeout.
`ProviderFairness`, that each provider call returns with a value or an error, is a
hypothesis of `EveryRequestAnswered` alone. No fairness is assumed of the node, the network or the clients. `ProcWedgedSpec` is
`WedgedSpec` for the process: tasks that can run are polled, and `main` goes on after
ctrl-c; that ctrl-c happens is not assumed. `ReceiptFairSpec` lets calls return,
with a value or an error, time pass and sleepers wake; that the transaction is mined
is not assumed.

Every request answered, a finished wait and a process that is off are states in
which the models may stop (`Drained`, `Answered`, `Ended`, `Off`), so deadlock is
checked in all runs.

## 4. Theorems

`BundlerProofs` proves, for every set of requests, operations and fees and every
`MaxNonce`, type correctness and the six other invariants of `lifecycle_safety`. Assumptions: `MaxNonce \in Nat`, `Fees # {}`. None of the
invariants is inductive. The inductive invariant `IInv` adds:

* `LockInv`: tickets are unique and held exactly between `lock()` and the drop, so
  there is one owner and everyone in `nonce`, `sign` or `send` of a submit is it;
* `FlightInv`: what the control state says about envelope, wire, reply and answer;
* `FreshInv`: a nonce that was read under the lock is still free when the node
  evaluates the send, unless an outsider used it. Mining and releasing never take
  a free nonce; only an accepted transaction does, and a transaction accepted
  while another request owns the lock comes from a sign-only request or an orphan;
* `TakenInv`, `DrawnInv`: the nonce of an accepted envelope stays taken unless
  released, so the next owner, who reads a free nonce, reads another one;
* `GapInv`: below a nonce that was drawn all nonces are mined, pooled or released,
  and this is stable;
* `ReplayInv`: a replay follows a failed receipt.

`OneOkPerOperation` relates two requests and needs one invariant more, `OpsOnce`: two
receipts of success whose batches share an operation are the same receipt. `Mine` keeps it
because a batch with an executed operation cannot succeed; with `AnswersAreTrue` it gives
the property.

`OneLateSend` needs `LateInv`: once the token has fired, either no request is *armed* (in
the middle of a poll that lies past the nonce read of a submit) or nothing was sent late
yet; an armed request owns the lock, so two cannot be, and after the token fired none
becomes armed, because a step into that part begins a new poll (`NobodyArmed`).

There is a lemma per action (`ArriveStep`, ...), `LeaveStep` for all the actions
that end a request, and `NextIInv` puts them together.

`AdmissionProofs` proves `OuterFeesSound` for integers of every width, every set of
operations, every minimum fee and every answer of the node. Assumptions: those of
`Packing`, `FeePolicy` and `Admission` (`AdmissionAssumption` gives the node's
answers their types). The invariant `FeeInv` says where the loop stands
(`LoopInv`) and that the two minima are at most one value each and bound the fees
of all operations collected (`MinInv`). From `check_per_op_fees` and `pack` an
operation's cap fits `u128` and its tip is between the minimum and the cap;
`UpdateMin` carries this to the minima and `ChosenFees` to the outer fees. That the
price is right at *every* base fee follows from the price being monotone in cap
and tip (`GasPriceMonotone`).

`ChecksProofs` proves the other properties of `Admission`, for integers of every width,
every set of operations, windows, deposits, clocks and every answer of the node, from the same
assumptions. It has two layers.

* Lemmas about the operators. `PairReadBack` and `WindowReadBack`: division and remainder
  undo the packing of two halves, and of the three fields of a validation word, when
  each is in its range; `PackedFields` carries this to a whole operation and `HeaderRead`,
  `ShortBlob` to the paymaster blob. `Verdict`: `simulate` says `Ok` only if both
  windows contain the clock and both signatures are good, and each refusal has its reason.
  `SaturationIsSafe`: a saturated sum is the exact one or `U256Max`, which no deposit
  reaches; with `PrefundFormula` the bundler's requirement is at least the EntryPoint's.
  `CodeOf`: which variants share a code.
* The inductive invariant `ChecksInv`, which TLC checked on the instance of
  `checks_and_codes` before the proof. To `FeeInv` it adds: the answers of the node are
  aligned with the operations (`ChecksShape`); each operation that was collected
  passed every rule with *its* answer (`ChecksDone`), and the one in hand those behind it
  (`ChecksInHand`); the minimum of the caps is the cap of some operation (`CapOfSome`:
  the rejection by `choose_outer_fees` names no operation, and its code is true only
  because one of them bid too little); an error that was returned is true of the
  operation in hand (`ErrorTruth`).

The first attempt at `Verdict` failed: for a clock beyond uint48 the code, which turns
`validUntil = 0` into `UINT48_MAX`, refuses an operation that never expires, and the
reference definition `InWindow` admitted it. The reference now says what the code and
its unit test say, and the instance has such a clock.

`RefinementProofs` proves `Spec => Implements`. The invariant is `IInv` with
`PoolSigned`: every pooled transaction was signed for some request.
`StepSimulation` has a case per action of `Bundler`; that answers are truthful in
the abstract sense comes from `FlightInv` and `ReplayInv`.

`ProcessProofs` carries the results over to the process, for any number of restarts.
Its key is that every step of `ProcNext` is a step of `Bundler`, leaves `Bundler`'s
variables alone, or is `Restart`; a restart happens with no request in flight, so
that an empty lock and a new token (`NewBundler`) keep `IInv` and `LateInv`, although the wire keeps what the
dead process sent. All safety properties of `lifecycle_safety` follow for the
process too: no crash makes two submits share a nonce, leaves a gap, makes an earlier
answer false or reports one operation twice. `SignedForTargetHolds` needs `TargetInv`: past the probe the
configuration is the node's, and a request past the checks has the target of the
configuration under which it was admitted.

`ReceiptProofs` proves the safety properties of `Receipt` for every backoff, timeout,
timer delay and horizon. The invariant `RInv` orders the times of a poll (`PastInv`), says
where the loop stands against deadline and sleep (`LoopInv`) and that what a poll missed was
mined after the node evaluated it (`MissInv`). `RevertReasonIsReal` is proved for all revert
data: `RevertInv` says that until the answer the call does what the transaction did, or
would have done with enough gas, unless it has moved, and `DecodeTells` what
`decode_handle_ops_revert` makes of each revert.

`SponsorshipProofs` proves `LossNeedsInterference` for all sponsors, prefunds, batches, gas
uses and margins. `ExposedInv` says that an untouched batch between estimate and block still
passes `handleOps` and that its limit is the one of its estimate. `MarginHolds` is the
arithmetic: who needs more than the rounded, wrapped and saturated limit of `bundler.rs:175`
needs more than the exact margin. The sum that a sponsor is charged depends on the batch alone, so the
proof never looks into it.

Only model-checked: liveness (`EveryRequestAnswered`, `ShutdownDrains`,
`ShutdownCompletes`, `WaitEnds`), because fairness is outside the prover's reach. Every
invariant of a passing run, and the refinement, is a theorem.

## 5. Where comments and code differ

Each is a run that violates the statement. None lets an operation be executed twice
or under-prices the outer transaction.

* `same_nonce`: "concurrent submits never sign the same nonce" (`bundler.rs:47`). A
  send that fails in transport drops the guard while its envelope is still under
  way; the next submit reads the same pending nonce.
* `simulation_code`: -32500 is documented for rejections by `simulateValidation`
  (`errors.rs:23`); a revert of that call arrives as a transport error, -32603.
* `receipt_bound`: `RECEIPT_TIMEOUT` is an "Upper bound on the receipt wait"
  (`bundler.rs:37`). The deadline is looked at only when a poll is back, and a poll has no
  timeout.
* `expiry_code`: -32503 is documented for operations outside their window
  (`errors.rs:103`); one that expires between simulation and block reverts with AA22
  and is answered -32500.

Further differences, which the models contain but which have no run:

* The outer-fee rejection is called "transient: network moved during the call"
  (`bundler.rs:324`). `choose_outer_fees` compares values read once, so it happens
  without any movement whenever the suggested tip exceeds the configured minimum and
  the cap lies between.
* One failure has several codes. A paymaster's deposit that is too low is -32500 before
  submission (`InsufficientDeposit`, `errors.rs:141`, with the reason AA21) and -32501 on
  chain (AA31, `errors.rs:272`; the test at `errors.rs:404` expects it), where
  `errors.rs:25` puts the AA3x family. A revert in simulation is -32603 before and -32500
  or -32501 on chain. An aggregator is -32521 before; on chain it is AA24 (-32500), or
  AA34 (-32501) if the paymaster named it.
* -32521 is "Reverted inside account validation" (the repository's README:73), "account
  threw, not returned a sentinel" (`errors.rs:29`). `classify` gives it to `UnsupportedAggregator` alone
  (`errors.rs:202`): an aggregator that the account *or the paymaster* returned,
  nobody having reverted.
* Packing, validation and provider errors name no operation, so that the client of a batch
  does not learn which of its operations was refused (`errors.rs:84`); the other
  rejections carry `opIndex`.
* `InvalidUserOp` of `u128_from_u256` has the index `usize::MAX` (`bundler.rs:373`).
* `Cancelled` says "bundler is shutting down"; the transaction of that request may be
  on the wire or be mined.
* A `paymasterAndData` that names the zero address is not charged its paymaster gas
  limits, against the formula of `bundler.rs:284`; `PrefundCovered` excepts it.
* README and module comment list simulation before prefund; the code checks the
  prefund first.
* The replay is to recover the reason "that the node already knew at mining time"
  (`provider.rs:88`). It runs on a later state (`latest`, `NodeMoves` of `Receipt`) and
  reports another reason, or none, when that state has moved.
* The repository's README gives another default for the minimum priority fee than
  `config.rs`.
* `types.rs:60` says that sign-only works without contacting the execution layer,
  although it reads fees, deposit, validation and nonce.

## 6. Not modelled, and plan

Not modelled: contracts (generated bindings and bytecode), JSON and HTTP handling and the
server's own connection limits (jsonrpsee), cryptography (signing is a deterministic
step that may fail), parsing of options (clap), logging, the texts of error
messages; several bundlers with one key at the same time; reorganisations and
replacement by fee, which the code does not handle. What is left in the source files are
these, type declarations and tests.

Planned: `Admission` as a refinement of the step `build` of `Bundler`, and consequences of
`BundlerAbs` alone, which would hold of every implementation of the promise.
