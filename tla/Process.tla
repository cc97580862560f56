------------------------------- MODULE Process -------------------------------
(***************************************************************************)
(* The process around the bundler: `main` (bin/ethera-bundler/src/main.rs) *)
(* with its startup probe (startup.rs), the discovery calls (discovery.rs) *)
(* and the JSON-RPC server, over crashes and restarts.  Composes Bundler:  *)
(* its tasks run only while the server runs.                               *)
(*                                                                         *)
(* Nothing is persisted: a restarted process has a new lock and a new      *)
(* token, and the operator may have configured it anew.                    *)
(***************************************************************************)
EXTENDS Bundler

CONSTANTS
    Chains, EntryPoints,    \* what can be configured
    MaxRestarts             \* bound of the restarts

ASSUME MaxRestartsAssumption == MaxRestarts \in Nat

VARIABLES
    main,        \* where main stands
    config,      \* chain_id and entrypoint_address of this run
    node,        \* the node's chain id, and where an EntryPoint is deployed
    target,      \* of a request: the chain and entry point it was made for
    signed_for,  \* history: the configuration under which a request was signed
    restarts

pvars == <<vars, main, config, node, target, signed_for, restarts>>

Configs == [chain_id : Chains, entrypoint : EntryPoints]

Startup == {"chain_id", "code", "balance", "bind"}

\* After server.start; before handle.stop().
Accepting == main \in {"started", "serving", "cancelled"}

\* The runtime is up and holds the tasks of the server.
Up == Accepting \/ main = "stopping"

InFlight(r) == pc[r] \notin {"idle", "done"}

ProcTypeOK ==
    /\ TypeOK
    /\ main \in Startup \cup {"started", "serving", "cancelled", "stopping", "exited", "down"}
    /\ config \in Configs
    /\ node \in [chain_id : Chains, deployed : SUBSET EntryPoints]
    /\ target \in [Requests -> Configs]
    /\ signed_for \in [Requests -> Configs]
    /\ restarts \in 0 .. MaxRestarts

ProcInit ==
    /\ Init
    /\ main = "chain_id"
    /\ config \in Configs
    /\ node \in [chain_id : Chains, deployed : SUBSET EntryPoints]
    /\ target \in [Requests -> Configs]
    /\ signed_for = target
    /\ restarts = 0

rest == <<config, node, target, signed_for, restarts>>

-----------------------------------------------------------------------------
\* main, up to the server.

\* Mutant of ProbeChainId: the answer is not compared.
ProbeChainIdOnly ==
    /\ main = "chain_id"
    /\ main' = "code"
    /\ UNCHANGED <<vars, rest>>

ProbeChainId ==
    /\ main = "chain_id"
    /\ node.chain_id = config.chain_id
    /\ main' = "code"
    /\ UNCHANGED <<vars, rest>>

ProbeCode ==
    /\ main = "code"
    /\ config.entrypoint \in node.deployed
    /\ main' = "balance"
    /\ UNCHANGED <<vars, rest>>

\* A balance below the floor is only logged.
ProbeBalance ==
    /\ main = "balance"
    /\ main' = "bind"
    /\ UNCHANGED <<vars, rest>>

\* The server is bound and started with a new bundler.
Bind ==
    /\ main = "bind"
    /\ main' = "started"
    /\ UNCHANGED <<vars, rest>>

\* A probe finds a mismatch or its call fails, or the address cannot be bound.
StartupFails ==
    /\ main \in Startup
    /\ main' = "down"
    /\ UNCHANGED <<vars, rest>>

\* The first poll of ctrl_c() installs the handler.
AwaitCtrlC ==
    /\ main = "started"
    /\ main' = "serving"
    /\ UNCHANGED <<vars, rest>>

-----------------------------------------------------------------------------
\* The server.

\* eth_chainId and eth_supportedEntryPoints: the configuration, not the node.
Discover(r) ==
    /\ Accepting
    /\ pc[r] = "idle"
    /\ target' = [target EXCEPT ![r] = config]
    /\ UNCHANGED <<vars, main, config, node, signed_for, restarts>>

Call(r) ==
    /\ Accepting
    /\ Arrive(r)
    /\ UNCHANGED <<main, rest>>

\* Mutant of RightChain: opts.chain_id is not looked at.
AnyChain(r) == TRUE

\* opts.chain_id is the configured one.
RightChain(r) == target[r].chain_id = config.chain_id

\* An operation signed for another entry point fails simulateValidation there.
RightEntryPoint(r) == target[r].entrypoint = config.entrypoint

\* A step of r's task in the running process.
Runs(r) ==
    /\ Up
    /\ (pc[r] = "build" /\ pc'[r] # "done") => RightChain(r) /\ RightEntryPoint(r)
    /\ signed_for' = [s \in Requests |-> IF s \in signed' \ signed THEN config ELSE signed_for[s]]
    /\ UNCHANGED <<main, config, node, target, restarts>>

TaskPolled(r) == RuntimeStep(r) /\ Runs(r)

TaskReturns(r) == ProviderReturns(r) /\ Runs(r)

-----------------------------------------------------------------------------
\* The end of the process.

\* Mutant of CtrlC: the server is stopped and awaited before the token fires.
CtrlCWithoutToken ==
    /\ main = "serving"
    /\ main' = "cancelled"
    /\ UNCHANGED <<vars, rest>>

\* ctrl_c().await returns; cancel.cancel().
CtrlC ==
    /\ main = "serving"
    /\ Cancel
    /\ main' = "cancelled"
    /\ UNCHANGED rest

\* handle.stop()
StopServer ==
    /\ main = "cancelled"
    /\ main' = "stopping"
    /\ UNCHANGED <<vars, rest>>

\* handle.stopped().await: the server waits for the calls it has accepted.
Exit ==
    /\ main = "stopping"
    /\ \A r \in Requests : ~InFlight(r)
    /\ main' = "exited"
    /\ UNCHANGED <<vars, rest>>

(***************************************************************************)
(* The process dies at any point: a crash, SIGKILL, a signal main has no   *)
(* handler for (SIGTERM, or SIGINT before AwaitCtrlC), a failed ctrl_c().  *)
(* Its tasks stop where they are; what they sent stays on the wire.        *)
(***************************************************************************)
Kill ==
    /\ main \notin {"exited", "down"}
    /\ main' = "down"
    /\ UNCHANGED <<vars, rest>>

\* Bundler::new with a fresh token and a free lock.
NewBundler ==
    /\ cancelled' = FALSE /\ mid_poll' = {} /\ late' = {}
    /\ next_ticket' = 1

\* Mutant of Restart: an old process still runs when the new one starts.
RestartOverlaps ==
    /\ main \in {"exited", "down"} /\ restarts < MaxRestarts
    /\ main' = "chain_id"
    /\ config' \in Configs
    /\ restarts' = restarts + 1
    /\ NewBundler
    /\ ticket' = [r \in Requests |-> 0]
    /\ UNCHANGED <<el_vars, pc, request, fee, nonce, signed, outcome, net,
                   node, target, signed_for>>

\* Mutant of Restart: requests that were cut off are taken up again.
RestartResumes ==
    /\ main \in {"exited", "down"} /\ restarts < MaxRestarts
    /\ \A r \in Requests : ~InFlight(r)
    /\ main' = "chain_id"
    /\ config' \in Configs
    /\ restarts' = restarts + 1
    /\ NewBundler
    /\ pc' = [r \in Requests |-> IF outcome[r] = "Disconnected" THEN "build" ELSE pc[r]]
    /\ UNCHANGED <<el_vars, request, fee, nonce, signed, outcome, ticket, net,
                   node, target, signed_for>>

(***************************************************************************)
(* The process is started again, with a new bundler.  The connections of   *)
(* the old one have broken by then (Disconnect).                           *)
(***************************************************************************)
Restart ==
    /\ main \in {"exited", "down"} /\ restarts < MaxRestarts
    /\ \A r \in Requests : ~InFlight(r)
    /\ main' = "chain_id"
    /\ config' \in Configs
    /\ restarts' = restarts + 1
    /\ NewBundler
    /\ UNCHANGED <<el_vars, pc, request, fee, nonce, signed, outcome, ticket, net,
                   node, target, signed_for>>

\* The network, the clients and the node do not depend on the process.
Outside ==
    /\ NodeStep \/ \E r \in Requests : NetworkStep(r)
    /\ UNCHANGED <<main, rest>>

Off == main \in {"exited", "down"} /\ UNCHANGED pvars

-----------------------------------------------------------------------------

ProcNext ==
    \/ ProbeChainId \/ ProbeCode \/ ProbeBalance \/ Bind \/ StartupFails \/ AwaitCtrlC
    \/ \E r \in Requests : Discover(r) \/ Call(r) \/ TaskPolled(r) \/ TaskReturns(r)
    \/ CtrlC \/ StopServer \/ Exit \/ Kill \/ Restart \/ Outside \/ Off

ProcSpec == ProcInit /\ [][ProcNext]_pvars

(***************************************************************************)
(* The runtime polls what was woken, main too; no call of the provider has *)
(* to return.                                                              *)
(***************************************************************************)
ProcWedgedSpec ==
    /\ ProcSpec
    /\ \A r \in Requests : WF_pvars(TaskPolled(r))
    /\ WF_pvars(StopServer) /\ WF_pvars(Exit)

-----------------------------------------------------------------------------
\* Properties.

(***************************************************************************)
(* The startup probe and the chain id check together: across restarts and  *)
(* new configurations, with clients that go by an old eth_chainId or       *)
(* eth_supportedEntryPoints, the sequencer's key signs only for the chain  *)
(* and entry point the client meant, and these are the node's.             *)
(***************************************************************************)
SignedForTarget ==
    \A r \in signed :
        /\ signed_for[r] = target[r]
        /\ signed_for[r].chain_id = node.chain_id
        /\ signed_for[r].entrypoint \in node.deployed

(***************************************************************************)
(* ctrl-c ends the process although no provider call ever returns: the     *)
(* token ends the calls that stopped() waits for, also those that arrive   *)
(* between cancel() and stop().                                            *)
(***************************************************************************)
ShutdownCompletes == main = "cancelled" ~> main \in {"exited", "down"}
=============================================================================
