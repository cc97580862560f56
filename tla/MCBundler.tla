------------------------------ MODULE MCBundler ------------------------------
(***************************************************************************)
(* Small instances of Bundler for TLC.  A request signs at most one        *)
(* envelope, so a request that reads the nonce sees at most                *)
(* |Requests| - 1 of them at the node: MaxNonce = |Requests| - 1 loses     *)
(* nothing.                                                                *)
(***************************************************************************)
EXTENDS Bundler, TLC

\* Requests are interchangeable, and so are operations.
Symmetry == Permutations(Requests) \cup Permutations(Ops)
=============================================================================
