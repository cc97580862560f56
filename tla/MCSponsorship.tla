---------------------------- MODULE MCSponsorship ----------------------------
(***************************************************************************)
(* Two requests of up to two operations: a and b share the sponsor p, who  *)
(* can pay for none, for one or for both; c has its own.  With a margin of *)
(* 50% an estimate of 3 allows 4 and not 5; for 5 the product leaves the   *)
(* scaled-down u64.                                                        *)
(***************************************************************************)
EXTENDS Sponsorship, TLC

MCOps == {"a", "b", "c"}

MCSponsor == [o \in MCOps |-> IF o = "c" THEN "q" ELSE "p"]

MCPrefund == [o \in MCOps |-> 1]

RequestSymmetry == Permutations(Requests)
=============================================================================
