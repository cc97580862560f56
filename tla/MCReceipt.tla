------------------------------ MODULE MCReceipt ------------------------------
(***************************************************************************)
(* Small instances of Receipt.  With the backoff of 1, 2, 2, 2, ... and a  *)
(* timeout of 7 the largest backoff is reached and the last sleep is cut.  *)
(***************************************************************************)
EXTENDS Receipt

\* Two reverts the client could tell apart.
FewReverts ==
    {[selector |-> "FailedOp", decodes |-> TRUE, number |-> 0, reason |-> r] :
        r \in {"AA21", "AA31"}}

\* A reason, a number beyond u64, a body that does not decode, an unknown error.
SomeReverts ==
    {[selector |-> "FailedOp", decodes |-> TRUE, number |-> 0, reason |-> "AA21"],
     [selector |-> "Panic", decodes |-> TRUE, number |-> U64Max + 1, reason |-> "other"],
     [selector |-> "FailedOp", decodes |-> FALSE, number |-> 0, reason |-> "AA31"],
     [selector |-> "other", decodes |-> TRUE, number |-> 0, reason |-> "other"]}

\* Every selector, a body that does not decode, a number beyond u64, all reasons.
AllReverts ==
    [selector : Selectors \cup {"short", "other"}, decodes : {TRUE},
     number : {U64Max + 1}, reason : {"other"}]
    \cup [selector : {"FailedOp"}, decodes : {TRUE}, number : {0}, reason : Reasons]
    \cup [selector : {"FailedOp"}, decodes : {FALSE}, number : {0}, reason : {"AA31"}]
=============================================================================
