------------------------------ MODULE MCProcess ------------------------------
(***************************************************************************)
(* Small instances of Process: one restart, so that requests of two lives  *)
(* of the process and sends left over from the first meet at the node.     *)
(***************************************************************************)
EXTENDS Process
=============================================================================
