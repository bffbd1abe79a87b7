-------------------------- MODULE MCHandoverHistory --------------------------
(***************************************************************************)
(* The instances of MCHandover with the memory of the last decision.       *)
(***************************************************************************)
EXTENDS MCHandover, HandoverHistory
=============================================================================
