-------------------------- MODULE MCRunOrchestrator --------------------------
(* Finite instances of RunOrchestrator for TLC. *)
EXTENDS RunOrchestrator
=============================================================================
