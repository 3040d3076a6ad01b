------------------------- MODULE MCRemarkLifecycle -------------------------
(* Finite instances of RemarkLifecycle, and of the card and the turns over *)
(* it, for TLC.                                                            *)
EXTENDS RemarkTurns, TLC

(* Callers and keys are interchangeable.                                   *)
Symmetry == Permutations(Caller) \cup Permutations(Key)
=============================================================================
