--------------------------- MODULE MCEventRegister ---------------------------
(* EventRegister for TLC: the symmetries of its sets of model values.      *)
EXTENDS EventRegister, TLC

Symmetry == Permutations(Invitation) \cup Permutations(Handlers)
=============================================================================
