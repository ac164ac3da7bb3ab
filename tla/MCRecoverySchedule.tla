------------------------- MODULE MCRecoverySchedule -------------------------
(* RecoverySchedule for TLC: the symmetries of its sets of model values.   *)
EXTENDS RecoverySchedule, TLC

Symmetry == Permutations(Controller) \cup Permutations(Task)
=============================================================================
