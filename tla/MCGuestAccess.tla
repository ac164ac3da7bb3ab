---------------------------- MODULE MCGuestAccess ----------------------------
(* GuestAccess for TLC: the symmetries of its sets of model values.        *)
EXTENDS GuestInvariant, Promises, TLC

Symmetry ==
  Permutations(Gen) \cup Permutations(GuestHandlers)
    \cup Permutations(PresenterHandlers) \cup Permutations(RecoveryWorkers)
=============================================================================
