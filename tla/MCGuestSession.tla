--------------------------- MODULE MCGuestSession ---------------------------
(* GuestSession for TLC: handlers are interchangeable.                     *)
EXTENDS GuestSession, TLC

Symmetry == Permutations(Handlers)
=============================================================================
