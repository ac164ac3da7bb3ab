------------------------------ MODULE MCKVStore ------------------------------
(* KVStore for TLC: the symmetries of its sets of model values.            *)
EXTENDS KVStore, TLC

Symmetry == Permutations(Client) \cup Permutations(Key) \cup Permutations(Value)
=============================================================================
