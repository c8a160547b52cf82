----------------------------- MODULE MCLRUStore -----------------------------
(* Small instance of LRUStore for TLC. *)
EXTENDS LRUStore

Symmetry == Permutations(Key) \cup Permutations(Value) \cup Permutations(Cell)

=============================================================================
