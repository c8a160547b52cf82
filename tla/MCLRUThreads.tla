---------------------------- MODULE MCLRUThreads ----------------------------
(* A small instance of LRUThreads for TLC, with one cell more than the list  *)
(* can fill, so that pushes never want for one.                              *)
EXTENDS LRUThreads, TLC

ASSUME EnoughCells == Cardinality(Cell) >= capacity + Cardinality(Thread)

Symmetry == Permutations(Thread) \cup Permutations(Key) \cup Permutations(Cell)

=============================================================================
