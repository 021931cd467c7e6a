--------------------------- MODULE MCWriteAtomic ----------------------------
(* WriteAtomic for TLC: writers, blobs and inodes are interchangeable. *)
EXTENDS WriteAtomic, TLC

Symmetry == Permutations(Writers) \cup Permutations(Blobs) \cup Permutations(Inodes)
=============================================================================
