------------------------------ MODULE MCPolicy ------------------------------
(* Policy for TLC: chains and addresses are interchangeable. *)
EXTENDS Policy, TLC

Symmetry == Permutations(ChainIds) \cup Permutations(Addresses)
=============================================================================
