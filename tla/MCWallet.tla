------------------------------ MODULE MCWallet ------------------------------
(* Wallet for TLC: keys, passphrases and callers are interchangeable. *)
EXTENDS Wallet, TLC

TwoOfThree == {<<2, 3>>}

TwoOfTwoOrThree == {<<2, 2>>, <<2, 3>>}

Symmetry == Permutations(Keys) \cup Permutations(Callers)
=============================================================================
