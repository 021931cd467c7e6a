------------------------------- MODULE MCSend -------------------------------
(* Send for TLC: two endpoints of which one is honest, the other the primary. *)
EXTENDS Send, TLC

CONSTANT Mainnet

SecondaryOnly == {2}

ServesMainnet == 2 :> Mainnet
=============================================================================
