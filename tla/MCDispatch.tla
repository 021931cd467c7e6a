----------------------------- MODULE MCDispatch -----------------------------
(* Two data directories of which the second may lie in the first, beside it *)
(* or be the same, and a name that may lead into either or beside both.     *)
EXTENDS Dispatch, TLC

CONSTANTS Home, Inner, Aside, InnerName, HomeName

MCBases == {HomeName, InnerName}

MCPlaces == {Home, Inner, Aside}

MCUnder == Home :> {Home, Inner} @@ Inner :> {Inner} @@ Aside :> {Aside}

MCInit == Init /\ leads[HomeName] = Home

MCSpec == MCInit /\ [][Next]_vars /\ Fairness
=============================================================================
