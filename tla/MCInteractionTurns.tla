------------------------- MODULE MCInteractionTurns -------------------------
(***************************************************************************)
(* Small instances of InteractionTurns: one task card, or two.             *)
(***************************************************************************)
EXTENDS InteractionTurns, TLC

OneAsk == {<<"close", 1>>}
TwoAsks == {<<"close", 1>>, <<"reopen", 2>>}
Symmetry == Permutations(Turns)
=============================================================================
