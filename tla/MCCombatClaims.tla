--------------------------- MODULE MCCombatClaims ---------------------------
(* CombatClaims over the moves and inputs of MCCombatEngine.               *)
EXTENDS CombatClaims, MCCombatEngine
=============================================================================
