---------------------------- MODULE MCBossFight ----------------------------
(* BossFight over the moves and inputs of MCCombatEngine.                  *)
EXTENDS BossFight, MCCombatEngine

(* The strike is blockable, the super is not. *)
MCBossMoves == [p \in Purposes |-> IF p \in {"punish", "strike"} THEN {jab} ELSE {rush} \cap Moves]
=============================================================================
