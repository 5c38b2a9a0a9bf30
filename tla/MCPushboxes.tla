---------------------------- MODULE MCPushboxes ----------------------------
(* The grid on which TLC checks Pushboxes: boxes whose difference is, as    *)
(* in the game, more than a step, on a stage two pairs of fighters wide.    *)
EXTENDS Pushboxes, TLC

MCHalf == [player |-> 6, cpu |-> 10]
MCHeight == [player |-> 4, cpu |-> 6]
=============================================================================
