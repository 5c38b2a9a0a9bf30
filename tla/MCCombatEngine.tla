--------------------------- MODULE MCCombatEngine ---------------------------
(* The instances of CombatEngine that TLC checks: two moves with every     *)
(* phase, the numbers of the content scaled down.                          *)
EXTENDS CombatEngine, TLC

CONSTANTS jab, rush, none

MCData ==
  (jab :> [startup |-> 1, active |-> 2, recovery |-> 0, damage |-> 1, chip |-> 0,
           hitstun |-> 2, blockstun |-> 2, hitstop |-> 1, onUse |-> 1, onHit |-> 0,
           cost |-> 0, blockable |-> TRUE]) @@
  (rush :> [startup |-> 0, active |-> 1, recovery |-> 1, damage |-> 1, chip |-> 1,
            hitstun |-> 1, blockstun |-> 1, hitstop |-> 0, onUse |-> 0, onHit |-> 0,
            cost |-> 2, blockable |-> FALSE])

(* The blockable one alone. *)
MCJab == [m \in {jab} |-> MCData[m]]

Pad(block, up, press) == [block |-> block, up |-> up, press |-> press]

(* On the ground: block, or press one button. *)
GroundPads == {Pad(FALSE, FALSE, m) : m \in Moves \cup {None}} \cup {Pad(TRUE, FALSE, None)}

(* With jumps, still one thing at a time. *)
JumpPads == GroundPads \cup {Pad(FALSE, TRUE, None)}
=============================================================================
