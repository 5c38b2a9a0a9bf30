---------------------------- MODULE MCRankedMatch ----------------------------
(* A short match and a one-axis fixture for checking RankedMatch with bytes  *)
(* of two bits: three buttons take two bytes and leave one padding bit, an   *)
(* axis is -8..7.                                                            *)
EXTENDS RankedMatch

MCRprSchema == [buttons |-> <<"left", "right", "block">>, axes |-> <<>>]
MCAnalogSchema == [buttons |-> <<"finish">>, axes |-> <<"steer">>]

(* Both directions at once cancel; a missing button is neutral. *)
MCRprFrames ==
  {[buttons |-> [b \in {"left", "right", "block"} |-> b \in on], axes |-> <<>>] :
     on \in {{}, {"left"}, {"right"}, {"left", "right"}, {"right", "block"}}}
    \cup {[buttons |-> [b \in {"right"} |-> TRUE], axes |-> <<>>]}

(* Beyond the end of the axis, a half that rounds up, off the grid. *)
MCAnalogFrames ==
  {[buttons |-> [b \in {"finish"} |-> on], axes |-> [x \in {"steer"} |-> raw]] :
     on \in BOOLEAN, raw \in {-20, -3, 0, 5}}
    \cup {[buttons |-> [b \in {"finish"} |-> FALSE], axes |-> <<>>]}

MCRawFrames == [g \in Games |-> IF g = "rpr" THEN MCRprFrames ELSE MCAnalogFrames]

(* Advancing hits the opponent unless blocking, retreating costs health. *)
MCStart == [frame |-> 0, player |-> 1, cpu |-> 2]

MCOver(m) == m.player = 0 \/ m.cpu = 0

MCAdvance(m, input) ==
  IF MCOver(m) THEN m
  ELSE [frame |-> m.frame + 1,
        player |-> IF input.horizontal = -1 THEN m.player - 1 ELSE m.player,
        cpu |-> IF input.horizontal = 1 /\ input.acts = {} THEN m.cpu - 1 ELSE m.cpu]
=============================================================================
