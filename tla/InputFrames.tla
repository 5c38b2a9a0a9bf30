---------------------------- MODULE InputFrames ----------------------------
(* What the input sources of packages/controls report, as frames, and how    *)
(* frames are reduced: mergeFrames, the gamepad and keyboard binding tables, *)
(* and the touch adapter of Rug Pull Rumble.  Pure operators.                *)
(*                                                                           *)
(* A frame is [buttons |-> the asserted names, axes |-> a function from axis *)
(* names to integers].  An axis value is in units of 1/AxisOne.              *)
EXTENDS Integers, Sequences

CONSTANTS
    AxisOne,        \* the integer that stands for the axis value 1
    KeyOf,          \* KeyboardSource bindings: button -> key
    AxisKeys,       \* digital axes: axis -> [negative: key, positive: key]
    PadButtonsOf,   \* gamepad bindings: button -> names of pad buttons
    SticksOf,       \* gamepad bindings: button -> set of <<pad axis, sign>>
    PadAxisOf,      \* gamepad analog bindings: axis -> pad axis
    Deadzone        \* the gamepad deadzone, in units of 1/AxisOne

ASSUME AxisOneAssumption == AxisOne \in Nat \ {0}

Magnitude(n) == IF n < 0 THEN -n ELSE n

ClampAxis(n) == IF n > AxisOne THEN AxisOne ELSE IF n < -AxisOne THEN -AxisOne ELSE n

(* An offset into an extent, mapped to -1..1 and clamped. *)
Normalized(offset, extent) == ClampAxis(((2 * offset - extent) * AxisOne) \div extent)

AxisIn(frame, axis) == IF axis \in DOMAIN frame.axes THEN frame.axes[axis] ELSE 0

(* The strongest deflection of an axis; of equals, the first source's. *)
Strongest(frames, axis) ==
    LET value(i) == AxisIn(frames[i], axis)
        winner == CHOOSE i \in DOMAIN frames :
                    /\ \A j \in DOMAIN frames : Magnitude(value(j)) <= Magnitude(value(i))
                    /\ \A j \in 1..(i - 1) : Magnitude(value(j)) < Magnitude(value(i))
    IN  value(winner)

(* mergeFrames: a button is asserted by any source. *)
Merged(frames) ==
    [buttons |-> UNION {frames[i].buttons : i \in DOMAIN frames},
     axes |-> [axis \in UNION {DOMAIN frames[i].axes : i \in DOMAIN frames} |->
                 Strongest(frames, axis)]]

(* KeyboardSource.read *)
KeyboardFrame(held) ==
    [buttons |-> {b \in DOMAIN KeyOf : KeyOf[b] \in held},
     axes |-> [axis \in DOMAIN AxisKeys |->
                 AxisOne * ((IF AxisKeys[axis].positive \in held THEN 1 ELSE 0)
                            - (IF AxisKeys[axis].negative \in held THEN 1 ELSE 0))]]

(* GamepadSource.isButtonActive: a digital button by its pressed flag, a     *)
(* pressure button by its value, a stick direction beyond the deadzone.      *)
PressureButtons == {"l2", "r2"}

PadButtonActive(pad, name) ==
    IF name \in PressureButtons THEN name \in pad.squeezed ELSE name \in pad.pressed

StickActive(pad, axis, sign) == sign * pad.axes[axis] > Deadzone

(* GamepadSource.read: pads is the list navigator.getGamepads() returns, with *)
(* {} in its holes; the first pad present is the one that is read.            *)
PadFrame(pads) ==
    LET present == {i \in DOMAIN pads : pads[i] # {}}
        pad == CHOOSE p \in pads[CHOOSE i \in present : \A j \in present : i <= j] : TRUE
    IN  IF present = {}
        THEN [buttons |-> {}, axes |-> [axis \in DOMAIN PadAxisOf |-> 0]]
        ELSE [buttons |-> {b \in DOMAIN PadButtonsOf :
                             \/ \E name \in PadButtonsOf[b] : PadButtonActive(pad, name)
                             \/ \E s \in SticksOf[b] : StickActive(pad, s[1], s[2])},
              axes |-> [axis \in DOMAIN PadAxisOf |->
                          LET raw == pad.axes[PadAxisOf[axis]]
                          IN  IF Magnitude(raw) < Deadzone THEN 0 ELSE raw]]

(* A stick that travelled by d along one axis, of a travel whose squared     *)
(* length is dist2, deflects that axis by d / max(dist, r).  Beyond says     *)
(* that this is over the touch deadzone of 0.35.                             *)
Larger(m, n) == IF m > n THEN m ELSE n

Beyond(d, dist2, r) == d > 0 /\ 10000 * d * d > 1225 * Larger(dist2, r * r)

(* adaptTouchFrame: the stick gives the directions, and while it is down the *)
(* two attack buttons give the low attacks.                                  *)
AdaptTouch(pressed, travel, r) ==
    LET dist2 == travel[1] * travel[1] + travel[2] * travel[2]
        low == Beyond(travel[2], dist2, r)
        direction == {d \in {"left", "right", "up", "down"} :
                        CASE d = "left"  -> Beyond(-travel[1], dist2, r)
                          [] d = "right" -> Beyond(travel[1], dist2, r)
                          [] d = "up"    -> Beyond(-travel[2], dist2, r)
                          [] d = "down"  -> low}
        attack == {IF low THEN "lightLow" ELSE "lightHigh" : a \in pressed \cap {"light"}}
                    \cup {IF low THEN "heavyLow" ELSE "heavyHigh" : a \in pressed \cap {"heavy"}}
    IN  [buttons |-> direction \cup attack \cup (pressed \cap {"block", "special", "super"}),
         axes |-> <<>>]
=============================================================================
