--------------------------- MODULE MCInputDevices ---------------------------
(* Two fingers over a layer of 8 by 4 pixels with a stick in the left half,  *)
(* the overlapping circles of two buttons and a drag zone in the right half; *)
(* two keys, and a gamepad that may be absent, drift, or press and tilt.     *)
EXTENDS InputDevices

CONSTANTS f1, f2

MCPoints == {<<1, 2>>, <<3, 2>>, <<3, 4>>, <<6, 2>>, <<5, 4>>, <<9, 2>>}
MCButtonZones == <<[action |-> "light", anchor |-> "right", x |-> 2, y |-> 2, r |-> 1],
                   [action |-> "block", anchor |-> "right", x |-> 3, y |-> 2, r |-> 1]>>
MCStickZone == {[anchor |-> "left", r |-> 2]}
MCDragZones == <<[region |-> "right"]>>
MCKeyOf == [lightHigh |-> "KeyA"]
MCAxisKeys == [steer |-> [negative |-> "ArrowLeft", positive |-> "KeyA"]]
MCPadButtonsOf == [left |-> {"left"}, super |-> {"r2"}]
MCSticksOf == [left |-> {<<"leftX", -1>>}, super |-> {}]
MCPadAxisOf == <<>>
MCKeys == {"KeyA", "ArrowLeft"}
Pad(pressed, squeezed, x) == {[pressed |-> pressed, squeezed |-> squeezed, axes |-> [leftX |-> x]]}
MCPadLists == {<<>>, <<{}, Pad({"r2"}, {}, 2)>>, <<Pad({}, {"r2"}, -8)>>}
=============================================================================
