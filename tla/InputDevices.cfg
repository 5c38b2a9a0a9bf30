SPECIFICATION Spec
CONSTANTS
  AxisOne = 8
  Deadzone = 3
  Width = 8
  Height = 4
  Nobody = Nobody
  f1 = f1
  f2 = f2
  Pointers = {f1, f2}
  Points <- MCPoints
  ButtonZones <- MCButtonZones
  StickZone <- MCStickZone
  DragZones <- MCDragZones
  Keys <- MCKeys
  KeyOf <- MCKeyOf
  AxisKeys <- MCAxisKeys
  PadButtonsOf <- MCPadButtonsOf
  SticksOf <- MCSticksOf
  PadAxisOf <- MCPadAxisOf
  PadLists <- MCPadLists
INVARIANTS
  FingersBackInputs
  IdleHandsReadNeutral
  AnalogFollowsItsFinger
