\* Block is held through an attack.
CONSTANTS
  jab = jab
  rush = rush
  none = none
  Moves = {jab}
  Data <- MCJab
  None = none
  Pads <- JumpPads
  MaxHealth = 2
  MaxMeter = 0
  MaxAirJumps = 0
  PerfectWindow = 1
  GainOnHit = 1
  GainOnPerfect = 1
SPECIFICATION ClaimSpec
INVARIANTS
  PerfectBlocksAreFresh
