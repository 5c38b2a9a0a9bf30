\* The boss brain against a player with every input, with a fair game loop.
CONSTANTS
  jab = jab
  rush = rush
  none = none
  Moves = {jab, rush}
  Data <- MCData
  None = none
  Pads <- JumpPads
  BossMoves <- MCBossMoves
  ReactionFrames = 1
  PassiveBlock = 2
  MaxHealth = 2
  MaxMeter = 2
  MaxAirJumps = 1
  PerfectWindow = 0
  GainOnHit = 1
  GainOnPerfect = 1
SPECIFICATION FairBossSpec
INVARIANTS
  RoundIsDecided
  PosesRunOut
PROPERTIES
  NoActionWhileStunned
  AirJumpsAreFresh
  HeldInputIsFresh
  LocksEnd
  BossKeepsDeciding
