\* Every placement on a stage as wide as both fighters twice.
CONSTANTS
  Half <- MCHalf
  Height <- MCHeight
  World = 32
  Ceiling = 8
  Speed = 2
  Fall = 4
SPECIFICATION Spec
INVARIANTS
  OverlapIsBounded
PROPERTIES
  LandingsArePartedNext
  SidesAreKept
  FightersFaceEachOther
CHECK_DEADLOCK FALSE
