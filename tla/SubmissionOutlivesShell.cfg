\* destroy() while a completed game is torn down.
CONSTANTS
  duel = duel
  flight = flight
  Games = {duel, flight}
  Ranked = {duel}
  MaxOps = 2
  MaxWaiters = 2
  LoadOutcomes = {"ok", "error"}
  ReadyOutcomes = {"ok", "error"}
SPECIFICATION Spec
INVARIANTS
  DestroyedReleasesAll
CHECK_DEADLOCK FALSE
