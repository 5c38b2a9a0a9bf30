\* Up to three operations over a ranked and an unranked game, with fair scheduling.
CONSTANTS
  duel = duel
  flight = flight
  Games = {duel, flight}
  Ranked = {duel}
  MaxOps = 3
  MaxWaiters = 3
  LoadOutcomes = {"ok", "error", "abort"}
  ReadyOutcomes = {"ok", "error", "abort"}
SPECIFICATION FairSpec
INVARIANTS
  NoTransitionThrows
  LiveGameIsCurrent
  ScreenShowsState
  GatesAreApplied
  ResultsAreEarned
PROPERTIES
  LaunchSettles
CHECK_DEADLOCK FALSE
