\* Two loads of a viewer, every order of clicks, frames and settled promises.
CONSTANTS
  Envelopes <- MCEnvelopes
  Deltas <- MCDeltas
  MaxLoads = 2
  MaxSteps = 2
  Speeds = {1, 2, 8}
SPECIFICATION FairSpec
INVARIANTS
  OnlyTheShownViewerPlays
PROPERTIES
  PlaysToTheEnd
  BackLeaves
CHECK_DEADLOCK FALSE
