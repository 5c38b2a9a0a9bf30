\* A fight of up to three frames and the analog fixture, with one alteration of the evidence.
SPECIFICATION FairSpec
CONSTANTS
  ByteBits = 2
  AxisFine = 2
  RprSchema <- MCRprSchema
  AnalogSchema <- MCAnalogSchema
  MaxFrames = 3
  RawFrames <- MCRawFrames
  Start <- MCStart
  Advance <- MCAdvance
  Over <- MCOver
  StepMs = 2
  MaxSteps = 2
  KoDelay = 3
  FinishFrames = 2
  Deltas = {1, 2, 5}
  Reasons = {"visibility", "orientation"}
  MaxAlterations = 1
INVARIANTS
  TraceIsTheMatch
  CompletionVerifies
  AcceptedEvidenceIsExact
PROPERTIES
  StoppedGameIsStill
  SettledIsReported
\* A reported or aborted run has nothing left to do.
CHECK_DEADLOCK FALSE
