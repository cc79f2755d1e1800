SPECIFICATION Spec
CONSTANTS
  StandDuration = 3
  Decimation = 3
  StackSize = 2
INVARIANTS
  HistoryOfThisVisit
  StaleFramesBounded
  NeverUncomputed
  StopObeyedWithoutKey11
  StandsOnlyStarted
  IndInv
PROPERTIES
  StopLatches
  OldPoseNeedsKey11
  RefinesFrameStream
\* LoadThrows ends the program
CHECK_DEADLOCK FALSE
