SPECIFICATION HeldFairSpec
CONSTANTS
  StandDuration = 2
  Decimation = 2
  StackSize = 1
INVARIANTS
  RampsInTime
  InfersInTime
PROPERTIES
  HeldButtonsSettle
  RampCompletes
  PolicyKeepsInferring
\* LoadThrows ends the program
CHECK_DEADLOCK FALSE
