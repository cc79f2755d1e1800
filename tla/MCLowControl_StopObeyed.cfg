SPECIFICATION Spec
CONSTANTS
  StandDuration = 2
  Decimation = 2
  StackSize = 1
INVARIANT
  StopObeyed
\* LoadThrows ends the program
CHECK_DEADLOCK FALSE
