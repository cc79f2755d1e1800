SPECIFICATION Spec
CONSTANTS
  StandDuration = 2
  Decimation = 2
  StackSize = 1
PROPERTY
  Stand2LieGoesToLie
\* LoadThrows ends the program
CHECK_DEADLOCK FALSE
