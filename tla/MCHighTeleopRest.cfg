SPECIFICATION RestSpec
CONSTANTS
  Program = "py"
  Key = {1, 2, 5, 6}
  IndexRange = 2
INVARIANTS
  AnsweredInTime
  OnlyRunRepeats
