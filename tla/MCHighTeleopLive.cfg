SPECIFICATION FairSpec
CONSTANTS
  Program = "py"
  Key = {1, 6, 9}
  IndexRange = 2
PROPERTIES
  HeldPressAnswered
