SPECIFICATION Spec
CONSTANTS
  Program = "cpp"
  Key = {1, 2, 6}
  IndexRange = 3
INVARIANTS
  OneCommandPerPress
  CommandWasOnKeys
  IndInv
