SPECIFICATION Spec
CONSTANTS
  StackSize = 2
  Clip = 18000
  Stick <- MCStick
  Sine <- MCSine
  Velocity <- MCVelocity
  Output <- MCOutput
  NaN <- MCNaN
INVARIANT
  CommandInRange
