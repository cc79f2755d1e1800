SPECIFICATION Spec
CONSTANT Lookups <- MCLookups
INVARIANTS
  EveryJointCommanded
  EachMotorOnce
  IdsAgree
  PolicySeesWhatItDrives
  WalkMeetsStand
