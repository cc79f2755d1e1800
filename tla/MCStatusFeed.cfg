SPECIFICATION FairSpec
CONSTANTS
  Remote = {r1}
  Motor = {m1, m2}
  Imu = {i1, i2}
  MaxStatus = 3
INVARIANTS
  LaterReadsNotOlder
  ReadsAreFresh
  QuietTickIsWhole
  IndInv
PROPERTY
  LastStatusTakesOver
