SPECIFICATION Spec
CONSTANTS
  Thread = {t1, t2, t3}
  Value = {v1, v2}
  Object = {o1, o2, o3, o4}
  NoThread = NoThread
  NoValue = NoValue
  Null = Null
SYMMETRY Interchangeable
INVARIANTS
  UsesAreHolders
  CopyFindsData
  IndInv
PROPERTIES
  RefinesLatestValue
