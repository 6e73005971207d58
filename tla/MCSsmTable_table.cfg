SPECIFICATION Spec
CONSTANTS
  lockA = lockA
  touch = touch
  camera = camera
  None = None
  Device = {lockA, touch, camera}
  ProductType <- MCProductType
  SSM_MAX_NUM = 3
  MaxConn = 2
  CntCap = 2
  WeakKey = {2}
  MaxKey = 3
  MaxUp = 1
  MaxFaults = 1
INVARIANTS
  TableSound
  InBounds
  NeverDeaf
PROPERTIES
  RegistrySpec
CHECK_DEADLOCK FALSE
