SPECIFICATION FairSpec
CONSTANTS
  lockA = lockA
  touch = touch
  camera = camera
  None = None
  Device = {lockA}
  ProductType <- MCProductType
  SSM_MAX_NUM = 2
  MaxConn = 2
  CntCap = 2
  WeakKey = {2}
  MaxKey = 6
  MaxUp = 1
  MaxFaults = 5
PROPERTY ScanResumes NewDeviceIsFound LockComesBack
CHECK_DEADLOCK FALSE
