SPECIFICATION FairSpec
CONSTANTS
  Commands <- Scaled
  Relock <- Lock
  AddSesame <- Added
  News <- ScaledNews
  SegSize = 4
  TagLen = 1
  BufSize = 12
  KeySize = 8
  Prefix = 2
  MaxCmd = 2
  MaxNews = 1
  MaxSessions = 3
  MaxLost = 1
INVARIANTS Understood NonceOnce InStep
PROPERTY LogsIn
CHECK_DEADLOCK FALSE
