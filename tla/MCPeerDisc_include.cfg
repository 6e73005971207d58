SPECIFICATION FairSpec
CONSTANTS
  Conns = {1}
  Databases <- Extended
  MaxPeers = 8
  MaxSvcs = 64
  MaxChrs = 64
  MaxDscs = 64
  MaxLinks = 1
  MaxFaults = 0
PROPERTY DiscoveryEnds
CHECK_DEADLOCK FALSE
