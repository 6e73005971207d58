SPECIFICATION FairSpec
CONSTANTS
  Conns = {1, 2, 3}
  Databases <- Regular
  MaxPeers = 2
  MaxSvcs = 4
  MaxChrs = 4
  MaxDscs = 3
  MaxLinks = 3
  MaxFaults = 1
INVARIANTS PoolsConserved ReportedOnce WholeDatabase NotifyReaches
PROPERTIES DiscoveryEnds FailureCloses
CHECK_DEADLOCK FALSE
