SPECIFICATION FairSpec
CONSTANTS
  Commands <- MCOneOfEach
  Slow = TRUE
  Hurried = TRUE
  MaxCmd = 3
  MaxFaults = 2
  MaxOther = 2
INVARIANTS StatusTracksLink WokenByNews
PROPERTY CommandEnds
CHECK_DEADLOCK FALSE
