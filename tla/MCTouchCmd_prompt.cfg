SPECIFICATION FairSpec
CONSTANTS
  Commands <- MCCommands
  Slow = FALSE
  Hurried = FALSE
  MaxCmd = 4
  MaxFaults = 0
  MaxOther = 0
INVARIANT ModesAgree
PROPERTIES TouchSleeps WakeSucceeds 
CHECK_DEADLOCK FALSE
