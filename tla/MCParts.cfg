SPECIFICATION PartsSpec
CONSTANTS
  Devices = {d1, d2}
  Signals <- MCSignals
  Positions = {15, 100}
  StrayDigits = {0}
  Unset = Unset
  MaxQueued = 1
  MaxWire = 1
INVARIANTS ShownOrChanged LockFollowsCommands
PROPERTIES GoneIsShown StationRecovers
