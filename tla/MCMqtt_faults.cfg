SPECIFICATION HostSpec
CONSTANTS
  Locks = {}
  Touches = {t}
  NMax = 1
  Faults = {"down", "reboot", "forget"}
  MaxFaults = 1
  MaxCommands = 1
INVARIANTS DoneIsAnnounced NoCommandFromBefore
PROPERTIES PassEnds Announced
CHECK_DEADLOCK FALSE
