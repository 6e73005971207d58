SPECIFICATION Spec
CONSTANTS
  Locks = {l}
  Touches = {}
  NMax = 1
  Faults = {"down", "forget"}
  MaxFaults = 2
  MaxCommands = 0
INVARIANTS SubscriptionHolds
CHECK_DEADLOCK FALSE
