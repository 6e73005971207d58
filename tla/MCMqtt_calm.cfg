SPECIFICATION Spec
CONSTANTS
  Locks = {l}
  Touches = {t}
  NMax = 2
  Faults = {}
  MaxFaults = 0
  MaxCommands = 1
INVARIANTS NoOldCommand EntitiesObeyed 
CHECK_DEADLOCK FALSE
