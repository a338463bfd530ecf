CONSTANTS
  Children = {c1}
  Nobody = nobody
  MaxTurns = 2
  MaxCrashes = 1
  MaxFails = 0
SPECIFICATION Spec
INVARIANTS DeliveredIsInHistory
CHECK_DEADLOCK FALSE
