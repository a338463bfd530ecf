CONSTANTS
  Children = {c1, c2}
  Nobody = nobody
  MaxTurns = 3
  MaxCrashes = 1
  MaxFails = 1
SPECIFICATION FairSpec
INVARIANTS TypeOK AtMostOnce
PROPERTIES  ResumeDelivers
CHECK_DEADLOCK FALSE
