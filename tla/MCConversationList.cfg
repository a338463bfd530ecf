CONSTANTS
  w1 = w1
  w2 = w2
  s1 = s1
  Windows <- MCWindows
  Sessions = {s1}
  Home <- MCHome
  Undefined = Undefined
  MaxClock = 1
  MaxRows = 3
  MaxEvents = 2
SPECIFICATION Spec
INVARIANTS ChangeReachesCommit SavedWhenClean
PROPERTIES SubagentReachesRail
CHECK_DEADLOCK FALSE
