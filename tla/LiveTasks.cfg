CONSTANTS
  Hosts = {w1, w2}
  Tasks = {t1}
  Stale = 1
  MaxQueue = 1
  MaxFails = 1
  None = None
SPECIFICATION LiveSpec
INVARIANTS ListedWasRunning
PROPERTIES FileCatchesUp
