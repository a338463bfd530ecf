CONSTANTS MaxRows = 6 MaxInstances = 2 MaxOps = 1
          Scenarios <- MCScenarios
SPECIFICATION FairSpec
INVARIANT TypeOK RowsAreKept  GoneStaysGone
PROPERTY  StopEnds
CHECK_DEADLOCK FALSE
