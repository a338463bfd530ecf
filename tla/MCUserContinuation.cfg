CONSTANTS MaxInputs = 2 MaxInstances = 6 MaxRestores = 4 MaxLoops = 3
          Guards = {"armed", "blind"} Scenarios <- MCScenarios
SPECIFICATION FairSpec
INVARIANT TypeOK 
PROPERTY MessagesSettle
CHECK_DEADLOCK FALSE
