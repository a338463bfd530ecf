CONSTANTS MaxInputs = 2 MaxInstances = 4 MaxRestores = 2 MaxLoops = 3
          Guards = {"armed"} Scenarios <- MCFaultless
SPECIFICATION Spec
INVARIANT OneLoop
CHECK_DEADLOCK FALSE
