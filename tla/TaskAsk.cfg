CONSTANTS MaxAsks = 3 MaxSays = 1
SPECIFICATION FairSpec
INVARIANT TypeOK PendingIsBlocked 
PROPERTY SupersededEnds
CHECK_DEADLOCK FALSE
