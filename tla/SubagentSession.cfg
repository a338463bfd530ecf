CONSTANTS
  Children = {c1}
  MaxTimers = 2
SPECIFICATION FairSpec
INVARIANTS TypeOK ClaimOutlivesRun DoneMeansCleanedUp CompletedMeansEnded
PROPERTIES ForcedStatusSticks StaleSettlementInert 
CHECK_DEADLOCK FALSE
