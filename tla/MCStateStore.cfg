CONSTANTS
  w1 = w1  w2 = w2  k1 = k1  k2 = k2  c1 = c1  c2 = c2  c3 = c3
  Windows = {w1, w2}  Keys = {k1, k2}  Calls = {c1, c2, c3}  Legacy = {k1}
  Key <- MCKey  Window <- MCWindow  Imported = Imported  Nobody = Nobody
  MaxCrashes = 1  MaxFaults = 1
SPECIFICATION FairSpec
INVARIANT TypeOK
PROPERTY ImplementsSharedState CallsEnd
CHECK_DEADLOCK FALSE
