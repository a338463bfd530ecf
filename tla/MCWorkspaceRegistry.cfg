CONSTANTS
  w1 = w1  w2 = w2
  p1 = p1  p2 = p2
  c1 = c1  c2 = c2  c3 = c3
  Windows = {w1, w2}
  Names = {n1, n2}
  Parents = {p1, p2}
  Agents = {c1, c2, c3}
  Home <- MCHome
  Parent <- MCParent
  Nobody = nobody
SPECIFICATION Spec
INVARIANTS TypeOK ExclusiveClaim
PROPERTIES OthersLeaveClaimAlone ContinuedKeepsClaims
CHECK_DEADLOCK FALSE
