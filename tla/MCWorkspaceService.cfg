CONSTANTS
  w1 = w1  w2 = w2
  p1 = p1  p2 = p2
  c1 = c1
  Windows = {w1, w2}
  Names = {n1}
  Parents = {p1, p2}
  Agents = {c1}
  Home <- MCHome
  Parent <- MCParent
  Nobody = nobody
  Mergers = {p1, p2}
  Managers = {w1, w2}
  Deleters = {w1}
  MaxCommits = 2
SPECIFICATION SvcSpec
INVARIANTS SvcTypeOK MergeOkIsPublished
PROPERTIES MergeRemovesOnlyPublished MergeLeavesForeignClaims
CONSTRAINT Apart
CHECK_DEADLOCK FALSE
