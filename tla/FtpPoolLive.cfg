CONSTANTS
  Workers = {w1, w2}
  Keeper = keeper
  Closer = closer
  Sessions = {s1, s2}
  NoSession = none
  MaxSessions = 2
  Kinds = {"upload"}
SPECIFICATION FairSpec
PROPERTIES LeaseReturns ClosedEnds
