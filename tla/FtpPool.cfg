CONSTANTS
  Workers = {w1, w2}
  Keeper = keeper
  Closer = closer
  Sessions = {s1, s2, s3}
  NoSession = none
  MaxSessions = 2
  Kinds = {"download", "change"}
SYMMETRY Symmetry
SPECIFICATION Spec
INVARIANTS SlotsAccounted ChangeSentOnce SuccessConfirmed
PROPERTIES PoolPromise
