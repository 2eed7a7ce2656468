SPECIFICATION Spec
CONSTANTS
  N = 5
  Parent <- MCParent
  Folders = {1, 3}
  Unlisted = {3, 4}
  Later = {5}
  Chunks = 2
  Jobs <- AllJobs
INVARIANTS MoveKeepsData ReportIsTrue CleanedUp
PROPERTIES ForeignKept
