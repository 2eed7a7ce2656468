SPECIFICATION Spec
CONSTANTS
  N = 6
  Parent <- MCParent
  Folders = {1, 3}
  Links = {6}
  Later = {5}
  Jobs = {"move"}
INVARIANT UndoKeepsData
