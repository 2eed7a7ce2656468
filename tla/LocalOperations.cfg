SPECIFICATION Spec
CONSTANTS
  N = 6
  Parent <- MCParent
  Folders = {1, 3}
  Links = {6}
  Later = {5}
  Jobs = {"create", "rename", "delete", "link", "copy", "move"}
INVARIANTS MoveKeepsData ReportIsTrue ExistingKept FailureUndone
