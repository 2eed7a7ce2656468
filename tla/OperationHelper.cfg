CONSTANT Transfer = TRUE
SPECIFICATION FairSpec
INVARIANTS CancelKept TrueSuccess
PROPERTIES NoLateWork WorkEnds AlwaysAnswers
