SPECIFICATION FairSpec
CONSTANTS
  Process = {p1, p2, p3}
  Kind = {"dir", "file"}
  Slow = TRUE
  None = None
CHECK_DEADLOCK FALSE
INVARIANTS
  DirExclusive
PROPERTIES
  AbandonedLockBroken

