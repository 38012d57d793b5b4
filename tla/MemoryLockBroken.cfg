SPECIFICATION Spec
CONSTANTS
  Process = {p1, p2, p3}
  Kind = {"file"}
  Slow = FALSE
  None = None
CHECK_DEADLOCK FALSE
INVARIANTS
  OneFileWriter
