SPECIFICATION Spec
CONSTANTS
  Run = {m1, m2, m3}
  MaxLeases = 3
  MaxRestarts = 2
CHECK_DEADLOCK FALSE
SYMMETRY Symmetry
INVARIANTS
  OneWriter WriterOwnsLease
PROPERTIES
  QuarantineSticks

