CONSTANTS
    Value = {"x", "y"}
    MaxSequence = 4
    None = None
    Torn = Torn
    Corrupt = Corrupt
SPECIFICATION Spec
INVARIANTS
  AcknowledgedLoadable ListSound
PROPERTIES
  RefinesAtomicRecord

