SPECIFICATION FairSpec
CONSTANTS
  MaxPrompts = 2
  Kind = {"text", "images", "direct"}
  MaxFaults = 2
  None = None
CHECK_DEADLOCK FALSE
INVARIANTS
  DurableAck DraftOwned ReservationHonoured ApprovedOnce
PROPERTIES
  HistoryFenced CancelFrees

