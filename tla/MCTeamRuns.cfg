SPECIFICATION FairSpec
CONSTANTS
    Call = {"one", "two"}
    Setup <- MCSetup
    MaxParallel = 2
    MaxFaults = 2
    MaxLost = 1
INVARIANTS
  SlotsExact EventsMatch OutcomeJustified RecoveryHonest
PROPERTIES
  CallReturns
CHECK_DEADLOCK FALSE
