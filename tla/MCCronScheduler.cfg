SPECIFICATION FairSpec
CONSTANTS
  Job = {j1, j2}
  Registered = {j1}
  Expression = {1, 2}
  Outcome = {"success"}
  StaleAfter = 1
  MaxHistory = 2
  MaxMinute = 2
  MaxRequests = 2
  MaxFaults = 1
  None = None
CHECK_DEADLOCK FALSE
INVARIANTS
  StartsOnce ClaimsKept StopClosesRuns NoSlotSkipped
PROPERTIES
  DueJobTaken

