SPECIFICATION HungSpec
CONSTANTS
  Job = {j1, j2}
  Registered = {j1}
  Expression = {1, 2}
  Outcome = {"success"}
  StaleAfter = 1
  MaxHistory = 2
  MaxMinute = 2
  MaxRequests = 0
  MaxFaults = 0
  None = None
CHECK_DEADLOCK FALSE
PROPERTIES
  WedgedJobHeals
