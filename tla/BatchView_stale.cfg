SPECIFICATION ViewFairSpec
CONSTANTS
  Payments = {p1}
  MaxMounts = 1
  MaxQueries = 0
  Faults = {}
  MaxFaults = 0
  Denials = {FALSE}
CHECK_DEADLOCK FALSE
PROPERTY
  CompletedViewIsStored
