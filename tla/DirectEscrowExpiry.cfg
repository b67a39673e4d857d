SPECIFICATION FairSpec
CONSTANTS
  Requests = {r1, r2}
  failureThreshold = 1
  requireDualApprovalForRelease = FALSE
  Approvers = {}
  reconcilerRuns = FALSE
  MaxFaults = 0
PROPERTIES
  ExpiryDisposes
CHECK_DEADLOCK FALSE
