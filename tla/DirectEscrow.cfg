SPECIFICATION Spec
CONSTANTS
  Requests = {r1, r2}
  failureThreshold = 1
  requireDualApprovalForRelease = FALSE
  Approvers = {}
  reconcilerRuns = FALSE
  MaxFaults = 1
SYMMETRY SlotSymmetry
INVARIANTS
  SoleDisposition
  AckedIsFinal
  AnnouncedIsTrue
  ObligationMatchesMoney
CHECK_DEADLOCK FALSE
