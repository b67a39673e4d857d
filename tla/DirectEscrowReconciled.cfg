SPECIFICATION Spec
CONSTANTS
  Requests = {r1, r2}
  failureThreshold = 1
  requireDualApprovalForRelease = TRUE
  Approvers = {"buyer", "seller"}
  reconcilerRuns = TRUE
  MaxFaults = 0
SYMMETRY SlotSymmetry
INVARIANTS
  AnnouncedOnce
  CompletedUnderControl
PROPERTIES
  ImplementsLifecycle
CHECK_DEADLOCK FALSE
