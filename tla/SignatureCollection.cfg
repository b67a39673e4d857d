SPECIFICATION Spec
CONSTANTS
  Requests = {c1, c2}
  Jobs = {}
  Handlers = {"initiate", "sign", "dispute", "resolve", "appeal"}
  Kinds = {"release", "split"}
  Panel <- TwoPanels
  MULTISIG = FALSE
  requireDualApprovalForRelease = FALSE
  enforceCapabilities = FALSE
  Overlap = FALSE
  Rejects = TRUE
  MaxRows = 2
  MaxFaults = 1
CHECK_DEADLOCK FALSE
SYMMETRY RequestSymmetry
INVARIANTS
  AckedIsFinal
  AnnouncedIsTrue
PROPERTIES
  SupersededNeverExecutes
  
