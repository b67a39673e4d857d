SPECIFICATION ResponsiveSpec
CONSTANTS
  Requests = {c1}
  Jobs = {j1}
  Handlers = {"initiate", "sign", "dispute", "resolve"}
  Kinds = {"refund"}
  Panel <- OneArbiter
  MULTISIG = TRUE
  requireDualApprovalForRelease = FALSE
  enforceCapabilities = FALSE
  Overlap = FALSE
  Rejects = TRUE
  MaxRows = 2
  MaxFaults = 0
CHECK_DEADLOCK FALSE
PROPERTIES
  DisputeDecided
