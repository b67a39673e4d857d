SPECIFICATION FairSpec
CONSTANTS
  Requests = {c1}
  Jobs = {j1}
  Handlers = {"initiate", "sign", "dispute", "resolve", "expire", "sweep"}
  Kinds = {"release", "refund"}
  Panel <- OneArbiter
  MULTISIG = TRUE
  requireDualApprovalForRelease = TRUE
  enforceCapabilities = TRUE
  Overlap = FALSE
  Rejects = TRUE
  MaxRows = 2
  MaxFaults = 2
CHECK_DEADLOCK FALSE
INVARIANTS
  ExecutedUnderAuthority
  
PROPERTIES
  Converges
