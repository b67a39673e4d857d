SPECIFICATION FairSpec
CONSTANTS
  Trades = {t1}
  Instances = {i1}
  Calls = {"create", "trade", "cancel"}
  MaxOverlap = 2
  MaxRulings = 1
  MaxFaults = 1
CHECK_DEADLOCK FALSE
INVARIANTS
  AuditOnce
  AuditComplete
  ClaimsAreBacked
  PenaltyNeedsRuling
  
PROPERTIES
  SettlementIsProjected
