SPECIFICATION FairSpec
CONSTANTS
  Calls = {c1, c2}
  Ops = {"evidence", "contest", "resolve", "appeal"}
  Arbiters = {"a1", "a2"}
  Evidence = {"e1"}
  Rulings = {"RELEASE", "REFUND"}
  MaxRounds = 1
  MaxFaults = 1
CHECK_DEADLOCK FALSE
INVARIANTS ResolvedIsExecuted SlashIsEarned FeeIsJust
PROPERTIES ProposalEnds
