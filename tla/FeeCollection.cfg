SPECIFICATION FairSpec
CONSTANTS
  Settlers = {s}
  Confirmers = {c1, c2}
  Reorgers = {r}
  Allocators = {o}
  Reversers = {o}
  Policies = {"p1"}
  Payees <- MCPayees
  Required = 1
  Window = 3
  MaxTip = 4
  MaxDepth = 2
  MaxReorgs = 1
  MaxFaults = 1
CHECK_DEADLOCK FALSE
INVARIANTS EntitlementIsBackedOrReported ConfirmedOnce AllocatedAsFrozen
PROPERTIES FeeIsCollected ReorgIsNoticed
