SPECIFICATION FairSpec
CONSTANTS
  Calls = {c1, c2}
  Operations = {"LOCK"}
  Amounts = {a1, a2}
  MaxAttempts = 3
INVARIANTS OneLiveTransfer ReturnedIsMined OneAmount
PROPERTIES ImplementsRail RetryReconciles
CHECK_DEADLOCK FALSE
