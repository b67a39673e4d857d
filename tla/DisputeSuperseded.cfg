SPECIFICATION Spec
CONSTANTS
  Calls = {c1, c2}
  Ops = {"resolve", "appeal"}
  Arbiters = {"a1", "a2"}
  Evidence = {"e1"}
  Rulings = {"RELEASE", "REFUND"}
  MaxRounds = 1
  MaxFaults = 0
CHECK_DEADLOCK FALSE
PROPERTIES SupersededNeverMoves
