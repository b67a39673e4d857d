SPECIFICATION Spec
CONSTANTS
  Scopes = {"offer", "trade"}
  Calls = {c1, c2}
  Names = {k1}
  NoName = NoName
  Payloads = {"p1", "p2"}
  LostTradeAcks = FALSE
  MaxRows = 3
SYMMETRY CallSymmetry
CONSTRAINT OneScope
INVARIANTS OneOfferPerKey  AnswersAgree AnnouncedOnce
PROPERTY SettledStays
