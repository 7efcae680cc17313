CONSTANTS
  Players = {ann, bob}
  Seats = {s1, s2}
  Nobody = Nobody
  Handlers = {h1, h2}
  OpeningBalance = 1
  StartingChips = 2
  RebuySize = 1
  NeverLeft = NeverLeft
  MaxRequests = 3

SPECIFICATION Spec
SYMMETRY AlikeAll
CHECK_DEADLOCK FALSE

INVARIANTS LedgerExplains
PROPERTIES ImplementsBank
