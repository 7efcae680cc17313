CONSTANTS
  Seats = {s1, s2, s3}
  NoSeat = NoSeat
  BreakLength = 2
  Extension = 1
  MaxExtensions = 2
  Unarmed = Unarmed
  NobodyAsked = NobodyAsked
  DealMayEndHand = TRUE
  MaxHands = 2
  MaxTelling = 2
SPECIFICATION FairSpec
INVARIANTS TypeOK BreakIsBounded BreakEndIsAnnounced
PROPERTY BreaksEnd
