CONSTANTS
  Users = {ann, bob, cy}
  Seats = {s1, s2}
  Free = Free
  Taken = Taken
  Folded = Folded
  NoOffer = NoOffer
  Off = Off
  OfferTicks = 1
  MaxAsks = 2
  MaxToTell = 2

SPECIFICATION Spec

INVARIANTS LineIsSound
PROPERTIES PlaceKept FreeSeatIsOffered OffersEnd
