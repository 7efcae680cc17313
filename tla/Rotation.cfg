CONSTANTS
  MaxSeats = 5
  NoSeat = NoSeat
SPECIFICATION RotationSpec
PROPERTIES BlindsGoRound BigBlindThenSmall DrawWinnerHasButton
