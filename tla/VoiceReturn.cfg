CONSTANTS
  Browsers = {ann, bob}
  MaxIds = 3
  MaxDepartures = 1
  ComesBack = TRUE
  MaxToggles = 1
SPECIFICATION Spec
CHECK_DEADLOCK FALSE
INVARIANT ReceiveReady
