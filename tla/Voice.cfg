CONSTANTS
  Browsers = {ann, bob}
  MaxIds = 3
  MaxDepartures = 1
  ComesBack = FALSE
  MaxToggles = 2
SPECIFICATION FairSpec
CHECK_DEADLOCK FALSE
INVARIANT StableMeansAgreed
PROPERTY ImpoliteIsHeard
