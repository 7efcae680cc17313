CONSTANTS
  ann = ann
  People = {ann, bob}
  lockedKey = k1
  Keys = {k1, k2}
  Handlers = {h1, h2}
  NoAccount = NoAccount
  KeyHolder <- Holders
  Bonus = 1
  NothingKept = NothingKept
  MaxChips = 1
  MaxAccounts = 3

SPECIFICATION Spec
SYMMETRY AlikeHandlers

INVARIANTS BonusOnce KeyMakesOneAccount
