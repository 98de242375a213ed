CONSTANTS
  Names = {n}
  MaxId = 3
  Handlers = {h1, h2}
  Keys = {1, 2}
  PausedKey = 1
  Values = {on, off}
  Nobody = Nobody
SPECIFICATION Spec
INVARIANTS ListingHolds NeverStoredWhileExcluded SettingsKept
