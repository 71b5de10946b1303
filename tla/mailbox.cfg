SPECIFICATION FairSpec
CONSTANTS
  NAMES = {alice, bob}
  ALLOWED = {alice, bob}
  LEASED = bob
  KEYS = {1, 2}
  NoName = NoName
  Rival = Rival
  MaxBoxes = 2
  MaxCalls = 2
  MaxEvents = 2
INVARIANTS
  ShownIsOwned
  OfflineIsFinal
PROPERTIES
  ClaimsSettle
CHECK_DEADLOCK FALSE
