CONSTANTS
  bank = bank
  shop = shop
  Threads = {t1, t2}
  NoThread = none
  Owners <- MCOwners
  MaxSessions = 2
  MaxOps = 2
  Capacity = 1
  Mortal = {shop}
SPECIFICATION Spec
INVARIANTS
  OneOperationAtATime
  NeverRevived
PROPERTIES
  CallerStopsAfterTimeout
  PlacesReturned
