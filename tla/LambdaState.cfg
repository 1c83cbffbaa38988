SPECIFICATION Spec
CONSTANTS
  a1 = a1
  a2 = a2
  Driver = driver
  Nobody = nobody
  Torn = torn
  Unset = unset
  Actors = {a1, a2}
  Rules <- MCRules
  Fresh <- MCFresh
  Default <- MCDefault
  Batches = {0, 2, 4}
  Tau = 2
  Limits = {2, 3}
  MaxStreak = 3
  MaxStarts = 2
PROPERTIES
  UpdatesInOrder
  FrozenNeverRises
  Thaws
CHECK_DEADLOCK FALSE
