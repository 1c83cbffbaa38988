CONSTANTS
  bank = bank
  shop = shop
  Domains <- MCDomains
  Levels <- MCLevels
  Requests <- MCRequests
  Records <- MCRecords
  MaxWorkers = 2
  Reasons = {"exception"}
  MaxRuns <- MCMaxRuns
  NoRecord = none
  Nothing = nothing
  Garbage = garbage
SPECIFICATION Spec
INVARIANTS
  QuotasRespected
  ShortOnlyWhenExhausted
  RejectionsRecorded
  BlockedOnlyByDamage
PROPERTIES
  KeepsRequest
CHECK_DEADLOCK FALSE
