CONSTANTS
  bank = bank
  shop = shop
  Modes = {"shard", "monolithic"}
  RequestedDomains <- MCDomains
  All = all
  Quota <- MCQuota
  PoolTarget = 3
  IrrelevanceTarget = 1
  Strata = 2
  MaxRounds = 2
  CheckpointInterval = 1
  RoundStride = 14
  RequestStride = 7
  Configs = {c1, c2}
  MaxRestarts = 1
  MaxOvertaken = 1
  MaxRejected = 0
SPECIFICATION Spec
INVARIANTS
  SeedsDistinct
  IrrelevanceWithinTarget
  CheckpointLoadable
PROPERTIES
  SavedTasksKept
  EveryRunEnds
CHECK_DEADLOCK FALSE
