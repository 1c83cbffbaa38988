CONSTANTS
  get = get
  pay = pay
  rec = rec
  none = none
  NoTarget = none
  Tools <- MCTools
  Mutating <- MCMutating
  Args <- MCArgs
  Aliases = {}
  Affects <- MCAffects
  Chains <- MCChains
  Priors = {}
  Budgets = {3}
  LaterBudgets = {1}
  Caps = {0}
  Attempts = 2
  Difficulties = {"minimal"}
SPECIFICATION ConversationSpec
INVARIANTS
  AcceptedMutationsAuthorized
  UnknownCommitNeverAccepted
  AcceptedErrorChangedNothing
  NoRepeatAcrossRounds
PROPERTIES
  SessionsClosed
