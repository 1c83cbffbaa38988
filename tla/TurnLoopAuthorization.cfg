CONSTANTS
  get = get
  pay = pay
  byName = byName
  byId = byId
  none = none
  NoTarget = none
  Tools <- MCTools
  Mutating <- MCMutating
  Args <- MCArgs
  Aliases <- MCAliases
  Affects <- MCAffects
  Chains <- MCChains
  Priors <- MCPriors
  Budgets = {3}
  Caps = {0, 2}
SPECIFICATION Spec
INVARIANT
  FirstRoundMutationsAuthorized
