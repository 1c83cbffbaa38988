CONSTANTS
  c1 = c1
  c2 = c2
  fits = fits
  schema = schema
  state = state
  NoIssue = fits
  EnvironmentIssues = {schema, state}
  InitialContents <- MCInitialContents
  TopUpContents <- MCTopUpContents
  InitialChunks = {c1, c2}
  TopUpChunks = {c1}
  Needed = 2
  TopUpRounds = 1
  MaxLaunches = 2
  MaxKills = 0
SPECIFICATION Spec
PROPERTIES CompletedStays
CHECK_DEADLOCK FALSE
