SPECIFICATION Spec
CONSTANTS
  HashOf <- MCHashOf
  Scenarios <- MCScenarios
  Verdicts = {TRUE, FALSE}
  MaxRequests = 3
  MaxRecords = 5
CHECK_DEADLOCK FALSE
INVARIANTS
  OptionalsAreSet
  RetryIsFollowed
  ServerAuthenticated
  WritesAreSound
PROPERTIES
  EarlyDataAllOrNothing
