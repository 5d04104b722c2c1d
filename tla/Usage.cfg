\* An assessment and a tutor's turn of one user, two requests at once.
SPECIFICATION FairSpec
CONSTANTS
  assessment = assessment
  turn = turn
  None = None
  Keys = {assessment, turn}
  Handlers = {h1, h2}
  Route <- OneOfEach
  Reserve = 2
  Costs = {3}
  RequestLimit = 2
  UserLimit = 6
  PoolLimit = 6
  MaxAttempts = 2
  MaxEdits = 1
INVARIANT LedgersMatch
INVARIANT SpendKept
INVARIANT NeverBlocked
PROPERTY ResultKept
PROPERTY DeletionSettles
CHECK_DEADLOCK FALSE
