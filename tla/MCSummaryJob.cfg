CONSTANTS
  Job = {j1}
  Ladder <- MCLadder
  Request <- MCRequest
  AnswerTokens = {100, 600}
  MaxCrashes = 2
  MaxFailedWrites = 1
SPECIFICATION FairSpec
INVARIANTS RunningIsOwned SpendNearCap
PROPERTIES EndIsFinal EveryJobEnds
CHECK_DEADLOCK FALSE
