SPECIFICATION Spec
CONSTANTS
  PlayLeaf <- LeafGame
  PlayIntroduce <- Introduce
  PlayForget <- Forget
  PlayJoin <- Join
  PlayConvert <- Convert
  JoinPasses <- JoinReturns
  JoinFails <- JoinAborts
  HighEnough <- Cacheable
  NULL = NULL
  ABORTED = ABORTED
  Width = 2
  Vertices = {1, 2, 3}
  Problems <- SolvedWrongly
  Cached = TRUE
INVARIANTS
  ValuesMatchAssignment
CHECK_DEADLOCK FALSE
