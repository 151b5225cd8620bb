SPECIFICATION Spec
CONSTANTS
  PlayLeaf <- LeafGame
  PlayIntroduce <- Introduce
  PlayForget <- Forget
  PlayJoin <- Join
  PlayConvert <- Convert
  JoinPasses <- JoinReturns
  JoinFails <- JoinAborts
  HighEnough <- Cacheable
  NULL = NULL
  ABORTED = ABORTED
  Width = 2
  Vertices = {1, 2, 3}
  Problems <- Aborted
  Cached = TRUE
INVARIANT JoinsTheSameFormula
CHECK_DEADLOCK FALSE
