SPECIFICATION Spec
CONSTANTS
  PlayLeaf <- LeafGame
  PlayIntroduce <- Introduce
  PlayForget <- Forget
  PlayJoin <- Join
  PlayConvert <- Convert
  JoinPasses <- JoinReturns
  JoinFails <- JoinAborts
  HighEnough <- Cacheable
  NULL = NULL
  ABORTED = ABORTED
  Width = 3
  Vertices = {1, 2, 3}
  Problems <- Solved
  Cached = TRUE
INVARIANTS
  AlphaIsTheBag
  ValuesMatchAssignment
  EntriesDisjoint
  NothingDropped
  SolutionExact
CHECK_DEADLOCK FALSE
