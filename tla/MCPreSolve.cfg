SPECIFICATION PreSpec
CONSTANTS
  Inputs = {}
  Cases <- TheCases
  Limit = 20
INVARIANTS
  BucketsExact
  KeepsValid
  WidthKept
  NiceBehind
  GivenDecides
  SolutionComesBack
PROPERTY PreSolveEnds
