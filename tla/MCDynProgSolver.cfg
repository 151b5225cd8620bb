SPECIFICATION SolverSpec
CONSTANTS
  N = 6
  Node <- Nodes
  Root = 1
  Shapes <- Trees
  Worker = {w1, w2}
INVARIANTS ChildrenComplete NodesAccounted
PROPERTIES SolveReturns FollowsSchedule
