SPECIFICATION AnyOrderSpec
CONSTANTS
  N = 3
  Node <- Nodes
  Root = 1
  Shapes <- Trees
  Worker = {w1, w2}
INVARIANTS ChildrenComplete
