SPECIFICATION EvalSpec
CONSTANTS
  Vertices = {v1, v2, v3}
  Width = 2
  Bits = 2
  NULL = NULL
INVARIANTS
  CountsSolutions
  ExtremalSizes
  ComposedIsSolution
CHECK_DEADLOCK FALSE
