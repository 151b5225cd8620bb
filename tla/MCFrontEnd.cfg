SPECIFICATION FrontSpec
CONSTANTS
  v1 = v1
  v2 = v2
  s1 = s1
  f1 = f1
  f2 = f2
  Variables <- TheVariables
  Sets <- TheSets
  Functions <- TheFunctions
  MaxId = 4
  MaxLevel = 2
  MaxArgs = 1
  MaxParses = 2
  RetriesFailed = FALSE
  Width = 2
  BufSize = 4
  ReadSize = 3
  YYINITDEPTH = 4
  YYMAXDEPTH = 20
  Texts <- TheTexts
  LaterTexts <- TheLaterTexts
  Graphs <- TheGraphs
INVARIANTS
  WordsAsWritten
  ReducesHandles
  TreeAsWritten
  TablesFollowNesting
  RefsBound
  IdsOnce
  MeansTheSame
CHECK_DEADLOCK FALSE
