SPECIFICATION FairSpec
CONSTANTS
  a = a
  b = b
  c = c
  lo = lo
  hi = hi
  off = off
  NoNode = NoNode
  Nodes = {a, b, c}
  Entry = a
  Terminals = {c}
  Vals = {lo, hi}
  Edges <- LineEdges
  StartNodes = {a}
  InterruptBefore = {a}
  InterruptAfter = {b}
  MaxSteps = 1
  MaxAttempts <- TwoAttempts
  Outputs <- AnyOutput
  Results <- EdgesOnly
  ResumeOn <- UnlessComplete
  Edits = FALSE
  Careful = FALSE
  StoreKeepsPending = TRUE
  PredicatesThrow = TRUE
  MaxFaults = 2
  MaxWalk = 9
PROPERTIES EventuallyCompletes
CHECK_DEADLOCK FALSE
