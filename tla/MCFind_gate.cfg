SPECIFICATION Spec
CONSTANTS
  a = a
  b = b
  c = c
  lo = lo
  hi = hi
  off = off
  NoNode = NoNode
  Nodes = {a, b, c}
  Entry = a
  Terminals = {c}
  Vals = {lo}
  Edges <- LineEdges
  StartNodes = {a}
  InterruptBefore = {b}
  InterruptAfter = {a}
  MaxSteps = 4
  MaxAttempts <- OneAttempt
  Outputs <- AnyOutput
  Results <- EdgesOnly
  ResumeOn <- OnlyInterrupted
  Edits = FALSE
  Careful = FALSE
  StoreKeepsPending = TRUE
  PredicatesThrow = FALSE
  MaxFaults = 0
  MaxWalk = 6
INVARIANTS ResumeContinuesForward
CHECK_DEADLOCK FALSE
