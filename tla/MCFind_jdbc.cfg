SPECIFICATION Spec
CONSTANTS
  a = a
  b = b
  c = c
  lo = lo
  hi = hi
  off = off
  NoNode = NoNode
  Nodes = {a, b, c}
  Entry = a
  Terminals = {c}
  Vals = {lo}
  Edges <- LineEdges
  StartNodes = {a}
  InterruptBefore = {b}
  InterruptAfter = {}
  MaxSteps = 4
  MaxAttempts <- OneAttempt
  Outputs <- AnyOutput
  Results <- EdgesOnly
  ResumeOn <- OnlyInterrupted
  Edits = FALSE
  Careful = FALSE
  StoreKeepsPending = FALSE
  PredicatesThrow = FALSE
  MaxFaults = 0
  MaxWalk = 6
INVARIANTS CompletedMeansFinished
CHECK_DEADLOCK FALSE
