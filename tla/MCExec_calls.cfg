SPECIFICATION FairSpec
CONSTANTS
  a = a
  b = b
  c = c
  lo = lo
  hi = hi
  off = off
  NoNode = NoNode
  Nodes = {a, b, c}
  Entry = a
  Terminals = {c}
  Vals = {lo, hi, off}
  Edges <- LoopEdges
  StartNodes = {a, b}
  InterruptBefore = {a, c}
  InterruptAfter = {}
  MaxSteps = 2
  MaxAttempts <- TwoAtB
  Outputs <- AnyOutput
  Results <- RoutingAtA
  ResumeOn <- EveryOutcome
  Edits = TRUE
  Careful = TRUE
  StoreKeepsPending = TRUE
  PredicatesThrow = FALSE
  MaxFaults = 2
  MaxWalk = 4
INVARIANTS ResumeContinuesForward CrashLosesOneNode CompletedMeansFinished TraceClosed
PROPERTIES DurableSpec GateHolds ResumeRunsGatedNode CallsAreBounded CallsReturn
CHECK_DEADLOCK FALSE
