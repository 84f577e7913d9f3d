SPECIFICATION FairSpec
CONSTANTS
  Runs <- AllRuns
  Kind <- Kinds
  Width <- Widths
  Inner <- Inners
  Undeclared <- MayRefuse
  Owned <- OwnRuns
  PoolSize = 2
  Together <- SomeTogether
INVARIANTS FirstDeclaredFailureWins NoBranchLeftBehind
PROPERTIES FailureStopsTheRest CallsReturn
CHECK_DEADLOCK FALSE
