SPECIFICATION Spec
CONSTANTS
  Calls = {a, b, c}
  None = None
  FlushEverySteps = 3
  OneAtATime = TRUE
  PredicatesThrow = TRUE
  MaxSteps = 8
  MaxCrashes = 2
INVARIANTS TraceIsFaithful CrashLosesFew TraceIsWhole NoStaleBuilder
PROPERTIES TraceNeverShrinks
CHECK_DEADLOCK FALSE
