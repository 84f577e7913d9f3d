SPECIFICATION Spec
CONSTANTS
  Requests = {p, q}
  LastNode = 3
  Gates = {2}
  MaxConcurrent = 1
  Habits = {"replayFailed"}
  MaxRuns = 3
  MaxResumes = 1
INVARIANTS PermitsConserved LineageKept SeedsFit OneWalk
SYMMETRY Symmetry
CHECK_DEADLOCK FALSE
