SPECIFICATION Spec
CONSTANTS
  Ids = {a, b}
  MaxSent = 4
  MaxMoves = 3
INVARIANTS StaleOnlyIfOvertaken
PROPERTIES LoadingEnds ToastStaysItsTime
CHECK_DEADLOCK FALSE
