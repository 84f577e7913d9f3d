SPECIFICATION FairSpec
CONSTANTS
  Runs = {r1, r2}
  Streamed = {r1}
  Viewers = {v}
  Filters = {"none", r1}
  MaxNodes = 1
  MaxRetries = 1
  Retried = {r2}
  Failing = {r1}
  Buffer = 1
  Credit = 1
INVARIANTS StreamIsWhole LiveInOrder StreamGoesOn
CHECK_DEADLOCK FALSE
PROPERTIES StreamsEnd
