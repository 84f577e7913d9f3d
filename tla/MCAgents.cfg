SPECIFICATION Spec
CONSTANTS
  Calls = {k1, k2}
  Writers = {k1, k2}
  Readers = {}
  Objects = {1}
  Object <- OneObject
  Expires = TRUE
  Ttl = 1
  Nobody = Nobody
INVARIANTS AnsweredIsRemembered RepliesReach
PROPERTIES CallsEnd
CHECK_DEADLOCK FALSE
