\* SQL store, API processes that drive inline.
CONSTANTS
  N = 2
  w1 = w1
  Workers = {w1}
  Deployments = {"sql_inline"}
SPECIFICATION Spec
CHECK_DEADLOCK FALSE
INVARIANT RecordedIsCommitted
