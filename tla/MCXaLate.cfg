\* One branch whose participant is slow.
CONSTANTS
  N = 1
  w1 = w1
  Workers = {w1}
  Deployments = {"redis"}
SPECIFICATION Spec
CHECK_DEADLOCK FALSE
INVARIANT NoneLeftPrepared
