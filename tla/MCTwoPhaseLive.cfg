\* One branch, two workers, under fairness.
CONSTANTS
  N = 1
  w1 = w1
  w2 = w2
  Workers = {w1, w2}
  Deployments = {"redis_inline"}
SPECIFICATION FairSpec
CHECK_DEADLOCK FALSE
PROPERTY Decided
