\* Two versions of the function on Redis, which registers op by op.
CONSTANTS
  Names = {"order", "pay", "ship", "look"}
  Values = {"a", "b"}
  End = End
  N = 2
  w1 = w1
  w2 = w2
  Workers = {w1, w2}
  Versions = {"old", "new"}
  Script <- Scripts
  Deployments <- RedisChanging
SPECIFICATION Spec
CHECK_DEADLOCK FALSE
INVARIANT FailedIsClean
