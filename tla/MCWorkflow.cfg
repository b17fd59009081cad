\* Two versions of the function on SQL, one on Redis, there also with leases that run out.
CONSTANTS
  Names = {"order", "pay", "ship", "look"}
  Values = {"a", "b"}
  End = End
  N = 2
  w1 = w1
  w2 = w2
  Workers = {w1, w2}
  Versions = {"old", "new"}
  Script <- Scripts
  Deployments <- SqlAndRedis
SPECIFICATION Spec
CHECK_DEADLOCK FALSE
INVARIANT FailedIsClean
INVARIANT SucceedIsWhole
INVARIANT ResultsAreOwn
PROPERTY Memoised
PROPERTY AbortHolds
