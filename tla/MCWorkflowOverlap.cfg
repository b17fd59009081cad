\* The lease runs out while the function is running.
CONSTANTS
  Names = {"order", "pay", "ship", "look"}
  Values = {"a", "b"}
  End = End
  N = 2
  w1 = w1
  w2 = w2
  Workers = {w1, w2}
  Versions = {"old", "new"}
  Script <- Scripts
  Deployments <- Overlapping
SPECIFICATION Spec
CHECK_DEADLOCK FALSE
INVARIANT FailedIsCleanAnyway
