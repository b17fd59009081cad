\* Two branches, two workers, and every deployment but SQL with inline drivers.
CONSTANTS
  N = 2
  w1 = w1
  w2 = w2
  Workers = {w1, w2}
  Deployments = {"sql", "redis", "redis_inline"}
SPECIFICATION Spec
SYMMETRY WorkerSymmetry
CHECK_DEADLOCK FALSE
INVARIANT OneDirection
INVARIANT DecidedIsWhole
PROPERTY Implements
