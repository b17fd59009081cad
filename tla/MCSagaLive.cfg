\* One step, two workers, Redis store (blind writes where status_contested says
\* so), compensations that may fail, under fairness.
CONSTANTS
  N = 1
  w1 = w1
  w2 = w2
  Workers = {w1, w2}
  NoWorker = NoWorker
  Backend = "redis"
  CompensateMayFail = TRUE
SPECIFICATION FairSpec
INVARIANT SucceedIsWhole
PROPERTY StatusForward
PROPERTY Terminates
