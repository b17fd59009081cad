\* All types, two workers; long enough for two leases to run out.
CONSTANTS
  w1 = w1
  w2 = w2
  Workers = {w1, w2}
  NoWorker = NoWorker
  TransTypes = {"saga", "tcc", "msg"}
  LeaseSecs = 2
  RetryInitial = 1
  RetryMax = 3
  Timeout = 2
  Grace = 1
  NEVER = 99
  MaxNow = 6
SPECIFICATION Spec
SYMMETRY WorkerSymmetry
CHECK_DEADLOCK FALSE
INVARIANT Exclusive
INVARIANT RequestKept
INVARIANT DueAgain
PROPERTY ReleasesOwn
