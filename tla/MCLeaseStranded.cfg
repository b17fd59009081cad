\* No prepared time limit: an abort cut short leaves a row that is never due.
CONSTANTS
  w1 = w1
  w2 = w2
  Workers = {w1, w2}
  NoWorker = NoWorker
  TransTypes = {"tcc"}
  LeaseSecs = 2
  RetryInitial = 1
  RetryMax = 3
  Timeout = 0
  Grace = 1
  NEVER = 99
  MaxNow = 6
SPECIFICATION Spec
SYMMETRY WorkerSymmetry
CHECK_DEADLOCK FALSE
INVARIANT AbortedIsDue
