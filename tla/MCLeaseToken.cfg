\* Tokens are seconds: a submit in the second of a lock repeats one.
CONSTANTS
  w1 = w1
  w2 = w2
  Workers = {w1, w2}
  NoWorker = NoWorker
  TransTypes = {"msg"}
  LeaseSecs = 2
  RetryInitial = 1
  RetryMax = 3
  Timeout = 2
  Grace = 1
  NEVER = 99
  MaxNow = 6
SPECIFICATION Spec
SYMMETRY WorkerSymmetry
CHECK_DEADLOCK FALSE
PROPERTY TokenNamesOneLease
