\* A compensation may answer FAILURE: the code closes the transaction over it.
CONSTANTS
  N = 2
  w1 = w1
  w2 = w2
  Workers = {w1, w2}
  NoWorker = NoWorker
  Backend = "sql"
  CompensateMayFail = TRUE
SPECIFICATION Spec
SYMMETRY WorkerSymmetry
INVARIANT FailedIsClean
