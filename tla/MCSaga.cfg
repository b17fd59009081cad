\* Three steps, two workers that may drive at the same time, SQL store.
CONSTANTS
  N = 3
  w1 = w1
  w2 = w2
  Workers = {w1, w2}
  NoWorker = NoWorker
  Backend = "sql"
  CompensateMayFail = FALSE
SPECIFICATION Spec
SYMMETRY WorkerSymmetry
INVARIANT Atomicity
INVARIANT StepOrder
PROPERTY Implements
