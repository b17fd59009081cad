\* A registration that passed its check before the rollback lands after it.
CONSTANTS
  N = 2
  w1 = w1
  w2 = w2
  Workers = {w1, w2}
  Deployments = {"redis"}
SPECIFICATION Spec
SYMMETRY WorkerSymmetry
CHECK_DEADLOCK FALSE
INVARIANT NoTryLeftBehind
