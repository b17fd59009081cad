\* SQL store: a submit that loses to the timeout is driven all the same.
CONSTANTS
  N = 1
  w1 = w1
  w2 = w2
  Workers = {w1, w2}
  Deployments = {"sql_inline"}
SPECIFICATION Spec
SYMMETRY WorkerSymmetry
CHECK_DEADLOCK FALSE
INVARIANT OneDirection
