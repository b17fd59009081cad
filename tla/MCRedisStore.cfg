\* A saga and a TCC transaction in one index, two workers.
CONSTANTS
  g1 = g1
  g2 = g2
  w1 = w1
  w2 = w2
  Gids = {g1, g2}
  TypeOf <- Types
  Workers = {w1, w2}
  LeaseSecs = 2
  BackOff = 1
  MaxNow = 4
  FinalTtl = 2
  ScanLimit = 1
SPECIFICATION Spec
SYMMETRY WorkerSymmetry
CHECK_DEADLOCK FALSE
INVARIANT IndexExact
INVARIANT Reclaimed
PROPERTY Implements
