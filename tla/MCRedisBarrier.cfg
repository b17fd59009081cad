\* One piece for three transactions, and one that may be added.
CONSTANTS
  s1 = s1
  s2 = s2
  m1 = m1
  Sagas <- MCSagas
  Msgs <- MCMsgs
  Stock = 1
  MaxRestock = 1
SYMMETRY Symmetry
SPECIFICATION BarrierSpec
CHECK_DEADLOCK FALSE
INVARIANT ConservedUnlessRefused
INVARIANT NothingLost
