\* A callback may never return, and close waits for it: CloseReturns is violated.
CONSTANTS
  Kinds = {"saga"}
  Hosts = {"ffi"}
  w1 = w1
  w2 = w2
  Loops = {w1}
  MaxInc = 2
  MaxTasks = 2
  CallbacksReturn = FALSE
SPECIFICATION FairSpec
CHECK_DEADLOCK FALSE
PROPERTY CloseReturns
