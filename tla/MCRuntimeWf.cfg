\* A workflow function calls dtmrs_wf_branch without a name: ErrorCounts is violated.
CONSTANTS
  Kinds = {"workflow"}
  Hosts = {"ffi"}
  w1 = w1
  w2 = w2
  Loops = {w1}
  MaxInc = 2
  MaxTasks = 2
  CallbacksReturn = TRUE
SPECIFICATION RuntimeSpec
CHECK_DEADLOCK FALSE
INVARIANT ErrorCounts
