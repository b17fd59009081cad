\* One worker, two handles one after the other, both kinds of host, every mode.
CONSTANTS
  Kinds = {"saga", "tcc", "msg", "xa", "workflow"}
  Hosts = {"native", "ffi"}
  w1 = w1
  w2 = w2
  Loops = {w1}
  MaxInc = 2
  MaxTasks = 2
  CallbacksReturn = TRUE
SPECIFICATION FairSpec
CHECK_DEADLOCK FALSE
INVARIANT OnlyHostDecides
INVARIANT QuietAfterClose
PROPERTY CloseReturns
PROPERTY Terminates
