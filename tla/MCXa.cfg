\* Two branches and one worker that may crash and come back, under fairness, on
\* every deployment but SQL with inline drivers (redis does what redis_inline may).
CONSTANTS
  N = 2
  w1 = w1
  Workers = {w1}
  Deployments = {"sql", "redis_inline"}
SPECIFICATION FairSpec
CHECK_DEADLOCK FALSE
INVARIANT AllOrNothing
INVARIANT RecordedIsCommitted
INVARIANT DecidedIsWhole
PROPERTY Implements
PROPERTY Resolved
