\* An abort against a submit, on a SQL store whose API processes drive inline: both
\* invariants are violated (-continue shows both).
CONSTANTS
  u1 = u1
  u2 = u2
  u3 = u3
  w1 = w1
  w2 = w2
  Topic = Topic
  Messages <- TopicAndMore
  Static = {}
  Urls = {u1}
  Plain = {u3}
  Workers = {w1, w2}
  Deployments = {"sql_inline"}
SPECIFICATION Spec
CHECK_DEADLOCK FALSE
INVARIANT AbortedIsSilent
INVARIANT ConfirmedIsSubmitted
