\* A topic with up to two subscribers, alone or before a plain address; fair.
CONSTANTS
  u1 = u1
  u2 = u2
  u3 = u3
  w1 = w1
  w2 = w2
  Topic = Topic
  Messages <- TopicAndMore
  Static = {}
  Urls = {u1, u2}
  Plain = {u3}
  Workers = {w1, w2}
  Deployments = {"sql", "sql_inline", "redis_inline"}
SPECIFICATION FairSpec
CHECK_DEADLOCK FALSE
INVARIANT ListingIsWhole
INVARIANT OnlyIfCommitted
INVARIANT DeliveredIsWhole
INVARIANT StepOrder
INVARIANT SubmitHolds
PROPERTY Delivered
