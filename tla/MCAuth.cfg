\* One token, two instances, two checks at a time; both stores.
CONSTANTS
  i1 = i1
  i2 = i2
  r1 = r1
  r2 = r2
  t1 = t1
  Tokens = {t1}
  Instances = {i1, i2}
  Requests = {r1, r2}
  Backends = {"sql", "redis"}
  Ttl = 2
  Latency = 1
  MaxClock = 4
SPECIFICATION AuthSpec
SYMMETRY Symmetry
INVARIANT InForce
INVARIANT AtOnce
