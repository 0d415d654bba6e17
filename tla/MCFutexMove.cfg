CONSTANTS
  a1 = a1  a2 = a2  a3 = a3  w1 = w1  w2 = w2  w3 = w3
  Waiters = {w1}
  Callers = {k1}
  Addrs = {a1, a2, a3}
  Hash <- BucketOf
  Bits = {1, 2}
  WordBits = 1
  Loads <- OnlyMoveTimed
  Dead = Dead
  None = None
SPECIFICATION Spec
INVARIANT SuccessIffWoken
