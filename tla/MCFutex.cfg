CONSTANTS
  a1 = a1  a2 = a2  a3 = a3  w1 = w1  w2 = w2  w3 = w3
  Waiters = {w1, w2, w3}
  Callers = {k1, k2}
  Addrs = {a1, a2, a3}
  Hash <- BucketOf
  Bits = {1, 2}
  WordBits = 1
  Loads <- TimedAndPairs
  Dead = Dead
  None = None
SPECIFICATION Spec
SYMMETRY Symmetry
INVARIANTS SuccessIffWoken NoStaleItems NoMissedWake Findable NoCircularWait
PROPERTY RequeueAtMost
