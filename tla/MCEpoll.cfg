CONSTANTS
  f1 = f1
  e1 = e1
  e2 = e2
  d1 = d1
  c1 = c1
  w1 = w1
  w2 = w2
  self = self
  None = None
  Tasks <- MCTasks
  Pollees <- MCPollees
  Files = {f1}
  Entries = {e1, e2}
  Drivers = {d1}
  Controllers = {c1}
  Waiters = {w1, w2}
  Self = self
  MaxEvents = 1
  Bounds <- MCBounds
SPECIFICATION FairSpec
INVARIANTS CacheIsFresh NoLostEvent ReadyListExact SleepersAreTold
PROPERTY SomeoneReturns
