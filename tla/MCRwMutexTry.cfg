SPECIFICATION Spec
CONSTANTS
  t1 = t1
  t2 = t2
  t3 = t3
  Threads = {t1, t2, t3}
  Dead = Dead
  MaxReader = 8
  MaxQueue = 2
INVARIANTS SleepsOnlyWhileHeld
SYMMETRY Symmetry
