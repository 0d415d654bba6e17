CONSTANTS
  c1 = c1  c2 = c2  i1 = i1  i2 = i2  t1 = t1  t2 = t2
  CPUs = {c1, c2}
  Tasks = {i1, i2, t1, t2}
  Wakers = {w1}
  Systems <- KernelAndOthers
  None = None
SPECIFICATION Spec
SYMMETRY Symmetry
INVARIANTS IdleIsRunnable AtMostOnce CurrentIsRunning NeverSpins NoLostWake RunsOnce
CHECK_DEADLOCK FALSE
