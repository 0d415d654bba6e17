CONSTANTS
  c1 = c1  c2 = c2  i1 = i1  i2 = i2  t1 = t1  t2 = t2
  CPUs = {c1}
  Tasks = {i1, t1}
  Wakers = {w1}
  Systems <- KernelOnly
  None = None
SPECIFICATION Spec
INVARIANT ExitedStaysOut
CHECK_DEADLOCK FALSE
