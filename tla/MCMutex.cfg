SPECIFICATION MutexSpec
CONSTANTS
  t1 = t1
  t2 = t2
  t3 = t3
  Threads = {t1, t2, t3}
  Dead = Dead
INVARIANTS MutualExclusion NoLostMutexWakeup WokenIsUnparked MutexInv
PROPERTY NobodyStranded
