CONSTANTS
  CPUs = {c1, c2, c3}
  Objects = {o1, o2}
  Null = Null
  None = None
SPECIFICATION FairSpec
INVARIANTS NoUseAfterFree FreedOnce Monitored IInv
PROPERTY Reclaimed
