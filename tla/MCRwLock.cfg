SPECIFICATION Spec
CONSTANTS
  t1 = t1
  t2 = t2
  t3 = t3
  t4 = t4
  Threads = {t1, t2, t3, t4}
  MaxReader = 3
SYMMETRY Symmetry
INVARIANTS Exclusion QuiescentFree ReadersCapped IInv
PROPERTIES UpgradeBlocksReaders Refines
