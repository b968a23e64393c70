\* Two threads that ask for the number of sub file entries at once.
SPECIFICATION Spec
CONSTANTS
  Threads = {t1, t2}
  NoThread = NoThread
  Parts = 2
  Kinds = {"directory"}
  MaxReads = 2
  MaxCounters = 2
  FreesInOrder = TRUE
INVARIANT NoUseAfterFree
