\* A program that closes the volume while it holds file entries of it.
SPECIFICATION Spec
CONSTANTS
  Threads = {t1, t2}
  NoThread = NoThread
  MaxObjects = 4
  MaxCalls = 4
  NumberOfItems = 2
  Disciplined = FALSE
INVARIANT NothingStaleIsUsed
CHECK_DEADLOCK FALSE
