\* Two threads, a program that opens and closes with care.
SPECIFICATION Spec
CONSTANTS
  Threads = {t1, t2}
  NoThread = NoThread
  MaxObjects = 4
  MaxCalls = 4
  NumberOfItems = 2
  Disciplined = TRUE
CHECK_DEADLOCK FALSE
INVARIANTS
  ReferencesAreCounted
  NothingStaleIsUsed
  EverythingIsGivenBack
PROPERTY CallsReturn
