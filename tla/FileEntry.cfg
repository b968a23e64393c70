\* Two threads, one of which may ask for the number of sub file entries at a time.
SPECIFICATION Spec
CONSTANTS
  Threads = {t1, t2}
  NoThread = NoThread
  Parts = 2
  Kinds = {"directory", "link", "file"}
  MaxReads = 2
  MaxCounters = 1
  FreesInOrder = TRUE
INVARIANTS
  WholeWhenUnlocked
  AnswersAreWhole
  NoUseAfterFree
PROPERTY
  CallsReturn
