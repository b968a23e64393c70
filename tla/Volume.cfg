\* Callers that open and close a volume nobody else is using.
SPECIFICATION Spec
CONSTANTS
  Threads = {t1, t2}
  NoThread = NoThread
  MaxOpens = 3
  Disciplined = TRUE
INVARIANTS
  CallerHandleKept
  NoLeak
  OpenIsWhole
PROPERTIES
  CallsReturn
