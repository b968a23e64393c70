\* Callers that use the volume from two threads at once.
SPECIFICATION Spec
CONSTANTS
  Threads = {t1, t2}
  NoThread = NoThread
  MaxOpens = 2
  Disciplined = FALSE
INVARIANT LookupsReturn
