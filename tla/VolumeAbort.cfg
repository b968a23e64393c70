\* A signal to abort while a disciplined caller opens the volume.
SPECIFICATION Spec
CONSTANTS
  Threads = {t1, t2}
  NoThread = NoThread
  MaxOpens = 1
  Disciplined = TRUE
PROPERTY AbortStopsOpen
