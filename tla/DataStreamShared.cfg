\* Two threads that read two file entries of a volume at once.
SPECIFICATION Spec
CONSTANTS
  Threads = {t1, t2}
  NoThread = NoThread
  e1 = e1
  e2 = e2
  e3 = e3
  Entries = {e1, e2, e3}
  ExtentsOf <- MCExtents
  InlineOf <- MCInline
  SizeOf <- MCSizes
  GroupBlocks = 3
  Relative = 4
  MaxRead = 3
  Disciplined = FALSE
INVARIANT ReadsItsData
