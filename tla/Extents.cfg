\* Every image, damaged ones included: lists and trees of up to two leaves.
SPECIFICATION TreeSpec
CONSTANTS
  Limit = 4
  LogicalNumbers = {0, 2, 5}
  BlockCounts = {1, 2}
  PhysicalNumbers = {5}
  FileSizes = {0, 3, 7}
  MaxRecords = 3
  MaxLeaves = 2
  Blocks = {b1, b2}
  ListPlace = ListPlace
  Levels = {0, 1}
  Counts = {0, 1, 2, 3}
  Rooms = {0, 2}
INVARIANTS
  TypeOK
  IsMapOfFile
  AllOrNothing
  WholeForkIsRead
PROPERTIES
  ImplementsFile
