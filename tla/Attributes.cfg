\* Trees of one to four levels, of which three may be read.
SPECIFICATION AttributesSpec
CONSTANTS
  a = a
  b = b
  Names = {a, b}
  NoName = NoName
  BlockUnits = 8
  OffsetLimit = 8
  HeaderUnits = 1
  MaxDepth = 2
  GroupBlocks = 4
  Relative = 8
  MaxFaults = 2
  Forks <- MCForks
INVARIANTS
  ListsEveryAttribute
  NothingIsMadeUp
  ValueOfOneExtentIsRead
PROPERTY
  ReadReturns
