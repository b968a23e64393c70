\* Directory blocks of one block.
SPECIFICATION DirectorySpec
CONSTANTS
  a = a
  b = b
  Names = {a, b}
  NoName = NoName
  BlockUnits = 6
  HeaderUnits = 1
  DirBlocks = 1
  GroupBlocks = 4
  Relative = 8
  LeafBlock = 9
  Wrap = 64
  Directories <- MCDirectories
INVARIANTS
  DirectoryTypeOK
  ListsEveryEntry
PROPERTIES
  NothingIsMadeUp
  ReadReturns
