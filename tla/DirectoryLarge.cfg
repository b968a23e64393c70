\* Directory blocks of two blocks.
SPECIFICATION DirectorySpec
CONSTANTS
  a = a
  b = b
  Names = {a, b}
  NoName = NoName
  BlockUnits = 6
  HeaderUnits = 1
  DirBlocks = 2
  GroupBlocks = 4
  Relative = 8
  LeafBlock = 9
  Wrap = 64
  Directories <- LargeDirectories
INVARIANT ListsEveryEntry
