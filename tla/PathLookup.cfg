\* Every path of up to five characters in nine trees.
SPECIFICATION Spec
CONSTANTS
  a = a
  b = b
  Separator = Separator
  Nul = Nul
  Characters = {a, b, Separator, Nul}
  root = root
  sub = sub
  file = file
  Inodes = {root, sub, file}
  Root = root
  NoInode = NoInode
  Listings <- MCListings
  Paths <- MCPaths
INVARIANTS
  FindsFileOfLongPath
  ReturnsOneFile
  NothingIsLeft
  ClonesLiveEntry
