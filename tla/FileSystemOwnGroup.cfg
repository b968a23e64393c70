\* An allocation group whose inode information cannot be read.
SPECIFICATION FileSystemSpec
CONSTANTS
  Groups = 2
  Blocks = {1, 2, 3}
  Images <- MCImages
  Relative = 4
  ChunkSize = 2
  Width = 8
  MaxInode = 8
  MaxDepth = 2
INVARIANT FoundInOwnGroup
