\* A directory that is opened and released.
SPECIFICATION MountSpec
CONSTANTS
  root = root
  dir = dir
  file = file
  other = other
  h1 = h1
  h2 = h2
  Root = root
  Files = {root, dir, file, other}
  None = None
  Parent <- MCParent
  Characters <- MCCharacters
  NameOf <- MCNames
  Directories = {root, dir}
  ListOf <- MCLists
  ValueSizes <- MCValueSizes
  OtherPaths <- MCOtherPaths
  Handles = {h1, h2}
  MaxEntries = 3
  MaxAttributes = 2
  BufferSizes = {0, 1, 2}
SYMMETRY Infos
INVARIANT EveryEntryIsFreed
