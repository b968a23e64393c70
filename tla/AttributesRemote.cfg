\* Remote values anywhere in the attributes extents.
SPECIFICATION AttributesSpec
CONSTANTS
  a = a
  b = b
  Names = {a, b}
  NoName = NoName
  BlockUnits = 8
  OffsetLimit = 8
  HeaderUnits = 1
  MaxDepth = 2
  GroupBlocks = 4
  Relative = 8
  MaxFaults = 0
  Forks <- RemoteForks
INVARIANT
  RemoteValueIsRead
