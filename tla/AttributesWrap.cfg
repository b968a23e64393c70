\* An entry whose name ends with a block of the largest size: its data is not behind it.
SPECIFICATION AttributesSpec
CONSTANTS
  a = a
  b = b
  Names = {a, b}
  NoName = NoName
  BlockUnits = 8
  OffsetLimit = 8
  HeaderUnits = 1
  MaxDepth = 2
  GroupBlocks = 4
  Relative = 8
  MaxFaults = 2
  Forks <- MCForks
INVARIANT DataFollowsName
