\* Superblocks and inodes at the limits of every check.
SPECIFICATION InodeSpec
CONSTANTS
  WordBits = 30
  HeaderOld = 100
  HeaderNew = 176
  RecordBytes = 16
  InodeSizes = {256, 512, 1024, 2048}
  SectorSizes = {512, 1024, 2048, 4096, 8192, 16384}
  Second = 10
  MinorNumbers = 16
  Images <- MCImages
INVARIANTS
  ShiftsAreDefined
  ForksPartition
  NothingIsLeft
