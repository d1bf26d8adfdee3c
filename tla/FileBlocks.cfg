SPECIFICATION BlocksSpec
CONSTANTS
  p1 = p1
  p2 = p2
  Task = {p1, p2}
  Name = {1, 2}
  Ino = {1, 2}
  BlockSize = 2
  Direct = 1
  Indirect = 3
  NBlocks = 6
  SecBits = 4
  InodeSize = 2
  SectorSize = 3
  InoMod = 4
  PosMod = 16
  WriteCounts = {0, 3}
  ReadCounts = {4}
  Seeks = {1}
  MaxCreates = 2
SYMMETRY Symmetry
INVARIANTS BlocksExact BytesAreWritten DiskUpToDate DiskSafe
CHECK_DEADLOCK FALSE
