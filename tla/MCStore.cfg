CONSTANTS
  Page = 2
  Classes = {1, 2}
  BigMax = 3
  MaxReg = 4
  LowEnd = 2
  FsImg = 6
  FsEnd = 9
  MmapArea = 14
  K0Bump = 17
  Fan = 2
  Machines <- MCMachines
  LinuxMin = 8
  MaxOwned = 3
  Sect = 2
  Chunk = 2
  Sectors = 3
  Bytes = {0, 1}
SPECIFICATION Spec
INVARIANTS DataTypeOK MemoryApart MemoryCounted PagesHeld DiskExact
PROPERTIES ImplementsFile
CHECK_DEADLOCK FALSE
