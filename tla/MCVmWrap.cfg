SPECIFICATION VmSpec
CONSTANTS
  Procs = {1, 2}
  Mms = {1, 2}
  MaxPage = 7
  MaxAddr = 16
  MaxFrame = 4
  LowPage = 0
  HighPage = 6
  FirstPage = 1
  MmapTop = 6
  Vals = {0, 1}
  Images <- MCImages
  Machines <- MCWrapping
  FileProts = {3}
INVARIANTS VmasDisjoint
