SPECIFICATION FsSpec
CONSTANTS
  Procs = {1, 2}
  Inodes = {1, 2, 3, 4}
  Files = {1, 2}
  Names = {"a", "b", "c", "d", "e"}
  Hash <- MCHash
  ListMax = 1
  HashMin = 1
  MaxLinks = 1
  MaxHops = 2
  Machines <- MCMachines
INVARIANTS FsTypeOK TableMatchesList TreeRooted NoEntryTwice SkipsForRemovals
PROPERTIES ImplementsTree
