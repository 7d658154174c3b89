SPECIFICATION FsSpec
CONSTANTS
  None = None
  Procs = {"main", "p", "q"}
  Main = "main"
  Names = {a}
  SectorCount = 6
  Lengths = {0}
  DirSlots = 1
  FdSlots = 1
  Inodes = {1, 2}
  Orderly = FALSE
  MemoryFails = FALSE
INVARIANT
  OneInodePerSector
