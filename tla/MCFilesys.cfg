SPECIFICATION FsSpec
CONSTANTS
  None = None
  Procs = {"main", "p"}
  Main = "main"
  Names = {a, b}
  SectorCount = 7
  Lengths = {0, 1}
  DirSlots = 2
  FdSlots = 1
  Inodes = {1, 2, 3}
  Orderly = TRUE
  MemoryFails = TRUE
INVARIANTS InodesExact SectorsExact DiskConsistent
PROPERTIES  ImplementsStore
SYMMETRY NameSymmetry
