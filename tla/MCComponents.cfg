CONSTANTS
  Threads = {main, p, r}
  main = main
  INTQ_BUFSIZE = 3
  MaxOut = 3
  MaxIn = 2
  NULL = NULL
  Keys = {30, 3, 42, 54, 57400, 29, 58, 83}
  InputRoom = 1
  COL_CNT = 3
  ROW_CNT = 3
  TabStop = 2
  MaxWritten = 5
  Nothing = Nothing
  Unspecified = Nothing
  ScanTexts <- MCTexts
  MemThreads = {"s", "t"}
  MemProcs = {"t"}
  KernelPages = 3
  FrameCount = 2
  Upages = {0, 1, 2}
  TableSpan = 2
  blocks_per_arena = 2
  BigPages = 2
  MaxHeld = 2
  ListElems = {"a", "b", "c"}
  ListKey <- MCListKey
  HashElems = {"a", "b", "c", "d", "e", "f", "g"}
  HashKey <- MCHashKey
  HashOf <- MCHashOf
  MinBuckets = 2
  BEST_ELEMS_PER_BUCKET = 1
  ELEM_BITS = 2
  BitCounts = {2, 3}
  HalfBits = 4
  IntLimit = 512
  NameLen = 5
  SizeLen = 6
  SumLen = 5
  UlongMax = 4095
  Alphabet = {32, 97, 98}
  MaxLen = 4
  MaxWidth = 6
  Printed <- MCPrinted
  PGSIZE = 32
  PHYS_BASE = 192
  AddrMod = 256
  EntriesPerTable = 2
  FileLength = 90
  Loads <- MCLoads
  BLOCK_SECTOR_SIZE = 3
  Lengths = {0, 1, 3, 5, 6}
  MaxOffset = 7
  MaxSize = 8
  Archives <- MCArchives
  FileNames = {"a", "b"}
  SectorBytes = 2
  MaxBoots = 3
SPECIFICATION MCSpec
\* a routine that has returned, or a machine that has panicked, has no next step,
\* and with the bounds on bytes reached everybody may be asleep
CHECK_DEADLOCK FALSE
INVARIANTS StreamsInOrder NoLostWakeup IerFollowsQueues ScreenShown ListsConsistent TableConsistent     TransfersExact
PROPERTIES CharactersTyped  
