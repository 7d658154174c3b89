CONSTANTS
  Threads = {main, p, r}
  main = main
  INTQ_BUFSIZE = 2
  MaxOut = 2
  MaxIn = 2
  NULL = NULL
  DiskThreads = {"s", "t"}
  DiskSize = 2
  SectorWidth = 8
  DiskValues = {0, 1}
  DiskSetups <- MCSetups
  DiskFails = TRUE
  MaxNesting = 3
  Sleepers = {"s", "t"}
  MaxSleep = 2
  MaxTicks = 4
  TIMER_FREQ = 3
  Kilo = 10
  FirstBit = 3
  TriedBits = 3
  SpeedRange = {9, 27, 31}
  BUFSIZ = 2
  MaxTyped = 2
  MaxPrinted = 2
SPECIFICATION MCSpec
\* with the bounds reached, or after a panic, everybody may be asleep
CHECK_DEADLOCK FALSE
INVARIANTS OneCompletion PartitionsInside PrimaryPartitionsFound
PROPERTIES SerialProgress ImplementsBlockDevice  TimeKept 
