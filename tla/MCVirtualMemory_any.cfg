CONSTANTS
  NumPhysPages = 2
  TLBSize = 2
  StackPages = 1
  MaxProcesses = 2
  MaxThreads = 2
  ImagePages <- SomePages
  BssPages <- NoBss
  Touched <- EveryPage
  Written <- PageZero
  Stacked = {2}
  Forking = {1}
  Page = 2
  StackBytes = 2
  HeaderBytes = 5
  MaxSize = 3
  Cuts = {0, 1}
  Sizes <- MCSizes
SPECIFICATION ProgramSpec
INVARIANTS CopiesInStep UsedFramesQueued ProgramsLoadAlike
PROPERTIES ImplementsMemory ExitHaltsLast
CHECK_DEADLOCK FALSE
