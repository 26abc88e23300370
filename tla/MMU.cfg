SPECIFICATION Spec
CONSTANTS
  NumFrames = 10
  FrameSize = 1
  LowFrames = 1
  KernelEnd = 2
  Entries = 4
  ReadOnlyEnd = 1
  VGAPage = 0
  Rams <- MCRams
  PageCounts = {1, 2, 4}
  Values = {1}
INVARIANTS
  FramesAccounted
  IdentityMapIntact
PROPERTIES
  ImplementsVirtualMemory
  PallocNullOnlyWhenFull
CHECK_DEADLOCK FALSE
