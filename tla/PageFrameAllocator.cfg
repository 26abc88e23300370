SPECIFICATION LoopSpec
CONSTANTS
  NumFrames = 8
  FrameSize = 2
  LowFrames = 1
  KernelEnd = 2
  MaxRun = 3
  MemoryMaps <- MCMemoryMaps
INVARIANTS
  NoFrameHandedOutTwice
  UsedIsHeld
  UsableIsRam
PROPERTIES
  ImplementsFrameClients
CHECK_DEADLOCK FALSE
