SPECIFICATION Spec
CONSTANTS
  InitialCapacity = 2
  SectorSize = 5
  FirstDescriptor = 1
  HeaderSize = 2
  Disks <- MCDisks
  Paths <- MCPaths
  Ranges <- MCRanges
INVARIANTS
  FindIsLookup
  ListedCanBeFound
  BytesAsOnDisk
PROPERTY
  MountEnds
CHECK_DEADLOCK FALSE
