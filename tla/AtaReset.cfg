SPECIFICATION AtaSpec
CONSTANTS
  Drives = {"PATAPI", "SATAPI", "PATA", "none"}
  SectorSize = 4
  AtaSectorSize = 2
  GarbageSizes = {0, 8}
  Chunk = 2
  ByteValues = 4
  LimitModulus = 16
  DiskSectors = 5
  Addresses = {0, 1}
  MaxSectors = 5
PROPERTIES CallsReturn
CHECK_DEADLOCK FALSE
