SPECIFICATION FairSpec
CONSTANTS
  Size = 2
  Back = 1
  SeekAhead = 1
  NoByte = NoByte
  Length = 3
  ChunkSize = 2
  MaxRead = 2
  MaxFaults = 1
PROPERTY
  CallReturnsAfterFailure
CHECK_DEADLOCK FALSE
