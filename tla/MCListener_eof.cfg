SPECIFICATION FairSpecL
CONSTANTS
  HEADER_SIZE = 2
  BUFFER_SIZE = 3
  RECV_TIMEOUT = 2
  Lens <- MCLens
  Garbage <- MCGarbage
  MayCorrupt = FALSE
  MayReset = TRUE
  MaxFrames = 2
PROPERTY WaitEnds
CHECK_DEADLOCK FALSE
