SPECIFICATION FairSpecL
CONSTANTS
  HEADER_SIZE = 2
  BUFFER_SIZE = 3
  RECV_TIMEOUT = 1
  Lens <- MCLens
  Garbage <- MCGarbage
  MayCorrupt = TRUE
  MayReset = TRUE
  MaxFrames = 3
INVARIANTS TypeOKL Framing NoByteTwice NothingKeptBack
PROPERTIES WholeFrameDelivered CleanEnd
CHECK_DEADLOCK FALSE
