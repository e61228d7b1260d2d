SPECIFICATION FairSpecB
CONSTANTS
  HEADER_SIZE = 1
  BUFFER_SIZE = 4
  RECV_TIMEOUT = 0
  Lens = {1}
  Garbage <- MCGarbage
  MayCorrupt = FALSE
  MayReset = TRUE
  MaxFrames = 2
  OutLens = {1}
  Unloggable <- MCNone
  MaxUserSends = 0
  MaxSubRequests = 0
PROPERTY QueuedIsProcessed
CHECK_DEADLOCK FALSE
