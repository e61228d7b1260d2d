SPECIFICATION FairSpecLife
CONSTANTS
  HEADER_SIZE = 1
  BUFFER_SIZE = 2
  RECV_TIMEOUT = 0
  Lens <- MCLens
  Garbage <- MCGarbage
  MayCorrupt = TRUE
  MayReset = FALSE
  MaxFrames = 2
  OutLens <- MCOutLens
  Unloggable <- MCLong
  MaxUserSends = 1
  WT_TIMEOUT = 1
INVARIANTS TypeOKLife SignalHasTarget HalfFrameIsLast
PROPERTIES QuietAfterDestruction DestructionEnds ProcessedUnlessStuck
CHECK_DEADLOCK FALSE
