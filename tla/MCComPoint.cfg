SPECIFICATION FairSpec
CONSTANTS
  HEADER_SIZE = 1
  BUFFER_SIZE = 4
  RECV_TIMEOUT = 0
  Lens = {1}
  Garbage <- MCGarbage
  MayCorrupt = TRUE
  MayReset = TRUE
  MaxFrames = 2
  OutLens <- MCOutLens
  Unloggable <- MCLong
  MaxUserSends = 1
INVARIANTS TypeOK Conservation NoLostWakeup OutputFramed AnswersInOrder
PROPERTIES EveryMessageProcessed TransmitReturns ImplementsChannel
CHECK_DEADLOCK FALSE
