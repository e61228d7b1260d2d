SPECIFICATION FairSpec
CONSTANTS
  Strays <- MCStrays
  MaxStrays = 0
PROPERTY FailureShutsDown
CHECK_DEADLOCK FALSE
