SPECIFICATION FairSpec
CONSTANTS
  Strays <- MCStrays
  MaxStrays = 2
INVARIANTS TypeOK NeverAhead InOrder Classified
PROPERTIES Completes GoneEndsPlugin
CHECK_DEADLOCK FALSE
