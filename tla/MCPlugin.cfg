SPECIFICATION FairSpec
CONSTANTS
  MaxClients = 2
INVARIANTS TypeOK ListIsLive ActiveIsKept NoneForgotten
PROPERTIES GoneIsReaped PluginEnds
CHECK_DEADLOCK FALSE
