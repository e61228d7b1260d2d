SPECIFICATION Spec
CONSTANTS
  MaxClients = 1
INVARIANT HandlerOutlivesWork
CHECK_DEADLOCK FALSE
