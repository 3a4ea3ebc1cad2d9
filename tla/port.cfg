SPECIFICATION FairSpec
CONSTANTS
  PktSize = 2
  ArraySize = 3
  ResetAfter = 1
  ResyncTime = TRUE
  Writes = {"rate", "protocol"}
  Budgets <- Either
INVARIANTS  NoUseAfterFree NeverStranded ActiveIsStreaming
PROPERTIES BackInService
CHECK_DEADLOCK FALSE
