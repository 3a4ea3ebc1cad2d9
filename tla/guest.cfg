SPECIFICATION FairSpec
CONSTANTS
  Hasty = FALSE
  Budgets <- Either
INVARIANTS GuestAlive QuietTalk BothInUse
PROPERTIES SwitchEnds
CHECK_DEADLOCK FALSE
