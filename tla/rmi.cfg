SPECIFICATION Spec
CONSTANTS
  MapSize = 2
  MaxCount = 2
  Size = 3
  Val = {0, 1}
  MaxLen = 3
  Budget <- Mixed
INVARIANTS TypeOK Exact  
PROPERTIES WriteConfined
