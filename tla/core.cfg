SPECIFICATION FairSpec
CONSTANTS
  Order <- PdtOrder
  Default <- Nothing
  Early = FALSE
  Budgets <- Mixed
INVARIANTS TypeOK   FreedUnused
PROPERTIES Settles
