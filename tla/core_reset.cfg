SPECIFICATION Spec
CONSTANTS
  Order <- PdtOrder
  Default <- ResetOnly
  Early = FALSE
  Budgets <- Once
INVARIANTS ResetNoticed
