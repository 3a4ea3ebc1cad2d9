SPECIFICATION Spec
CONSTANTS
  Low = {"data"}
  Fourth = {"data", "stick"}
  Motion = {"data", "start", "high"}
  Plain = {"bare", "stick"}
  Ambiguous = FALSE
  ResetAfter = 12
  Lag = 2
  MaxLoss = 1
INVARIANTS Whole NothingOwed 
