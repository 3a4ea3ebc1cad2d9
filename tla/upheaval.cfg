SPECIFICATION Spec
CONSTANTS
  Dev = {d1}
  Junk = Junk
  Wire = {d1, Junk}
  Boot = {"INTR", "CLK"}
  Leftover = TRUE
  DrainMax = 2
  Retries = 1
  Budgets <- Upheaval
INVARIANTS WindowRouting FirmwareRestored QuietAfterStop
CHECK_DEADLOCK FALSE
