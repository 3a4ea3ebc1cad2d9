SPECIFICATION Spec
CONSTANTS
  Dev = {d1}
  Junk = Junk
  Wire = {d1}
  Boot = {"INTR", "CLK"}
  Leftover = FALSE
  DrainMax = 2
  Retries = 1
  Budgets <- Traffic
INVARIANTS TypeOK NoLoss  ArmedWhenListening DeliveryFence
CHECK_DEADLOCK FALSE
