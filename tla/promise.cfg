SPECIFICATION FairSpec
CONSTANTS
  Dev = {d1}
  Junk = Junk
  Wire = {d1}
  Boot = {"CLK"}
  Leftover = FALSE
  DrainMax = 2
  Retries = 1
  Budgets <- Race
PROPERTIES Promise NoneWaitsForever
CHECK_DEADLOCK FALSE
