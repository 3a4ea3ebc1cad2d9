SPECIFICATION Spec
CONSTANTS
  Adapter = {a1, a2}
  Boot = Boot
  Retries = 2
  Budgets <- Either
INVARIANTS Restored Exclusive ImcInStep ResultMine
SYMMETRY Symmetry
