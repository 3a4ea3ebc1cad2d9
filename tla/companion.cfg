SPECIFICATION FairSpec
CONSTANTS
  Rec = {r1, r2}
  Ps = {p1}
  Client = {c1, c2}
  Adapter = {a1, a2}
  Budgets <- Mixed
  NoOne = NoOne
INVARIANTS RecordsValid Exclusive NoAdapterMissed
PROPERTIES DeadRecordsGo
CHECK_DEADLOCK FALSE
