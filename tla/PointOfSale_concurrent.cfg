SPECIFICATION Spec
CONSTANTS
  w1 = w1
  u1 = u1
  u2 = u2
  po = po
  Workers = {p1, p2}
  Warehouses = {w1}
  Ops <- AllOps
  Docs <- AllDocs
  Costs = {1}
  MaxQty = 1
  PreventNegative = TRUE
  NoWorker = NoWorker
  Ulids <- TwoReceipts
  Opening = po
  Shifts = {s1}
  Store = w1
  ShiftOf <- FirstShift
  Cash <- Tender
  OpeningCash = 0
  MaxCash = 1
  MaxEntries = 1
SYMMETRY Perms
INVARIANTS TypeOK SoldOnce RestoredOnce
PROPERTY ShiftSealed
CHECK_DEADLOCK FALSE
