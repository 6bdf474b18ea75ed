SPECIFICATION Spec
CONSTANTS
  w1 = w1
  u1 = u1
  u2 = u2
  po = po
  Workers = {p1}
  Warehouses = {w1}
  Ops <- AllOps
  Docs <- AllDocs
  Costs = {1}
  MaxQty = 1
  PreventNegative = TRUE
  NoWorker = NoWorker
  Ulids <- OneReceipt
  Opening = po
  Shifts = {s1}
  Store = w1
  ShiftOf <- FirstShift
  Cash <- CashTender
  OpeningCash = 0
  MaxCash = 0
  MaxEntries = 1
PROPERTY ExpectedIsDrawer
CHECK_DEADLOCK FALSE
