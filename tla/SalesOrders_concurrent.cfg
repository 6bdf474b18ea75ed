SPECIFICATION Spec
CONSTANTS
  w1 = w1
  so1 = so1
  so2 = so2
  so3 = so3
  po = po
  sale = sale
  Workers = {p1, p2}
  Warehouses = {w1}
  Ops <- AllOps
  Docs <- AllDocs
  Costs = {1}
  MaxQty = 2
  PreventNegative = TRUE
  NoWorker = NoWorker
  Orders <- ThreeOrders
  OrderLine <- Lines
  OrderYear <- Years
  Opening = po
  Sale = sale
  NullsDistinct = TRUE
  MaxEntries = 2
SYMMETRY Perms
INVARIANTS TypeOK NoLeakedReservation
CHECK_DEADLOCK FALSE
