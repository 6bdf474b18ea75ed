SPECIFICATION Spec
CONSTANTS
  w1 = w1
  w2 = w2
  t1 = t1
  t2 = t2
  s1 = s1
  s2 = s2
  po = po
  so = so
  Workers = {p1, p2}
  Warehouses = {w1, w2}
  Ops <- AllOps
  Docs <- AllDocs
  Costs = {1}
  MaxQty = 1
  PreventNegative = TRUE
  NoWorker = NoWorker
  Transfers <- NoTransfers
  Sessions <- NoSessions
  Purchase = po
  Sale = so
  SessionWarehouse <- BothCountFirst
  MaxCount = 0
  MaxEntries = 2
INVARIANT BalanceIsLedgerSum
CHECK_DEADLOCK FALSE
