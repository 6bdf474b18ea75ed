SPECIFICATION Spec
CONSTANTS
  Users = {u1, u2}
  Orders = {d1}
  Settlements = {s1, s2}
  None = None
  MaxRestocks = 2
  Window <- WholeWindow
  PurchaseOrders = {p1}
  Receipts = {g1, g2}
  OrderOf <- OrderOfAll
  Lines = {l1, l2}
  LineOf <- LinesOfOne
  Ordered = 1
  AllowOverReceive = FALSE
  MaxRevisions = 1
  Bills = {b1, b2}
  BillTotal = 2
  MaxPayments = 3
  SalesInvoices = {d1}
  InvoiceTotal = 2
  PaymentReceipts = {r1}
  ReceiptAmount = 2
  Amounts <- AnySign
  MaxReceived = 2
  MaxTaken = 1
  Assets = {a1}
  Months = {m1}
  Cost = 1
  MaxCharge = 1
  MaxCost = 2
  MaxRows = 2
  Days = {d1}
  LeaveRequests = {r1}
  LeaveDays <- AllDays
  Entitled = 1
  Runs = {p1}
  NoRequest = NoRequest
  MaxEntries = 2
  Devices = {d1, d2}
  MaxDevices = 1
  Cycle = 2
  MaxWindow = 3
  Grace = 1
  LastDay = 3
  Skus = {s1, s2}
  Suppliers = {p1}
  SupplierOf <- OneSupplied
  MaxDrafts = 1
  LastPeriod = 2
  References = {r1}
  NoReference = NoReference
  MaxRecorded = 2
  Quotes = {q1}
  MaxVersions = 2
  MaxOrders = 2
  Jobs = {j1}
  Accounts = {a1, a2}
  Categories = {"current_assets", "revenue", "expense"}
  LastDate = 2
  YearLength = 1
  MaxJournal = 2
  BudgetIds = {b1, b2}
  MaxEdits = 1
  ProductCategories = {c1, c2, c3}
  Root = Root
  MaxDepth = 3
  MaxAudited = 3
  LastTick = 3
  Limit = 3
  Policies = {p1}
  MaxTexts = 3
  Recos = {r1}
  BankLines = {l1}
  Adjustments = {a1}
  MaxPosted = 2
  Applications = {a1}
  Rounds = {r1}
  Contracts = {c1}
  MaxNotices = 2
  Plans = {l1, l2}
  MonthlyPrice <- MonthlyPriceOf
  PeriodDays = 3
  MaxCharges = 2
  Settings = {l1, l2}
  Ttl = 2
  Lists = {l1, l2}
  LastPriceDay = 3
  MaxItems = 3
  Campaigns = {c1}
  Promotions = {p1}
  MaxSendings = 2
  MaxUsed = 2
  LastTime = 3
  a1 = a1
  a2 = a2
  c1 = c1
  c2 = c2
  c3 = c3
  l1 = l1
  l2 = l2
  LastStage = 3
  s1 = s1
  s2 = s2
  g1 = g1
  g2 = g2
  p1 = p1
SYMMETRY Symmetry
CONSTRAINT OneAtATime
INVARIANTS
  TypeOK
  BillPaidIsCovered
  InvoicePaidIsCovered
  LedgerMatchesSchedule
  RetriesDoNotAddUp
  LedgerOutByMovement
  
  ChainVerifies
  ThereAndBackIsFree
  ChangeIsSeen
  OncePerOccasion
  CancelledHoldsNothing
  StatusIsEarned
PROPERTIES
  MoveKeepsTree
  ClosedStaysClosed
CHECK_DEADLOCK FALSE
