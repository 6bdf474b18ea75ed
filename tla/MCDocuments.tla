------------------------------ MODULE MCDocuments ------------------------------
(***************************************************************************)
(* The modules of requests that overlap, checked together: no two of them  *)
(* share a table, so a behaviour is a scene of one of them and leaves the  *)
(* tables of the others as they were.  The number of states is the sum of  *)
(* theirs.                                                                 *)
(***************************************************************************)
EXTENDS Delivery, Purchasing, Payables, Receivables, FixedAssets,
        HumanResources, Licensing, Trials, Reorder, Billing, Quotations,
        JobOrders, GeneralLedger, Budgets, CategoryTree, AuditChain,
        HrPolicies, BankReconciliation, Hiring, PlanChange, SettingsCache,
        PriceLists, Marketing, TLC

CONSTANTS s1, s2, g1, g2, p1, a1, a2, c1, c2, c3, l1, l2

VARIABLE scene

(* The order is delivered within the windows of both settlements. *)
WholeWindow == [s \in Settlements |-> Orders]
OrderOfAll == [g \in Receipts |-> p1]
LinesOfOne == [l \in Lines |-> p1]
(* What is applied of a receipt may be negative. *)
AnySign == {-1, 2}
AllDays == [r \in LeaveRequests |-> Days]
(* One SKU can be ordered, the other has no supplier. *)
OneSupplied == [s \in Skus |-> IF s = s1 THEN {p1} ELSE {}]

MonthlyPriceOf == [p \in Plans |-> IF p = l1 THEN 2 ELSE 5]

(* The goods of an order come back, or it is settled, in the one or in     *)
(* both settlements; the customer owes up to an invoice, and a receipt is  *)
(* refunded once; the payments are of the first period; accounts,          *)
(* settlements, receipts of goods and categories are made in one order,    *)
(* prices before lists; the first category stays under the root; the first *)
(* account stays active, in a category that is not expense, and what       *)
(* updates or reports one account takes the second; a balance sheet comes  *)
(* after both; a report runs beside no other call, entries being posted    *)
(* and accounts changed without one.                                       *)
OneAtATime ==
  /\ \/ \A d \in Orders : restocks[d] = 0
     \/ \A s \in Settlements : settlement[s].status = "none"
  /\ settlement[s2].status # "none" => settlement[s1].status # "none"
  /\ grn[g2].status # "none" => grn[g1].status # "none"
  /\ credit \in 0..InvoiceTotal
  /\ \A r \in PaymentReceipts : receipt[r].refunded <= 1
  /\ \A p \in Periods \ {1}, r \in Given : licensePayments[p][r] = 0
  /\ Exists(a2) => Exists(a1)
  /\ chart[a1].active /\ chart[a1].category # "expense"
  /\ scene = "ledger" => \A u \in Users : call[u].op \in {"ledger", "update"} => call[u].doc = a2
  /\ \A u \in Users : call[u].op \in {"sheet", "sheetSummed", "income", "sheetDone"} => Exists(a2)
  /\ \A u \in Users : call[u].op \in {"ledger", "sheet", "sheetSummed", "income", "sheetDone"}
       => \A v \in Users \ {u} : call[v] = NoCall
  /\ category[c1].exists => category[c1].parent = Root
  /\ category[c3].exists => category[c2].exists
  /\ category[c2].exists => category[c1].exists
  /\ items = <<>> \/ \A l \in Lists : priceList[l] = "none"

tables ==
  <<deliveryTables, purchasingTables, payablesTables, receivablesTables,
    assetsTables, hrTables, licensingTables, trialsTables, reorderTables,
    billingTables, quotationsTables, jobOrdersTables, glTables, budgetsTables,
    categoryTreeTables, auditTables, hrPoliciesTables, bankTables,
    hiringTables, planChangeTables, settingsTables, priceListsTables,
    marketingTables>>
vars == <<scene, call, tables>>

Scenes ==
  {"delivery", "purchasing", "payables", "receivables", "assets", "hr",
   "licensing", "trials", "reorder", "billing", "quotations", "jobOrders",
   "ledger", "budgets", "categories", "audit", "policies", "bank", "hiring",
   "planChange", "settings", "prices", "marketing"}

Init ==
  /\ scene \in Scenes
  /\ DeliveryInit
  /\ PurchasingInit
  /\ PayablesInit
  /\ ReceivablesInit
  /\ AssetsInit
  /\ HrInit
  /\ LicensingInit
  /\ TrialsInit
  /\ ReorderInit
  /\ BillingInit
  /\ QuotationsInit
  /\ JobOrdersInit
  /\ GlInit
  /\ BudgetsInit
  /\ CategoryTreeInit
  /\ AuditInit
  /\ HrPoliciesInit
  /\ BankInit
  /\ HiringInit
  /\ PlanChangeInit
  /\ SettingsInit
  /\ PriceListsInit
  /\ MarketingInit
  /\ scene # "reorder" => low = {}

(* The components that are not of the scene rest. *)
Rest ==
  /\ UNCHANGED scene
  /\ scene # "delivery" => UNCHANGED deliveryTables
  /\ scene # "purchasing" => UNCHANGED purchasingTables
  /\ scene # "payables" => UNCHANGED payablesTables
  /\ scene # "receivables" => UNCHANGED receivablesTables
  /\ scene # "assets" => UNCHANGED assetsTables
  /\ scene # "hr" => UNCHANGED hrTables
  /\ scene # "licensing" => UNCHANGED licensingTables
  /\ scene # "trials" => UNCHANGED trialsTables
  /\ scene # "reorder" => UNCHANGED reorderTables
  /\ scene # "billing" => UNCHANGED billingTables
  /\ scene # "quotations" => UNCHANGED quotationsTables
  /\ scene # "jobOrders" => UNCHANGED jobOrdersTables
  /\ scene # "ledger" => UNCHANGED glTables
  /\ scene # "budgets" => UNCHANGED budgetsTables
  /\ scene # "categories" => UNCHANGED categoryTreeTables
  /\ scene # "audit" => UNCHANGED auditTables
  /\ scene # "policies" => UNCHANGED hrPoliciesTables
  /\ scene # "bank" => UNCHANGED bankTables
  /\ scene # "hiring" => UNCHANGED hiringTables
  /\ scene # "planChange" => UNCHANGED planChangeTables
  /\ scene # "settings" => UNCHANGED settingsTables
  /\ scene # "prices" => UNCHANGED priceListsTables
  /\ scene # "marketing" => UNCHANGED marketingTables

Next ==
  \/ scene = "delivery" /\ DeliveryNext /\ Rest
  \/ scene = "purchasing" /\ PurchasingNext /\ Rest
  \/ scene = "payables" /\ PayablesNext /\ Rest
  \/ scene = "receivables" /\ ReceivablesNext /\ Rest
  \/ scene = "assets" /\ AssetsNext /\ Rest
  \/ scene = "hr" /\ HrNext /\ Rest
  \/ scene = "licensing" /\ LicensingNext /\ Rest
  \/ scene = "trials" /\ TrialsNext /\ Rest
  \/ scene = "reorder" /\ ReorderNext /\ Rest
  \/ scene = "billing" /\ BillingNext /\ Rest
  \/ scene = "quotations" /\ QuotationsNext /\ Rest
  \/ scene = "jobOrders" /\ JobOrdersNext /\ Rest
  \/ scene = "ledger" /\ GlNext /\ Rest
  \/ scene = "budgets" /\ BudgetsNext /\ Rest
  \/ scene = "categories" /\ CategoryTreeNext /\ Rest
  \/ scene = "audit" /\ AuditNext /\ Rest
  \/ scene = "policies" /\ HrPoliciesNext /\ Rest
  \/ scene = "bank" /\ BankNext /\ Rest
  \/ scene = "hiring" /\ HiringNext /\ Rest
  \/ scene = "planChange" /\ PlanChangeNext /\ Rest
  \/ scene = "settings" /\ SettingsNext /\ Rest
  \/ scene = "prices" /\ PriceListsNext /\ Rest
  \/ scene = "marketing" /\ MarketingNext /\ Rest

Spec == Init /\ [][Next]_vars

(* The rows and the calls of the scene's component have their types. *)
TypeOK ==
  /\ scene = "delivery" => DeliveryTypeOK
  /\ scene = "purchasing" => PurchasingTypeOK
  /\ scene = "payables" => PayablesTypeOK
  /\ scene = "receivables" => ReceivablesTypeOK
  /\ scene = "assets" => AssetsTypeOK
  /\ scene = "hr" => HrTypeOK
  /\ scene = "licensing" => LicensingTypeOK
  /\ scene = "trials" => TrialsTypeOK
  /\ scene = "reorder" => ReorderTypeOK
  /\ scene = "billing" => BillingTypeOK
  /\ scene = "quotations" => QuotationsTypeOK
  /\ scene = "jobOrders" => JobOrdersTypeOK
  /\ scene = "ledger" => GlTypeOK
  /\ scene = "budgets" => BudgetsTypeOK
  /\ scene = "categories" => CategoryTreeTypeOK
  /\ scene = "audit" => AuditTypeOK
  /\ scene = "policies" => HrPoliciesTypeOK
  /\ scene = "bank" => BankTypeOK
  /\ scene = "hiring" => HiringTypeOK
  /\ scene = "planChange" => PlanChangeTypeOK
  /\ scene = "settings" => SettingsTypeOK
  /\ scene = "prices" => PriceListsTypeOK
  /\ scene = "marketing" => MarketingTypeOK

(* What happens once happens once: a claimed notice of a trial goes out    *)
(* once, the renewals of a licence add one cycle a window, of two          *)
(* activations that overlap one budget of the year is active, and a use of *)
(* a promotion counts once.                                                *)
OncePerOccasion ==
  /\ NoticeOnce
  /\ RenewedOncePerWindow
  /\ OneActivePerYear
  /\ UseCountedOnce

(* A cancelled document holds nothing back: a cancelled settlement no      *)
(* delivery, a rejected receipt no quantity of its order, a cancelled      *)
(* leave no day, whatever overlaps the cancellation.                       *)
CancelledHoldsNothing ==
  /\ SettledByLiveOne
  /\ SentBackUncounted
  /\ CancelledHoldsNoDay

(* A status says that its step was done: a converted quotation has its     *)
(* order, a ready job was in production, a billed period has ended, an     *)
(* expired trial had its days of grace, a notified contract its notice.    *)
StatusIsEarned ==
  /\ ConvertedNamesItsOrder
  /\ MadeBeforeReady
  /\ BilledAfterItsEnd
  /\ ExpiredAfterGrace
  /\ NotifiedWasSent

(* A closed document stays closed: what writes its status, or the amounts  *)
(* it was closed with, is a call that had read it before it was closed;    *)
(* and the price of a day stands until a price is set for that day.        *)
ClosedStaysClosed ==
  /\ DeliverySealed
  /\ OrderSealed
  /\ InvoiceSealed
  /\ NoChargeAfterDisposal
  /\ RunSealed
  /\ RevokedStaysRevoked
  /\ InvoiceSettled
  /\ QuoteFrozen
  /\ JobSealed
  /\ CategorySealed
  /\ BudgetSealed
  /\ PublishedTextStands
  /\ RecoSealed
  /\ ApplicationFinal
  /\ PricesStand
  /\ SentAndUsedStay

(* The users stand for one another. *)
Symmetry == Permutations(Users)
===============================================================================
