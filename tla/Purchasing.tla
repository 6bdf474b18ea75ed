------------------------------ MODULE Purchasing ------------------------------
(***************************************************************************)
(* Purchase orders and the receipts of their goods:                        *)
(* orders/purchase-orders.service.ts and grn/grn.service.ts of             *)
(* apps/api/src/modules/purchases.                                         *)
(*                                                                         *)
(* A receipt checks the order and its lines as read before its             *)
(* transaction.  The transaction increments its own lines, whose rows it   *)
(* holds until it commits, and then reads all the lines for the status of  *)
(* the order: what another has not committed yet it does not see.  A       *)
(* receipt names a line once.  Its entry is posted with it and never       *)
(* reversed.                                                               *)
(*                                                                         *)
(* Orders are the drafts of the auto-reorder.  As built, create of an      *)
(* order and of a receipt asks nextNumber with a sequenceCode and no       *)
(* prefix, and the NOT NULL column document_sequences.prefix refuses it:   *)
(* the receipts below show the handlers with the number drawn.             *)
(***************************************************************************)
EXTENDS Requests, Functions

CONSTANTS
  PurchaseOrders,
  Lines,            \* purchase_order_lines, by their place in an order
  LineOf,           \* the order of a line
  Receipts,         \* goods_receipt_notes to be
  OrderOf,          \* the order a receipt is of
  Ordered,          \* qtyOrdered of a line
  AllowOverReceive, \* the policy allow_over_receive
  MaxRevisions      \* bound: how often the lines of an order are replaced

ASSUME PurchasingAssumption ==
  /\ LineOf \in [Lines -> PurchaseOrders]
  /\ OrderOf \in [Receipts -> PurchaseOrders] /\ IsFiniteSet(Receipts)
  /\ Ordered \in Nat \ {0} /\ MaxRevisions \in Nat
  /\ AllowOverReceive \in BOOLEAN

VARIABLES
  po,        \* purchase_orders; revision counts the replacements of the lines
  received,  \* qtyReceived of the lines
  grn        \* goods_receipt_notes; brought, what was received of each line;
             \* moved, how often the accepted goods went in less how often out

purchasingTables == <<po, received, grn>>
purchasingVars == <<purchasingTables, call>>

PoStatus == {"none", "draft", "submitted", "approved", "partially_received",
             "received", "cancelled"}
PoRow == [status : PoStatus, revision : 0..MaxRevisions]
Quantities == [Lines -> 0..Ordered]
GrnRow == [status : {"none", "quality_check", "accepted", "rejected"},
           brought : Quantities, moved : Int, revision : 0..MaxRevisions]

PurchasingCall ==
  [op : {"update", "submit", "approve", "cancel"}, doc : PurchaseOrders,
   read : {"draft", "submitted", "approved", "partially_received", "received"}]
  \cup [op : {"receive", "booking"}, doc : Receipts, brought : Quantities, refused : BOOLEAN,
        revision : 0..MaxRevisions, read : PoStatus]
  \cup [op : {"approveQuality", "reject"}, doc : Receipts]

LinesOf(p) == {l \in Lines : LineOf[l] = p}

PurchasingInit ==
  /\ po = [p \in PurchaseOrders |-> [status |-> "none", revision |-> 0]]
  /\ received = [l \in Lines |-> 0]
  /\ grn = [g \in Receipts |-> [status |-> "none", brought |-> [l \in Lines |-> 0],
                                moved |-> 0, revision |-> 0]]
  /\ CallsInit

-----------------------------------------------------------------------------
(* A receipt that is not committed holds the rows of its lines. *)
Holds(u, l) == call[u].op = "booking" /\ call[u].brought[l] > 0

CreateOrder(p) ==
  /\ po[p].status = "none"
  /\ po' = [po EXCEPT ![p].status = "draft"]
  /\ UNCHANGED <<received, grn, call>>

(* update, submit, approve and cancel of an order. *)
StartOrderEdit(u, p) ==
  /\ \E op \in {"update", "submit", "approve", "cancel"} :
       /\ CASE op \in {"update", "submit"} -> po[p].status = "draft"
            [] op = "approve" -> po[p].status = "submitted"
            [] op = "cancel" -> po[p].status \notin {"none", "received", "cancelled"}
       /\ Enter(u, [op |-> op, doc |-> p, read |-> po[p].status])
  /\ UNCHANGED purchasingTables

(* They write by the id alone ...                                          *)
FinishOrderEdit(u) ==
  /\ call[u].op \in {"submit", "approve", "cancel"}
  /\ po' = [po EXCEPT ![call[u].doc].status = CASE call[u].op = "submit" -> "submitted"
                                                [] call[u].op = "approve" -> "approved"
                                                [] call[u].op = "cancel" -> "cancelled"]
  /\ Leave(u)
  /\ UNCHANGED <<received, grn>>

(* ... and update deletes the lines, once no receipt holds one, and        *)
(* creates new ones.                                                       *)
ReplaceLines(u) ==
  LET p == call[u].doc
  IN  /\ call[u].op = "update"
      /\ \A v \in Users, l \in LinesOf(p) : ~Holds(v, l)
      /\ po[p].revision < MaxRevisions
      /\ po' = [po EXCEPT ![p].revision = @ + 1]
      /\ received' = [l \in Lines |-> IF LineOf[l] = p THEN 0 ELSE received[l]]
      /\ Leave(u)
      /\ UNCHANGED grn

-----------------------------------------------------------------------------
(* create of a receipt finds the order receivable, and room on its lines.  *)
StartReceipt(u, g) ==
  LET p == OrderOf[g]
  IN  /\ grn[g].status = "none"
      /\ po[p].status \in {"approved", "partially_received"}
      /\ \E brought \in Quantities, refused \in BOOLEAN :
           /\ \E l \in Lines : brought[l] > 0
           /\ \A l \in Lines : brought[l] > 0 =>
                /\ LineOf[l] = p
                /\ AllowOverReceive \/ received[l] + brought[l] <= Ordered
           /\ Enter(u, [op |-> "receive", doc |-> g, brought |-> brought, refused |-> refused,
                        revision |-> po[p].revision, read |-> po[p].status])
      /\ UNCHANGED purchasingTables

(* The status of the order, by the lines as a receipt reads them after its *)
(* own increments, or as it was read before the transaction.               *)
StatusAfter(p, brought, read) ==
  LET now(l) == received[l] + brought[l]
  IN  IF \A l \in LinesOf(p) : now(l) >= Ordered THEN "received"
      ELSE IF \E l \in LinesOf(p) : now(l) > 0 THEN "partially_received"
      ELSE read

(* The lines it read are still there: it increments its own, which waits   *)
(* for a receipt that holds one, and reads them all.                       *)
TakeLines(u) ==
  LET c == call[u]
      p == OrderOf[c.doc]
  IN  /\ c.op = "receive"
      /\ po[p].revision = c.revision
      /\ \A v \in Users, l \in Lines : c.brought[l] > 0 => ~Holds(v, l)
      /\ Proceed(u, [c EXCEPT !.op = "booking", !.read = StatusAfter(p, c.brought, c.read)])
      /\ UNCHANGED purchasingTables

(* It commits, and gives the order its status, whatever that has become.   *)
FinishReceipt(u) ==
  LET c == call[u]
      p == OrderOf[c.doc]
  IN  /\ c.op = "booking"
      /\ grn[c.doc].status = "none"
      /\ grn' = [grn EXCEPT ![c.doc] =
                   [status |-> IF c.refused THEN "quality_check" ELSE "accepted",
                    brought |-> c.brought, moved |-> 1, revision |-> po[p].revision]]
      /\ received' = [l \in Lines |-> received[l] + c.brought[l]]
      /\ po' = [po EXCEPT ![p].status = c.read]
      /\ Leave(u)

(* approveQuality and reject find the receipt in quality_check.            *)
StartInspection(u, g) ==
  /\ grn[g].status = "quality_check"
  /\ \E op \in {"approveQuality", "reject"} : Enter(u, [op |-> op, doc |-> g])
  /\ UNCHANGED purchasingTables

ApproveQuality(u) ==
  /\ call[u].op = "approveQuality"
  /\ grn' = [grn EXCEPT ![call[u].doc].status = "accepted"]
  /\ Leave(u)
  /\ UNCHANGED <<po, received>>

(* The accepted goods go out again and leave the lines of the order, if    *)
(* they are still there and once none is held; the order keeps its status. *)
RejectReceipt(u) ==
  LET g == call[u].doc
  IN  /\ call[u].op = "reject"
      /\ po[OrderOf[g]].revision = grn[g].revision
      /\ \A v \in Users, l \in Lines : grn[g].brought[l] > 0 => ~Holds(v, l)
      /\ grn' = [grn EXCEPT ![g].status = "rejected", ![g].moved = @ - 1]
      /\ received' = [l \in Lines |-> received[l] - grn[g].brought[l]]
      /\ Leave(u)
      /\ UNCHANGED po

PurchasingFails(u) == Fails(u) /\ UNCHANGED purchasingTables

PurchasingNext ==
  \/ \E p \in PurchaseOrders : CreateOrder(p)
  \/ \E u \in Users, p \in PurchaseOrders : StartOrderEdit(u, p)
  \/ \E u \in Users, g \in Receipts : StartReceipt(u, g) \/ StartInspection(u, g)
  \/ \E u \in Users :
       \/ FinishOrderEdit(u) \/ ReplaceLines(u) \/ TakeLines(u) \/ FinishReceipt(u)
       \/ ApproveQuality(u) \/ RejectReceipt(u) \/ PurchasingFails(u)

PurchasingSpec == PurchasingInit /\ [][PurchasingNext]_purchasingVars

-----------------------------------------------------------------------------
PurchasingTypeOK ==
  /\ po \in [PurchaseOrders -> PoRow]
  /\ received \in [Lines -> Int]
  /\ grn \in [Receipts -> GrnRow]
  /\ call \in [Users -> PurchasingCall \cup {NoCall}]

(* What a line counts as received, receipts not rejected brought, and a    *)
(* rejected receipt left nothing in the warehouse: however receipts,       *)
(* rejections, approvals and updates of the order overlap, goods sent back *)
(* are never counted.                                                      *)
LiveReceipts(p) ==
  {g \in Receipts : OrderOf[g] = p /\ grn[g].status \notin {"none", "rejected"}
                     /\ grn[g].revision = po[p].revision}
SentBackUncounted ==
  /\ \A l \in Lines :
       received[l]
         <= SumFunctionOnSet([g \in Receipts |-> grn[g].brought[l]], LiveReceipts(LineOf[l]))
  /\ \A g \in Receipts : grn[g].status = "rejected" => grn[g].moved <= 0

(* An order cancelled or received stays so: only a call on it or a receipt *)
(* that had read it before can overwrite its status; a receipt rejected    *)
(* later does not.                                                         *)
OrderSealed ==
  [][\A p \in PurchaseOrders :
       /\ po[p].status \in {"received", "cancelled"}
       /\ Fresh(p, po[p].status)
       /\ \A u \in Users : call[u].op \in {"receive", "booking"} => OrderOf[call[u].doc] # p
       => po'[p].status = po[p].status]_purchasingVars
=============================================================================
