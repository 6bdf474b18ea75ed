------------------------------ MODULE SalesOrders ------------------------------
(***************************************************************************)
(* Sales orders and the stock they reserve:                                *)
(* apps/api/src/modules/sales/orders/sales-orders.service.ts on top of     *)
(* InventoryService.reserve and releaseReservation.  Sales that do not     *)
(* come from an order (POS receipts, invoices) move the same stock.  Each  *)
(* handler reads the order before it writes; confirm and cancel write the  *)
(* new status whatever it has become.                                      *)
(***************************************************************************)
EXTENDS StockMovement, FiniteSets, SequencesExt

CONSTANTS
  Orders,         \* orders, a subset of Docs: the requests to place them
  OrderLine,      \* [wh, qty] of each order
  OrderYear,      \* the year each order is placed in
  Opening, Sale,  \* documents of opening receipts and of other sales, in Docs
  NullsDistinct,  \* does the index of document_sequences take NULLs as distinct?
  MaxEntries      \* bound: entries of a warehouse when a receipt or sale starts

ASSUME OrdersAssumption ==
  /\ Ops = {"receive", "issue", "place", "confirm", "cancel"}
  /\ Orders \cup {Opening, Sale} \subseteq Docs
  /\ OrderLine \in [Orders -> [wh : Warehouses, qty : 1..MaxQty]]
  /\ OrderYear \in [Orders -> Nat]
  /\ IsFiniteSet(Orders)
  /\ NullsDistinct \in BOOLEAN

VARIABLE orders   \* sales_orders: the status of each order

vars == <<stockVars, orders>>

Status == {"none", "draft", "confirmed", "cancelled"}

Placed(o) == orders[o] # "none"

Line(o, dir) ==
  [dir |-> dir, wh |-> OrderLine[o].wh, qty |-> OrderLine[o].qty,
   cost |-> CHOOSE c \in Costs : TRUE, src |-> OrderLine[o].wh]

Init == StockInit /\ orders = [o \in Orders |-> "none"]

-----------------------------------------------------------------------------
(* An inbound movement, an outbound movement of a sale without an order. *)
Receive(p) ==
  /\ \E w \in Warehouses, q \in 1..MaxQty, c \in Costs :
       /\ Len(ledger[w]) < MaxEntries
       /\ Begin(p, "receive", Opening,
                <<[dir |-> "in", wh |-> w, qty |-> q, cost |-> c, src |-> w]>>)
  /\ UNCHANGED orders

Issue(p) ==
  /\ \E w \in Warehouses, q \in 1..MaxQty, c \in Costs :
       /\ Len(ledger[w]) < MaxEntries
       /\ Begin(p, "issue", Sale,
                <<[dir |-> "out", wh |-> w, qty |-> q, cost |-> c, src |-> w]>>)
  /\ UNCHANGED orders

(* create: the stock available is checked whatever the policy, then the    *)
(* transaction inserts the order and reserves its lines.                   *)
Place(p, o) ==
  LET row == balance[OrderLine[o].wh]
  IN  /\ orders[o] = "none"
      /\ \A q \in Workers : tx[q].step = "running" => tx[q].doc # o
      /\ row.onHand - row.reserved >= OrderLine[o].qty
      /\ Begin(p, "place", o, <<Line(o, "reserve")>>)
      /\ UNCHANGED orders

(* The order number is company-wide: with NULLs distinct every order of a  *)
(* company and year gets number 1, and the unique index on (companyId,     *)
(* number) rejects the second.  The INSERT of the order waits for one that *)
(* is not committed, so it is decided by the orders committed in the end.  *)
NumberTaken(o) ==
  NullsDistinct /\ \E q \in Orders : Placed(q) /\ OrderYear[q] = OrderYear[o]

NumberCollides(p) ==
  /\ tx[p].step = "running"
  /\ tx[p].op = "place"
  /\ NumberTaken(tx[p].doc)
  /\ Discard(p)
  /\ UNCHANGED orders

Confirm(p, o) ==
  /\ orders[o] = "draft"
  /\ Begin(p, "confirm", o, <<>>)
  /\ UNCHANGED orders

(* Mutant: cancelling a confirmed order leaves its reservation. *)
Cancel_ConfirmedKeepsStock(p, o) ==
  /\ orders[o] \in {"draft", "confirmed"}
  /\ Begin(p, "cancel", o, IF orders[o] = "draft" THEN <<Line(o, "release")>> ELSE <<>>)
  /\ UNCHANGED orders

(* cancel releases every line of a draft or confirmed order. *)
Cancel(p, o) ==
  /\ orders[o] \in {"draft", "confirmed"}
  /\ Begin(p, "cancel", o, <<Line(o, "release")>>)
  /\ UNCHANGED orders

Commit(p) ==
  /\ CommitStock(p)
  /\ tx[p].op = "place" => ~NumberTaken(tx[p].doc)
  /\ orders' = CASE tx[p].op = "place"   -> [orders EXCEPT ![tx[p].doc] = "draft"]
                 [] tx[p].op = "confirm" -> [orders EXCEPT ![tx[p].doc] = "confirmed"]
                 [] tx[p].op = "cancel"  -> [orders EXCEPT ![tx[p].doc] = "cancelled"]
                 [] OTHER -> orders

(* No transaction here writes two rows, so none deadlocks. *)
StockStep(p) ==
  /\ \/ ReadBalance(p) \/ WriteBalance(p)
     \/ RejectMovement(p) \/ CreateCollides(p) \/ Rollback(p)
  /\ UNCHANGED orders

Next ==
  \E p \in Workers :
    \/ Receive(p) \/ Issue(p) \/ Commit(p) \/ NumberCollides(p) \/ StockStep(p)
    \/ \E o \in Orders : Place(p, o) \/ Confirm(p, o) \/ Cancel(p, o)

Spec == Init /\ [][Next]_vars

-----------------------------------------------------------------------------
(* Stock and orders keep their types. *)
TypeOK == StockTypeOK /\ orders \in [Orders -> Status]

(* The quantity order o asks for in warehouse w, with a status.            *)
Asks(o, status, w) ==
  IF OrderLine[o].wh = w /\ status \in {"draft", "confirmed"} THEN OrderLine[o].qty ELSE 0

Asked(table, w) == SumFunction([o \in Orders |-> Asks(o, table[o], w)])

(* What the orders not cancelled ask for. *)
Outstanding(w) == Asked(orders, w)

(* No reservation leaks: whatever calls overlap, collide or fail, no unit  *)
(* stays reserved that no live order asks for.                             *)
NoLeakedReservation ==
  \A w \in Warehouses : balance[w].reserved <= Outstanding(w)

=============================================================================
