------------------------------- MODULE Delivery -------------------------------
(***************************************************************************)
(* Delivery orders and the settlement of the cash their carriers collect:  *)
(* delivery.service.ts and cod-settlement/cod-settlement.service.ts of     *)
(* apps/api/src/modules/delivery.                                          *)
(*                                                                         *)
(* A handler reads the order or the settlement, checks its status, and     *)
(* writes in a transaction whose where names the id alone.  The return of  *)
(* an order puts the goods of its invoice back.  It would also reverse the *)
(* entry of their cost, which it looks for under SalesInvoiceCOGS: none is *)
(* ever posted under that name, the cost being part of the entry of the    *)
(* invoice, so nothing is reversed and nothing refused.                    *)
(*                                                                         *)
(* An amount is whether there is cash, a total the set of orders summed.   *)
(* A document whose number is taken fails as one rolled back does.         *)
(***************************************************************************)
EXTENDS Requests

CONSTANTS
  Orders,       \* delivery orders
  Settlements,  \* settlements, each the one of a carrier and a window of time
  Window,       \* the orders of the carrier delivered in the window
  None,         \* no settlement
  MaxRestocks   \* bound: how often the goods of an order come back

ASSUME DeliveryAssumption ==
  /\ Window \in [Settlements -> SUBSET Orders]
  /\ None \notin Settlements
  /\ MaxRestocks \in Nat

VARIABLES
  delivery,    \* delivery_orders
  restocks,    \* restocks[d]: how often the goods of d's invoice were put back for d
  settlement   \* cod_settlements

deliveryTables == <<delivery, restocks, settlement>>
deliveryVars == <<deliveryTables, call>>

OrderStatus == {"none", "pending_dispatch", "assigned", "in_transit", "delivered",
                "failed", "returned", "cancelled"}
DeliveryRow == [status : OrderStatus, driver : BOOLEAN, collected : BOOLEAN,
                deposited : BOOLEAN, settledBy : Settlements \cup {None}]
NewOrder == [status |-> "none", driver |-> FALSE, collected |-> FALSE,
             deposited |-> FALSE, settledBy |-> None]

SettlementRow == [status : {"none", "proposed", "posted", "paid", "cancelled"},
                  counted : SUBSET Orders]

DeliveryCall ==
  [op : OrderStatus \cup {"deposit"}, doc : Orders, read : OrderStatus]
  \cup [op : {"propose"}, doc : Settlements, found : SUBSET Orders]
  \cup [op : {"approve", "pay", "void"}, doc : Settlements]

DeliveryInit ==
  /\ delivery = [d \in Orders |-> NewOrder]
  /\ restocks = [d \in Orders |-> 0]
  /\ settlement = [s \in Settlements |-> [status |-> "none", counted |-> {}]]
  /\ CallsInit

-----------------------------------------------------------------------------
(* Mutant: a delivered order may be returned. *)
ValidTransitions_DeliveredReturns(status) ==
  CASE status = "pending_dispatch" -> {"assigned", "cancelled"}
    [] status = "assigned" -> {"in_transit", "cancelled", "pending_dispatch"}
    [] status = "in_transit" -> {"delivered", "failed", "cancelled"}
    [] status = "delivered" -> {"returned"}
    [] status = "failed" -> {"assigned", "returned", "cancelled"}
    [] OTHER -> {}

ValidTransitions(status) ==
  CASE status = "pending_dispatch" -> {"assigned", "cancelled"}
    [] status = "assigned" -> {"in_transit", "cancelled", "pending_dispatch"}
    [] status = "in_transit" -> {"delivered", "failed", "cancelled"}
    [] status = "failed" -> {"assigned", "returned", "cancelled"}
    [] OTHER -> {}

CreateDelivery(d) ==
  /\ delivery[d].status = "none"
  /\ delivery' = [delivery EXCEPT ![d].status = "pending_dispatch"]
  /\ UNCHANGED <<restocks, settlement, call>>

(* assign, dispatch, markDelivered, markFailed, markReturned and cancel    *)
(* find the order in a status from which theirs may follow.                *)
StartTransition(u, d) ==
  /\ \E to \in ValidTransitions(delivery[d].status) \ {"pending_dispatch"} :
       /\ to = "in_transit" => delivery[d].driver
       /\ Enter(u, [op |-> to, doc |-> d, read |-> delivery[d].status])
  /\ UNCHANGED deliveryTables

(* The transaction of each of them.  markDelivered notes whether cash was  *)
(* collected; markReturned writes the order first and then moves the goods *)
(* in, so that no other call writes the order in between.                  *)
FinishTransition(u) ==
  LET d == call[u].doc
      to == call[u].op
  IN  /\ to \in {"assigned", "in_transit", "delivered", "failed", "returned", "cancelled"}
      /\ to = "returned" => restocks[d] < MaxRestocks
      /\ restocks' = [restocks EXCEPT ![d] = IF to = "returned" THEN @ + 1 ELSE @]
      /\ \E cash \in BOOLEAN :
           delivery' = [delivery EXCEPT ![d].status = to,
                                        ![d].driver = @ \/ to = "assigned",
                                        ![d].collected = IF to = "delivered" THEN cash ELSE @]
      /\ Leave(u)
      /\ UNCHANGED settlement

(* depositCod finds cash collected and not deposited. *)
StartDeposit(u, d) ==
  /\ delivery[d].status = "delivered" /\ delivery[d].collected /\ ~delivery[d].deposited
  /\ Enter(u, [op |-> "deposit", doc |-> d, read |-> "delivered"])
  /\ UNCHANGED deliveryTables

FinishDeposit(u) ==
  /\ call[u].op = "deposit"
  /\ delivery' = [delivery EXCEPT ![call[u].doc].deposited = TRUE]
  /\ Leave(u)
  /\ UNCHANGED <<restocks, settlement>>

-----------------------------------------------------------------------------
(* propose finds no settlement of the window, or a cancelled one, and the  *)
(* orders to settle; it sums them up.                                      *)
StartPropose(u, s) ==
  LET eligible == {d \in Window[s] : /\ delivery[d].status = "delivered"
                                     /\ delivery[d].collected
                                     /\ delivery[d].settledBy = None}
  IN  /\ settlement[s].status \in {"none", "cancelled"}
      /\ eligible # {}
      /\ Enter(u, [op |-> "propose", doc |-> s, found |-> eligible])
      /\ UNCHANGED deliveryTables

(* It inserts the settlement and links the orders.  The unique index on    *)
(* carrier and window admits one row, even beside a cancelled one.         *)
FinishPropose(u) ==
  LET s == call[u].doc
  IN  /\ call[u].op = "propose"
      /\ settlement[s].status = "none"
      /\ settlement' = [settlement EXCEPT ![s] = [status |-> "proposed", counted |-> call[u].found]]
      /\ delivery' = [d \in Orders |-> IF d \in call[u].found
                                         THEN [delivery[d] EXCEPT !.settledBy = s]
                                         ELSE delivery[d]]
      /\ Leave(u)
      /\ UNCHANGED restocks

(* approve, markPaid and cancel find the settlement proposed, posted, or   *)
(* neither posted nor paid.                                                *)
StartSettlementStep(u, s) ==
  /\ \E op \in {"approve", "pay", "void"} :
       /\ settlement[s].status \in CASE op = "approve" -> {"proposed"}
                                     [] op = "pay" -> {"posted"}
                                     [] op = "void" -> {"proposed", "cancelled"}
       /\ Enter(u, [op |-> op, doc |-> s])
  /\ UNCHANGED deliveryTables

(* The entry of the settlement and its status; cancel unlinks the orders.  *)
FinishSettlementStep(u) ==
  LET s == call[u].doc
      op == call[u].op
  IN  /\ op \in {"approve", "pay", "void"}
      /\ settlement' = [settlement EXCEPT ![s].status =
                          CASE op = "approve" -> "posted" [] op = "pay" -> "paid"
                            [] op = "void" -> "cancelled"]
      /\ delivery' = [d \in Orders |-> IF op = "void" /\ delivery[d].settledBy = s
                                         THEN [delivery[d] EXCEPT !.settledBy = None]
                                         ELSE delivery[d]]
      /\ Leave(u)
      /\ UNCHANGED restocks

DeliveryFails(u) == Fails(u) /\ UNCHANGED deliveryTables

DeliveryNext ==
  \/ \E d \in Orders : CreateDelivery(d)
  \/ \E u \in Users, d \in Orders : StartTransition(u, d) \/ StartDeposit(u, d)
  \/ \E u \in Users, s \in Settlements : StartPropose(u, s) \/ StartSettlementStep(u, s)
  \/ \E u \in Users :
       \/ FinishTransition(u) \/ FinishDeposit(u) \/ FinishPropose(u) \/ FinishSettlementStep(u)
       \/ DeliveryFails(u)

DeliverySpec == DeliveryInit /\ [][DeliveryNext]_deliveryVars

-----------------------------------------------------------------------------
DeliveryTypeOK ==
  /\ delivery \in [Orders -> DeliveryRow]
  /\ restocks \in [Orders -> 0..MaxRestocks]
  /\ settlement \in [Settlements -> SettlementRow]
  /\ call \in [Users -> DeliveryCall \cup {NoCall}]

(* An order that names a settlement is part of its total, and the          *)
(* settlement is alive: approve, cancel and propose may overlap, but a     *)
(* cancelled settlement holds no order back from the next one.             *)
SettledByLiveOne ==
  \A d \in Orders : delivery[d].settledBy # None =>
    LET s == settlement[delivery[d].settledBy]
    IN  d \in s.counted /\ s.status \notin {"none", "cancelled"}

(* A delivered, returned or cancelled order keeps its status, and no more  *)
(* goods come back for it: only a call that had read it before can         *)
(* overwrite it, or put its goods back a second time.                      *)
DeliverySealed ==
  [][\A d \in Orders :
       /\ delivery[d].status \in {"delivered", "returned", "cancelled"}
       /\ Fresh(d, delivery[d].status)
       => delivery'[d].status = delivery[d].status /\ restocks'[d] = restocks[d]]_deliveryVars
=============================================================================
