---------------------------- MODULE StockMovement ----------------------------
(***************************************************************************)
(* InventoryService.move, reserve and releaseReservation of                *)
(* apps/api/src/modules/inventory/inventory.service.ts, for one storable   *)
(* product variant in several warehouses.                                  *)
(*                                                                         *)
(* Every caller runs its movements inside one Prisma transaction, at READ  *)
(* COMMITTED.  A movement is a plain SELECT of the balance row, a          *)
(* computation in the process, then an UPDATE that writes the computed     *)
(* quantity and average cost, and an INSERT into the append-only ledger.   *)
(* An UPDATE (or the INSERT of a missing row) waits for the transaction    *)
(* that last wrote the row, and holds the row until its own transaction    *)
(* ends.  The SELECT takes no lock, though a comment calls it one.         *)
(*                                                                         *)
(* A transaction is a list of movements, the modules that extend this one  *)
(* say which lists there are, and what else the commit writes.             *)
(***************************************************************************)
EXTENDS Integers, Sequences

CONSTANTS
  Workers,          \* request handlers, each with its own transaction
  Warehouses,
  Ops,              \* the operations whose transaction moves stock
  Docs,             \* documents a movement refers to (referenceId)
  Costs,            \* unit costs of inbound movements
  MaxQty,           \* bound: the largest quantity of one movement
  PreventNegative,  \* the policy prevent_negative_stock ('true' or unset)
  NoWorker          \* "no holder" of a row lock

ASSUME StockAssumption ==
  /\ Costs \subseteq Nat /\ Costs # {}
  /\ MaxQty \in Nat \ {0}
  /\ PreventNegative \in BOOLEAN
  /\ NoWorker \notin Workers

VARIABLES
  balance,  \* inventory_balances, committed: one row per warehouse
  ledger,   \* stock_ledger, committed: ledger[w] the entries of w, oldest first
  holder,   \* holder[w]: the transaction that holds the row of w, or NoWorker
  tx        \* tx[p]: the transaction of worker p

stockVars == <<balance, ledger, holder, tx>>

Row == [exists : BOOLEAN, onHand : Int, reserved : Int, cost : Int]
NoRow == [exists |-> FALSE, onHand |-> 0, reserved |-> 0, cost |-> 0]

Entry == [change : Int, after : Int, doc : Docs]

(* src is the warehouse whose average cost an inbound movement takes; src  *)
(* = wh when the unit cost is the movement's own.                          *)
Movement == [dir : {"in", "out", "adjust", "reserve", "release"},
             wh : Warehouses, qty : 0..MaxQty, cost : Costs, src : Warehouses]

(* todo: movements left, the first one in progress; seen: the row its      *)
(* SELECT returned, when read; own: the rows this transaction wrote; log:  *)
(* the ledger entries it inserted.                                         *)
Running == [step : {"running"}, op : Ops, doc : Docs, todo : Seq(Movement), read : BOOLEAN, seen : Row,
            own : [Warehouses -> Row], log : [Warehouses -> Seq(Entry)]]
Idle == [step |-> "idle"]
Tx == {Idle} \cup Running

StockInit ==
  /\ balance = [w \in Warehouses |-> NoRow]
  /\ ledger = [w \in Warehouses |-> <<>>]
  /\ holder = [w \in Warehouses |-> NoWorker]
  /\ tx = [p \in Workers |-> Idle]

-----------------------------------------------------------------------------
(* What transaction p sees of the row of w: its own write, or the last     *)
(* committed one.                                                          *)
View(p, w) == IF holder[w] = p THEN tx[p].own[w] ELSE balance[w]

Current(p) == Head(tx[p].todo)

Blocked(m, row) ==
  /\ PreventNegative
  /\ \/ m.dir = "out" /\ row.onHand < m.qty
     \/ m.dir = "reserve" /\ row.onHand - row.reserved < m.qty

(* a / b to the precision of the avgCostIqd column, half up. *)
DivRound(a, b) == (2 * a + b) \div (2 * b)

(* Mutant: the total value divided by the incoming quantity alone. *)
MovingAverage_WrongDivisor(onHand, cost, qty, unitCost) ==
  IF onHand + qty > 0
    THEN DivRound(onHand * cost + qty * unitCost, qty)
    ELSE unitCost

(* Moving weighted average after qty units at unitCost join onHand units   *)
(* at cost.                                                                *)
MovingAverage(onHand, cost, qty, unitCost) ==
  IF onHand + qty > 0
    THEN DivRound(onHand * cost + qty * unitCost, onHand + qty)
    ELSE unitCost

UnitCost(p, m) == IF m.src = m.wh THEN m.cost ELSE View(p, m.src).cost

(* Mutant: out and in as an increment of the current row. *)
NewRow_Increments(p, m, seen, now) ==
  [exists |-> TRUE, reserved |-> now.reserved, cost |-> now.cost,
   onHand |-> CASE m.dir = "in" -> now.onHand + m.qty
                [] m.dir = "out" -> now.onHand - m.qty
                [] OTHER -> m.qty]

(* The row movement m writes: quantity and cost computed from the row      *)
(* seen; the reservation left as the row now holds it, or changed by an    *)
(* increment.  A release follows a reservation, so its row exists.         *)
NewRow(p, m, seen, now) ==
  CASE m.dir = "in" ->
         [exists |-> TRUE, onHand |-> seen.onHand + m.qty, reserved |-> now.reserved,
          cost |-> MovingAverage(seen.onHand, seen.cost, m.qty, UnitCost(p, m))]
    [] m.dir = "out" ->
         [exists |-> TRUE, onHand |-> seen.onHand - m.qty, reserved |-> now.reserved,
          cost |-> seen.cost]
    [] m.dir = "adjust" ->
         [exists |-> TRUE, onHand |-> m.qty, reserved |-> now.reserved,
          cost |-> seen.cost]
    [] m.dir = "reserve" ->
         [exists |-> TRUE, onHand |-> now.onHand, reserved |-> now.reserved + m.qty,
          cost |-> now.cost]
    [] m.dir = "release" ->
         [exists |-> TRUE, onHand |-> now.onHand, reserved |-> now.reserved - m.qty,
          cost |-> now.cost]

(* Mutant: an adjustment logs the counted quantity as its change. *)
NewEntries_AdjustLogsCount(m, seen, row, doc) ==
  << [change |-> IF m.dir = "adjust" THEN m.qty ELSE row.onHand - seen.onHand,
      after |-> row.onHand, doc |-> doc] >>

(* The ledger entries movement m inserts: none for a reservation. *)
NewEntries(m, seen, row, doc) ==
  IF m.dir \in {"reserve", "release"}
    THEN <<>>
    ELSE << [change |-> row.onHand - seen.onHand, after |-> row.onHand, doc |-> doc] >>

(* Transaction t once its SELECT has returned row, and once it has written *)
(* row and inserted entries for its movement m.                            *)
Seen(t, row) ==
  [step |-> "running", op |-> t.op, doc |-> t.doc, todo |-> t.todo,
   read |-> TRUE, seen |-> row, own |-> t.own, log |-> t.log]

Moved(t, m, row, entries) ==
  [step |-> "running", op |-> t.op, doc |-> t.doc, todo |-> Tail(t.todo),
   read |-> FALSE, seen |-> NoRow, own |-> [t.own EXCEPT ![m.wh] = row],
   log |-> [t.log EXCEPT ![m.wh] = @ \o entries]]

(* prisma.$transaction with the movements of script, in that order. *)
Begin(p, op, doc, script) ==
  /\ tx[p].step = "idle"
  /\ tx' = [tx EXCEPT ![p] =
              [step |-> "running", op |-> op, doc |-> doc, todo |-> script,
               read |-> FALSE, seen |-> NoRow, own |-> [w \in Warehouses |-> NoRow],
               log |-> [w \in Warehouses |-> <<>>]]]
  /\ UNCHANGED <<balance, ledger, holder>>

InMovement(p) == tx[p].step = "running" /\ tx[p].todo # <<>>

(* The SELECT of the balance row and the policy check on what it returned. *)
ReadBalance(p) ==
  /\ InMovement(p)
  /\ ~tx[p].read
  /\ Current(p).dir # "release"
  /\ ~Blocked(Current(p), View(p, Current(p).wh))
  /\ tx' = [tx EXCEPT ![p] = Seen(@, View(p, Current(p).wh))]
  /\ UNCHANGED <<balance, ledger, holder>>

(* Mutant: the UPDATE does not wait for the row's writer. *)
WriteBalance_NoRowLock(p) ==
  LET m == Current(p)
      now == View(p, m.wh)
      row == NewRow(p, m, tx[p].seen, now)
  IN  /\ InMovement(p)
      /\ tx[p].read
      /\ holder' = [holder EXCEPT ![m.wh] = p]
      /\ tx' = [tx EXCEPT ![p] = Moved(@, m, row, NewEntries(m, tx[p].seen, row, tx[p].doc))]
      /\ UNCHANGED <<balance, ledger>>

(* The UPDATE or INSERT of the balance row and the INSERT into the ledger. *)
WriteBalance(p) ==
  LET m == Current(p)
      now == View(p, m.wh)
      seen == IF m.dir = "release" THEN now ELSE tx[p].seen
      row == NewRow(p, m, seen, now)
  IN  /\ InMovement(p)
      /\ tx[p].read \/ m.dir = "release"
      /\ holder[m.wh] \in {p, NoWorker}
      /\ seen.exists = now.exists
      /\ holder' = [holder EXCEPT ![m.wh] = p]
      /\ tx' = [tx EXCEPT ![p] = Moved(@, m, row, NewEntries(m, seen, row, tx[p].doc))]
      /\ UNCHANGED <<balance, ledger>>

(* Mutant: the rows stay locked after the rollback. *)
Discard_KeepsLocks(p) ==
  /\ tx' = [tx EXCEPT ![p] = Idle]
  /\ UNCHANGED <<balance, ledger, holder>>

(* Rollback: nothing of the transaction is left. *)
Discard(p) ==
  /\ holder' = [w \in Warehouses |-> IF holder[w] = p THEN NoWorker ELSE holder[w]]
  /\ tx' = [tx EXCEPT ![p] = Idle]
  /\ UNCHANGED <<balance, ledger>>

(* Mutant: the error is caught and the next movement tried. *)
RejectMovement_Swallowed(p) ==
  /\ InMovement(p)
  /\ ~tx[p].read
  /\ Blocked(Current(p), View(p, Current(p).wh))
  /\ tx' = [tx EXCEPT ![p].todo = Tail(@)]
  /\ UNCHANGED <<balance, ledger, holder>>

(* INSUFFICIENT_STOCK is thrown. *)
RejectMovement(p) ==
  /\ InMovement(p)
  /\ ~tx[p].read
  /\ Blocked(Current(p), View(p, Current(p).wh))
  /\ Discard(p)

(* The row seen missing was created meanwhile: the INSERT violates the     *)
(* unique index on (variantId, warehouseId).                               *)
CreateCollides(p) ==
  /\ InMovement(p)
  /\ tx[p].read
  /\ holder[Current(p).wh] \in {p, NoWorker}
  /\ ~tx[p].seen.exists /\ View(p, Current(p).wh).exists
  /\ Discard(p)

(* p waits for the row that q holds. *)
WaitsFor(p, q) ==
  /\ InMovement(p)
  /\ tx[p].read \/ Current(p).dir = "release"
  /\ p # q /\ holder[Current(p).wh] = q

(* PostgreSQL ends a cycle of two waiting transactions by aborting one. *)
DeadlockVictim(p) ==
  /\ \E q \in Workers : WaitsFor(p, q) /\ WaitsFor(q, p)
  /\ Discard(p)

(* A lost connection, a Prisma transaction timeout or a process crash. *)
Rollback(p) == tx[p].step = "running" /\ Discard(p)

(* COMMIT: the rows and entries written become visible, the rows are free. *)
CommitStock(p) ==
  /\ tx[p].step = "running"
  /\ tx[p].todo = <<>>
  /\ balance' = [w \in Warehouses |-> View(p, w)]
  /\ ledger' = [w \in Warehouses |-> ledger[w] \o tx[p].log[w]]
  /\ holder' = [w \in Warehouses |-> IF holder[w] = p THEN NoWorker ELSE holder[w]]
  /\ tx' = [tx EXCEPT ![p] = Idle]

-----------------------------------------------------------------------------
(* Balances, ledger entries, locks and transactions keep their types, and  *)
(* only a running transaction holds a row.                                 *)
StockTypeOK ==
  /\ balance \in [Warehouses -> Row]
  /\ ledger \in [Warehouses -> Seq(Entry)]
  /\ holder \in [Warehouses -> Workers \cup {NoWorker}]
  /\ tx \in [Workers -> Tx]
  /\ \A w \in Warehouses : holder[w] # NoWorker => tx[holder[w]].step = "running"

(* With the policy on, no interleaving of sales, receipts, transfers and   *)
(* counts brings a committed balance below zero, although the check reads  *)
(* the row long before it is written: the UPDATE writes the value the      *)
(* check approved, not a decrement.                                        *)
NonNegative ==
  PreventNegative => \A w \in Warehouses : balance[w].onHand >= 0

(* The balance of a warehouse is the balanceAfter of its last ledger       *)
(* entry: no other write to the quantity, no commit that overtakes one.    *)
BalanceIsLastEntry ==
  \A w \in Warehouses :
    balance[w].onHand =
      IF ledger[w] = <<>> THEN 0 ELSE ledger[w][Len(ledger[w])].after
=============================================================================
