--------------------------- MODULE SalesOrders_proofs ---------------------------
(***************************************************************************)
(* Proofs about orders and the stock they reserve, for any number of       *)
(* workers, warehouses and orders, whatever overlaps, collides or fails.   *)
(***************************************************************************)
EXTENDS SalesOrders, StockMovement_proofs, Sums

(* What an operation on an order adds to the reservation of w.             *)
Change(op, doc, w) ==
  IF op \in {"place", "cancel"} /\ OrderLine[doc].wh = w
    THEN IF op = "place" THEN OrderLine[doc].qty ELSE - OrderLine[doc].qty
    ELSE 0

(* The movement of a transaction of this operation. *)
Fits(op, doc, m) ==
  \/ op \in {"receive", "issue"} /\ m.dir \in {"in", "out"}
  \/ op = "place" /\ m = Line(doc, "reserve")
  \/ op = "cancel" /\ m = Line(doc, "release")

(* A transaction has written nothing yet, or all it changes, and holds the *)
(* rows it changed.                                                        *)
Unwritten(p) ==
  /\ \E m \in Movement : tx[p].todo = <<m>> /\ Fits(tx[p].op, tx[p].doc, m)
  /\ \A w \in Warehouses : holder[w] # p

Written(p) ==
  /\ tx[p].todo = <<>>
  /\ \A w \in Warehouses :
       IF holder[w] = p
         THEN tx[p].own[w].reserved = balance[w].reserved + Change(tx[p].op, tx[p].doc, w)
         ELSE Change(tx[p].op, tx[p].doc, w) = 0

Writing(p) == Unwritten(p) \/ Written(p)

(* An order that is being placed is not there; one that is confirmed or    *)
(* cancelled is.                                                           *)
Known(p) ==
  /\ tx[p].op \in {"place", "confirm", "cancel"} => tx[p].doc \in Orders
  /\ tx[p].op \in {"confirm", "cancel"} => Placed(tx[p].doc)
  /\ tx[p].op = "place" => ~Placed(tx[p].doc)

ScriptsOK == \A p \in Workers : tx[p].step = "running" => Writing(p) /\ Known(p)

(* One call places an order. *)
PlacedOnce ==
  \A p, q \in Workers :
    /\ p # q
    /\ tx[p].step = "running" /\ tx[p].op = "place"
    /\ tx[q].step = "running" /\ tx[q].op = "place"
    => tx[p].doc # tx[q].doc

OrdersInv ==
  /\ StockInv /\ orders \in [Orders -> Status]
  /\ ScriptsOK /\ PlacedOnce /\ NoLeakedReservation


-----------------------------------------------------------------------------
LEMMA QtyFact ==
  ASSUME NEW o \in Orders
  PROVE  OrderLine[o].wh \in Warehouses /\ OrderLine[o].qty \in 1..MaxQty /\ OrderLine[o].qty \in Nat
  <1>1. OrderLine[o] \in [wh : Warehouses, qty : 1..MaxQty]  BY OrdersAssumption
  <1> QED  BY <1>1, StockAssumption

LEMMA AsksInt == \A o \in Orders : \A status, w : Asks(o, status, w) \in Int
  BY QtyFact DEF Asks

(* What is asked for changes with the status of one order, by its line.    *)
LEMMA OneOrderChanges ==
  ASSUME NEW o \in Orders, NEW status, orders \in [Orders -> Status],
         orders' = [orders EXCEPT ![o] = status], NEW w \in Warehouses
  PROVE  /\ Outstanding(w) \in Int /\ Outstanding(w)' \in Int
         /\ Outstanding(w)' - Outstanding(w) = Asks(o, status, w) - Asks(o, orders[o], w)
  <1> DEFINE f == [q \in Orders |-> Asks(q, orders[q], w)]
             g == [q \in Orders |-> Asks(q, orders'[q], w)]
  <1>1. IsFiniteSet(Orders)  BY OrdersAssumption
  <1>2. IntOn(f, Orders) /\ IntOn(g, Orders)  BY AsksInt DEF IntOn
  <1>3. Outstanding(w) = SumFunction(f)  BY Zenon DEF Outstanding, Asked
  <1>4. Outstanding(w)' = SumFunction(g)
    <2>1. Outstanding(w)' = Asked(orders', w)  BY DEF Outstanding
    <2>2. Asked(orders', w) = SumFunction(g)  BY Zenon DEF Asked
    <2> QED  BY <2>1, <2>2
  <1>5. /\ DOMAIN f = Orders /\ DOMAIN g = Orders
        /\ f[o] = Asks(o, orders[o], w) /\ g[o] = Asks(o, status, w)
        /\ \A q \in Orders \ {o} : f[q] = g[q]
    OBVIOUS
  <1> HIDE DEF f, g
  <1>6. Outstanding(w) = SumOf(f, Orders)  BY <1>1, <1>2, <1>3, <1>5, SumFunctionIs
  <1>7. Outstanding(w)' = SumOf(g, Orders)  BY <1>1, <1>2, <1>4, <1>5, SumFunctionIs
  <1>8. SumOf(g, Orders) - SumOf(f, Orders) = g[o] - f[o]
    <2>1. \A q \in Orders : g[q] # f[q] => q = o  BY <1>5
    <2>2. \A q \in Orders \ {o} : f[q] = g[q]  BY <1>5
    <2> QED  BY <1>1, <1>2, <2>2, SumChange, SMT
  <1>9. SumOf(f, Orders) \in Int /\ SumOf(g, Orders) \in Int
    BY <1>1, <1>2, SumInt
  <1> QED  BY <1>5, <1>6, <1>7, <1>8, <1>9

-----------------------------------------------------------------------------
LEMMA InitInv == Init => OrdersInv
  <1> SUFFICES ASSUME Init PROVE OrdersInv
    OBVIOUS
  <1>1. StockInv  BY StockInitInv DEF Init
  <1>2. orders \in [Orders -> Status]  BY DEF Init, Status
  <1>3. \A p \in Workers : tx[p].step = "idle"  BY IdleFact DEF Init, StockInit
  <1>4. ScriptsOK /\ PlacedOnce  BY <1>3 DEF ScriptsOK, PlacedOnce
  <1>5. NoLeakedReservation
    <2> SUFFICES ASSUME NEW w \in Warehouses PROVE balance[w].reserved <= Outstanding(w)
      BY DEF NoLeakedReservation
    <2> DEFINE f == [o \in Orders |-> Asks(o, orders[o], w)]
    <2>1. balance[w].reserved = 0  BY DEF Init, StockInit, NoRow
    <2>2. IsFiniteSet(Orders)  BY OrdersAssumption
    <2>3. DOMAIN f = Orders /\ \A o \in Orders : f[o] = 0  BY DEF Init, Asks
    <2>4. Outstanding(w) = SumFunction(f)  BY Zenon DEF Outstanding, Asked
    <2> HIDE DEF f
    <2>5. IntOn(f, Orders)  BY <2>3 DEF IntOn
    <2>6. Outstanding(w) = SumOf(f, Orders)  BY <2>2, <2>3, <2>4, <2>5, SumFunctionIs
    <2>7. SumOf(f, Orders) = 0  BY <2>2, <2>3, SumOfZeros
    <2> QED  BY <2>1, <2>6, <2>7
  <1> QED  BY <1>1, <1>2, <1>4, <1>5 DEF OrdersInv

(* What the steps of the others leave of a transaction. *)
LEMMA OthersWriting ==
  ASSUME NEW q \in Workers, Writing(q), tx'[q] = tx[q],
         \A w \in Warehouses : holder'[w] = q <=> holder[w] = q,
         \A w \in Warehouses : holder[w] = q => balance'[w] = balance[w]
  PROVE  Writing(q)'
  <1>1. CASE Unwritten(q)  BY <1>1 DEF Writing, Unwritten
  <1>2. CASE Written(q)  BY <1>2 DEF Writing, Written
  <1> QED  BY <1>1, <1>2 DEF Writing

(* Nothing leaks while neither orders nor committed reservations change. *)
LEMMA SameReservations ==
  ASSUME NoLeakedReservation, UNCHANGED <<orders, balance>>
  PROVE  NoLeakedReservation'
  BY DEF NoLeakedReservation, Outstanding

(* A handler that begins its transaction. *)
LEMMA StartInv ==
  ASSUME OrdersInv, NEW p \in Workers, NEW op \in Ops, NEW doc \in Docs, NEW script,
         Begin(p, op, doc, script), UNCHANGED orders,
         \/ script = <<>> /\ op = "confirm"
         \/ \E m \in Movement : script = <<m>> /\ Fits(op, doc, m),
         op \in {"place", "confirm", "cancel"} => doc \in Orders,
         op \in {"confirm", "cancel"} => Placed(doc),
         op = "place" => /\ ~Placed(doc)
                         /\ \A q \in Workers : tx[q].step = "running" => tx[q].doc # doc
  PROVE  OrdersInv'
  <1> USE DEF OrdersInv
  <1>1. script \in Seq(Movement)
    <2>1. \A m \in Movement : <<m>> \in Seq(Movement)  OBVIOUS
    <2> QED  BY <2>1, EmptySeq
  <1>2. StockInv'  BY <1>1, BeginInv
  <1>3. UNCHANGED <<balance, holder, orders>>  BY DEF Begin
  <1>4. \A q \in Workers : q # p => tx'[q] = tx[q]  BY DEF Begin, StockInv, StockTypeOK
  <1>5. tx'[p].step = "running" /\ tx'[p].op = op /\ tx'[p].doc = doc /\ tx'[p].todo = script
    BY DEF Begin, StockInv, StockTypeOK
  <1>6. tx[p].step = "idle"  BY DEF Begin
  <1>7. \A w \in Warehouses : holder[w] # p
    BY <1>6, StockAssumption DEF StockInv, StockTypeOK
  <1>8. Writing(p)'
    <2>1. CASE script = <<>> /\ op = "confirm"
      BY <1>3, <1>5, <1>7, <2>1 DEF Writing, Written, Change
    <2>2. CASE \E m \in Movement : script = <<m>> /\ Fits(op, doc, m)
      BY <1>3, <1>5, <1>7, <2>2 DEF Writing, Unwritten
    <2> QED  BY <2>1, <2>2
  <1>9. ScriptsOK'
    <2>1. \A q \in Workers : q # p /\ tx'[q].step = "running" => Writing(q)' /\ Known(q)'
      BY <1>3, <1>4, OthersWriting DEF ScriptsOK, Known, Placed
    <2>2. Known(p)'  BY <1>3, <1>5 DEF Known, Placed
    <2> QED  BY <1>8, <2>1, <2>2 DEF ScriptsOK
  <1>10. PlacedOnce'  BY <1>4, <1>5 DEF PlacedOnce
  <1>11. NoLeakedReservation'  BY <1>3, SameReservations
  <1> QED  BY <1>2, <1>3, <1>9, <1>10, <1>11

LEMMA EndInv ==
  ASSUME OrdersInv, NEW p \in Workers, Discard(p), UNCHANGED orders
  PROVE  OrdersInv'
  <1> USE DEF OrdersInv
  <1>1. StockInv'  BY DiscardInv
  <1>2. UNCHANGED <<balance, orders>>  BY DEF Discard
  <1>3. \A q \in Workers : tx'[q] = IF q = p THEN Idle ELSE tx[q]
    BY DEF Discard, StockInv, StockTypeOK
  <1>4. \A w \in Warehouses, q \in Workers : q # p => (holder'[w] = q <=> holder[w] = q)
    BY StockAssumption DEF Discard
  <1>5. ScriptsOK'
    BY <1>2, <1>3, <1>4, IdleFact, OthersWriting DEF ScriptsOK, Known, Placed
  <1>6. PlacedOnce'  BY <1>3, IdleFact DEF PlacedOnce
  <1>7. NoLeakedReservation'  BY <1>2, SameReservations
  <1> QED  BY <1>1, <1>2, <1>5, <1>6, <1>7

LEMMA ReadInv ==
  ASSUME OrdersInv, NEW p \in Workers, ReadBalance(p), UNCHANGED orders
  PROVE  OrdersInv'
  <1> USE DEF OrdersInv
  <1>1. StockInv'  BY ReadBalanceInv
  <1>2. UNCHANGED <<balance, holder, orders>>  BY DEF ReadBalance
  <1>3. \A q \in Workers : q # p => tx'[q] = tx[q]
    BY DEF ReadBalance, StockInv, StockTypeOK
  <1>4. /\ tx[p].step = "running" /\ tx[p].todo # <<>> /\ tx'[p].step = "running"
        /\ tx'[p].op = tx[p].op /\ tx'[p].doc = tx[p].doc /\ tx'[p].todo = tx[p].todo
    BY DEF ReadBalance, InMovement, Seen, StockInv, StockTypeOK
  <1>5. Writing(p)'
    <2>1. Unwritten(p)  BY <1>4 DEF ScriptsOK, Writing, Written
    <2> QED  BY <2>1, <1>2, <1>4 DEF Writing, Unwritten
  <1>6. ScriptsOK'
    <2>1. \A q \in Workers : q # p /\ tx'[q].step = "running" => Writing(q)' /\ Known(q)'
      BY <1>2, <1>3, OthersWriting DEF ScriptsOK, Known, Placed
    <2>2. Known(p)'  BY <1>2, <1>4 DEF ScriptsOK, Known, Placed
    <2> QED  BY <1>5, <2>1, <2>2 DEF ScriptsOK
  <1>7. PlacedOnce'  BY <1>3, <1>4 DEF PlacedOnce
  <1>8. NoLeakedReservation'  BY <1>2, SameReservations
  <1> QED  BY <1>1, <1>2, <1>6, <1>7, <1>8

(* The row lock keeps the reservation read by the increment the committed  *)
(* one until the transaction ends.                                         *)
LEMMA WriteInv ==
  ASSUME OrdersInv, NEW p \in Workers, WriteBalance(p), UNCHANGED orders
  PROVE  OrdersInv'
  <1> USE DEF OrdersInv
  <1> DEFINE m == Current(p)
             now == View(p, m.wh)
             seen == IF m.dir = "release" THEN now ELSE tx[p].seen
             row == NewRow(p, m, seen, now)
  <1>1. StockInv'  BY WriteBalanceInv
  <1>2. UNCHANGED <<balance, orders>> /\ holder' = [holder EXCEPT ![m.wh] = p]
    BY DEF WriteBalance
  <1>3. \A q \in Workers : q # p => tx'[q] = tx[q]
    BY DEF WriteBalance, StockInv, StockTypeOK
  <1>4. tx[p].step = "running" /\ tx[p].todo # <<>> /\ holder[m.wh] \in {p, NoWorker}
    BY DEF WriteBalance, InMovement
  <1>5. tx[p] \in Running /\ m \in Movement /\ m.wh \in Warehouses
    BY <1>4, CurrentFact, MovementFact DEF InMovement
  <1>6. /\ tx'[p].step = "running" /\ tx'[p].op = tx[p].op /\ tx'[p].doc = tx[p].doc
        /\ tx'[p].todo = Tail(tx[p].todo) /\ tx'[p].own = [tx[p].own EXCEPT ![m.wh] = row]
    BY DEF WriteBalance, Moved, StockInv, StockTypeOK
  <1>7. Unwritten(p)  BY <1>4 DEF ScriptsOK, Writing, Written
  <1>8. tx[p].todo = <<m>> /\ Fits(tx[p].op, tx[p].doc, m)
    BY <1>7 DEF Unwritten, Current
  <1>9. now = balance[m.wh] /\ now.reserved \in Int
    BY <1>5, <1>7 DEF Unwritten, View, StockInv, StockTypeOK, Row
  <1>10. \A w \in Warehouses : holder'[w] = IF w = m.wh THEN p ELSE holder[w]
    BY <1>2, <1>5 DEF StockInv, StockTypeOK
  <1>11. tx'[p].own[m.wh] = row  BY <1>5, <1>6 DEF Running
  <1>12. Writing(p)'
    <2>1. Known(p)  BY <1>4 DEF ScriptsOK
    <2>2. tx'[p].todo = <<>>  BY <1>6, <1>8
    <2>3. row.reserved = balance[m.wh].reserved + Change(tx[p].op, tx[p].doc, m.wh)
      <3>1. CASE m.dir \in {"in", "out"} /\ tx[p].op \in {"receive", "issue"}
        BY <3>1, <1>9 DEF NewRow, Change
      <3>2. CASE tx[p].op = "place" /\ m = Line(tx[p].doc, "reserve")
        <4>1. m.dir = "reserve" /\ m.wh = OrderLine[tx[p].doc].wh /\ m.qty = OrderLine[tx[p].doc].qty
          BY <3>2 DEF Line
        <4> QED  BY <3>2, <4>1, <1>9 DEF NewRow, Change
      <3>3. CASE tx[p].op = "cancel" /\ m = Line(tx[p].doc, "release")
        <4>1. m.dir = "release" /\ m.wh = OrderLine[tx[p].doc].wh /\ m.qty = OrderLine[tx[p].doc].qty
          BY <3>3 DEF Line
        <4>2. OrderLine[tx[p].doc].qty \in Nat  BY <3>3, <2>1, QtyFact DEF Known
        <4> QED  BY <3>3, <4>1, <4>2, <1>9 DEF NewRow, Change
      <3> QED  BY <1>8, <3>1, <3>2, <3>3 DEF Fits
    <2>4. \A w \in Warehouses \ {m.wh} :
            holder'[w] # p /\ Change(tx[p].op, tx[p].doc, w) = 0
      BY <1>7, <1>8, <1>10 DEF Unwritten, Fits, Line, Change
    <2>5. Written(p)'
      <3> SUFFICES ASSUME NEW w \in Warehouses
                   PROVE  IF holder'[w] = p
                            THEN tx'[p].own[w].reserved =
                                   balance[w].reserved + Change(tx[p].op, tx[p].doc, w)
                            ELSE Change(tx[p].op, tx[p].doc, w) = 0
        BY <1>2, <1>6, <2>2 DEF Written
      <3>1. CASE w = m.wh  BY <3>1, <1>10, <1>11, <2>3
      <3>2. CASE w # m.wh  BY <3>2, <2>4
      <3> QED  BY <3>1, <3>2
    <2> QED  BY <2>5 DEF Writing
  <1>13. ScriptsOK'
    <2>1. \A w \in Warehouses, q \in Workers : q # p => (holder'[w] = q <=> holder[w] = q)
      BY <1>4, <1>10, StockAssumption
    <2>2. \A q \in Workers : q # p /\ tx'[q].step = "running" => Writing(q)' /\ Known(q)'
      BY <1>2, <1>3, <2>1, OthersWriting DEF ScriptsOK, Known, Placed
    <2>3. Known(p)'  BY <1>2, <1>4, <1>6 DEF ScriptsOK, Known, Placed
    <2> QED  BY <1>12, <2>2, <2>3 DEF ScriptsOK
  <1>14. PlacedOnce'  BY <1>3, <1>4, <1>6 DEF PlacedOnce
  <1>15. NoLeakedReservation'  BY <1>2, SameReservations
  <1> QED  BY <1>1, <1>2, <1>13, <1>14, <1>15

(* A commit changes the reservation of a warehouse by what its operation   *)
(* adds, and what the orders ask for there by at least as much.            *)
LEMMA CommitAdds ==
  ASSUME OrdersInv, NEW p \in Workers, Commit(p), NEW w \in Warehouses
  PROVE  balance'[w].reserved = balance[w].reserved + Change(tx[p].op, tx[p].doc, w)
  <1> USE DEF OrdersInv
  <1>1. tx[p].step = "running" /\ tx[p].todo = <<>>  BY DEF Commit, CommitStock
  <1>2. Written(p)  BY <1>1 DEF ScriptsOK, Writing, Unwritten
  <1>3. balance'[w] = View(p, w)  BY DEF Commit, CommitStock
  <1>4. balance[w].reserved \in Int  BY DEF StockInv, StockTypeOK, Row
  <1>5. CASE holder[w] = p  BY <1>2, <1>3, <1>5 DEF Written, View
  <1>6. CASE holder[w] # p
    <2>1. Change(tx[p].op, tx[p].doc, w) = 0  BY <1>2, <1>6 DEF Written
    <2> QED  BY <1>3, <1>4, <1>6, <2>1 DEF View
  <1> QED  BY <1>5, <1>6

LEMMA CommitAsks ==
  ASSUME OrdersInv, NEW p \in Workers, Commit(p), NEW w \in Warehouses
  PROVE  /\ orders' \in [Orders -> Status]
         /\ Outstanding(w) \in Int /\ Outstanding(w)' \in Int
         /\ Change(tx[p].op, tx[p].doc, w) \in Int
         /\ Outstanding(w) + Change(tx[p].op, tx[p].doc, w) <= Outstanding(w)'
  <1> USE DEF OrdersInv
  <1> DEFINE op == tx[p].op  d == tx[p].doc
  <1>1. tx[p].step = "running"  BY DEF Commit, CommitStock
  <1>2. Known(p)  BY <1>1 DEF ScriptsOK
  <1>3. CASE op \in {"place", "confirm", "cancel"}
    <2>1. PICK st \in Status :
            /\ orders' = [orders EXCEPT ![d] = st]
            /\ st = CASE op = "place" -> "draft" [] op = "confirm" -> "confirmed"
                      [] op = "cancel" -> "cancelled"
      BY <1>3 DEF Commit, Status
    <2>2. d \in Orders /\ orders[d] \in Status  BY <1>2, <1>3 DEF Known
    <2>3. OrderLine[d].wh \in Warehouses /\ OrderLine[d].qty \in Nat  BY <2>2, QtyFact
    <2> DEFINE before == Asks(d, orders[d], w)  after == Asks(d, st, w)
    <2>4. /\ Outstanding(w) \in Int /\ Outstanding(w)' \in Int
          /\ Outstanding(w)' - Outstanding(w) = after - before
      BY <2>1, <2>2, OneOrderChanges
    <2>5. before \in Int /\ after \in Int  BY <2>2, AsksInt
    <2>6. Change(op, d, w) \in Int /\ Change(op, d, w) <= after - before
      <3>1. CASE op = "place"
        <4>1. orders[d] = "none" /\ st = "draft"  BY <1>2, <2>1, <3>1 DEF Known, Placed
        <4> QED  BY <2>3, <3>1, <4>1 DEF Change, Asks
      <3>2. CASE op = "confirm"
        <4>1. st = "confirmed"  BY <2>1, <3>2
        <4> QED  BY <2>3, <3>2, <4>1 DEF Change, Asks
      <3>3. CASE op = "cancel"
        <4>1. st = "cancelled"  BY <2>1, <3>3
        <4> QED  BY <2>3, <3>3, <4>1 DEF Change, Asks
      <3> QED  BY <1>3, <3>1, <3>2, <3>3
    <2>7. orders' \in [Orders -> Status]  BY <2>1, <2>2
    <2> HIDE DEF before, after
    <2> QED  BY <2>4, <2>5, <2>6, <2>7
  <1>4. CASE op \notin {"place", "confirm", "cancel"}
    <2>1. orders' = orders  BY <1>4 DEF Commit
    <2>2. Change(op, d, w) = 0  BY <1>4 DEF Change
    <2>3. Outstanding(w) \in Int
      <3> DEFINE f == [o \in Orders |-> Asks(o, orders[o], w)]
      <3>1. IsFiniteSet(Orders)  BY OrdersAssumption
      <3>2. IntOn(f, Orders) /\ DOMAIN f = Orders  BY AsksInt DEF IntOn
      <3>3. Outstanding(w) = SumFunction(f)  BY Zenon DEF Outstanding, Asked
      <3> HIDE DEF f
      <3>4. Outstanding(w) = SumOf(f, Orders)  BY <3>1, <3>2, <3>3, SumFunctionIs
      <3>5. SumOf(f, Orders) \in Int  BY <3>1, <3>2, SumInt
      <3> QED  BY <3>4, <3>5
    <2>4. Outstanding(w)' = Outstanding(w)  BY <2>1 DEF Outstanding
    <2> QED  BY <2>1, <2>2, <2>3, <2>4
  <1> QED  BY <1>3, <1>4

LEMMA CommitInv ==
  ASSUME OrdersInv, NEW p \in Workers, Commit(p)
  PROVE  OrdersInv'
  <1> USE DEF OrdersInv
  <1>1. StockInv'  BY CommitStockInv DEF Commit
  <1>2. tx[p].step = "running" /\ \A q \in Workers : tx'[q] = IF q = p THEN Idle ELSE tx[q]
    BY DEF Commit, CommitStock, StockInv, StockTypeOK
  <1>3. \A w \in Warehouses : \A q \in Workers : q # p =>
          /\ holder'[w] = q <=> holder[w] = q
          /\ holder[w] = q => balance'[w] = balance[w]
    BY StockAssumption DEF Commit, CommitStock, View, StockInv, StockTypeOK
  <1>4. \A o \in Orders : Placed(o) => Placed(o)'
    BY DEF Commit, Placed
  <1>5. \A o \in Orders : Placed(o)' => Placed(o) \/ (tx[p].op = "place" /\ o = tx[p].doc)
    <2>1. tx[p].op \in {"confirm", "cancel"} => Placed(tx[p].doc)
      BY <1>2 DEF ScriptsOK, Known
    <2> QED  BY <2>1 DEF Commit, Placed
  <1>6. ScriptsOK'
    <2> SUFFICES ASSUME NEW q \in Workers, tx'[q].step = "running" PROVE Writing(q)' /\ Known(q)'
      BY DEF ScriptsOK
    <2>1. q # p /\ tx'[q] = tx[q]  BY <1>2, IdleFact
    <2>2. Writing(q) /\ Known(q)  BY <2>1 DEF ScriptsOK
    <2>3. Writing(q)'  BY <1>3, <2>1, <2>2, OthersWriting
    <2>4. Known(q)'
      <3>1. tx[q].op = "place" /\ tx[p].op = "place" => tx[q].doc # tx[p].doc
        BY <1>2, <2>1 DEF PlacedOnce
      <3> QED  BY <1>4, <1>5, <2>1, <2>2, <3>1 DEF Known
    <2> QED  BY <2>3, <2>4
  <1>7. PlacedOnce'  BY <1>2, IdleFact DEF PlacedOnce
  <1>8. orders' \in [Orders -> Status]
    BY DEF Commit, Status
  <1>9. NoLeakedReservation'
    <2> SUFFICES ASSUME NEW w \in Warehouses PROVE balance'[w].reserved <= Outstanding(w)'
      BY DEF NoLeakedReservation
    <2>1. balance[w].reserved \in Int  BY DEF StockInv, StockTypeOK, Row
    <2>2. balance[w].reserved <= Outstanding(w)  BY DEF NoLeakedReservation
    <2>3. balance'[w].reserved = balance[w].reserved + Change(tx[p].op, tx[p].doc, w)
      BY CommitAdds
    <2>4. /\ Outstanding(w) \in Int /\ Outstanding(w)' \in Int
          /\ Change(tx[p].op, tx[p].doc, w) \in Int
          /\ Outstanding(w) + Change(tx[p].op, tx[p].doc, w) <= Outstanding(w)'
      BY CommitAsks
    <2> QED  BY <2>1, <2>2, <2>3, <2>4
  <1> QED  BY <1>1, <1>6, <1>7, <1>8, <1>9

-----------------------------------------------------------------------------
LEMMA MoveFact ==
  ASSUME NEW dir \in {"in", "out"}, NEW w \in Warehouses, NEW q \in 1..MaxQty, NEW c \in Costs
  PROVE  [dir |-> dir, wh |-> w, qty |-> q, cost |-> c, src |-> w] \in Movement
  BY StockAssumption DEF Movement

LEMMA LineFact ==
  ASSUME NEW o \in Orders, NEW dir \in {"reserve", "release"}
  PROVE  Line(o, dir) \in Movement
  <1>1. (CHOOSE c \in Costs : TRUE) \in Costs  BY StockAssumption
  <1>2. OrderLine[o].wh \in Warehouses /\ OrderLine[o].qty \in 0..MaxQty
    BY QtyFact, StockAssumption
  <1> QED  BY <1>1, <1>2 DEF Line, Movement

LEMMA NextInv == OrdersInv /\ [Next]_vars => OrdersInv'
  <1> SUFFICES ASSUME OrdersInv, [Next]_vars PROVE OrdersInv'
    OBVIOUS
  <1> USE OrdersAssumption
  <1>1. CASE UNCHANGED vars
    <2>1. UNCHANGED <<stockVars, orders>>  BY <1>1 DEF vars
    <2>2. StockInv'  BY <2>1, StockStutterInv DEF OrdersInv
    <2>3. UNCHANGED <<balance, holder, tx, orders>>  BY <2>1 DEF stockVars
    <2>4. \A q \in Workers : Writing(q) => Writing(q)'  BY <2>3, OthersWriting
    <2>5. ScriptsOK' /\ PlacedOnce'
      BY <2>3, <2>4 DEF OrdersInv, ScriptsOK, Known, Placed, PlacedOnce
    <2> QED  BY <2>2, <2>3, <2>5, SameReservations DEF OrdersInv
  <1>2. CASE Next
    <2>1. PICK p \in Workers :
            \/ Receive(p) \/ Issue(p) \/ Commit(p) \/ NumberCollides(p) \/ StockStep(p)
            \/ \E o \in Orders : Place(p, o) \/ Confirm(p, o) \/ Cancel(p, o)
      BY <1>2 DEF Next
    <2>2. CASE Receive(p)
      <3>1. PICK w \in Warehouses, q \in 1..MaxQty, c \in Costs :
              Begin(p, "receive", Opening,
                    <<[dir |-> "in", wh |-> w, qty |-> q, cost |-> c, src |-> w]>>)
        BY <2>2 DEF Receive
      <3> DEFINE m == [dir |-> "in", wh |-> w, qty |-> q, cost |-> c, src |-> w]
      <3>2. m \in Movement /\ Fits("receive", Opening, m)  BY MoveFact DEF Fits
      <3>3. "receive" \in Ops /\ Opening \in Docs /\ UNCHANGED orders  BY <2>2 DEF Receive
      <3> HIDE DEF m
      <3> QED  BY <3>1, <3>2, <3>3, StartInv DEF m
    <2>3. CASE Issue(p)
      <3>1. PICK w \in Warehouses, q \in 1..MaxQty, c \in Costs :
              Begin(p, "issue", Sale,
                    <<[dir |-> "out", wh |-> w, qty |-> q, cost |-> c, src |-> w]>>)
        BY <2>3 DEF Issue
      <3> DEFINE m == [dir |-> "out", wh |-> w, qty |-> q, cost |-> c, src |-> w]
      <3>2. m \in Movement /\ Fits("issue", Sale, m)  BY MoveFact DEF Fits
      <3>3. "issue" \in Ops /\ Sale \in Docs /\ UNCHANGED orders  BY <2>3 DEF Issue
      <3> QED  BY <3>1, <3>2, <3>3, StartInv
    <2>4. CASE Commit(p)  BY <2>4, CommitInv
    <2>5. CASE NumberCollides(p)  BY <2>5, EndInv DEF NumberCollides
    <2>6. CASE StockStep(p)
      BY <2>6, ReadInv, WriteInv, EndInv DEF StockStep, RejectMovement, CreateCollides, Rollback
    <2>7. ASSUME NEW o \in Orders, Place(p, o) PROVE OrdersInv'
      <3>1. Begin(p, "place", o, <<Line(o, "reserve")>>) /\ UNCHANGED orders /\ ~Placed(o)
            /\ \A q \in Workers : tx[q].step = "running" => tx[q].doc # o
        BY <2>7 DEF Place, Placed
      <3>2. Line(o, "reserve") \in Movement /\ Fits("place", o, Line(o, "reserve"))
        BY LineFact DEF Fits
      <3>3. "place" \in Ops /\ o \in Docs  OBVIOUS
      <3> QED  BY <3>1, <3>2, <3>3, StartInv
    <2>8. ASSUME NEW o \in Orders, Confirm(p, o) PROVE OrdersInv'
      <3>1. Begin(p, "confirm", o, <<>>) /\ UNCHANGED orders /\ Placed(o)
        BY <2>8 DEF Confirm, Placed
      <3>2. "confirm" \in Ops /\ o \in Docs  OBVIOUS
      <3> QED  BY <3>1, <3>2, StartInv
    <2>9. ASSUME NEW o \in Orders, Cancel(p, o) PROVE OrdersInv'
      <3>1. Begin(p, "cancel", o, <<Line(o, "release")>>) /\ UNCHANGED orders /\ Placed(o)
        BY <2>9 DEF Cancel, Placed
      <3>2. Line(o, "release") \in Movement /\ Fits("cancel", o, Line(o, "release"))
        BY LineFact DEF Fits
      <3>3. "cancel" \in Ops /\ o \in Docs  OBVIOUS
      <3> QED  BY <3>1, <3>2, <3>3, StartInv
    <2> QED  BY <2>1, <2>2, <2>3, <2>4, <2>5, <2>6, <2>7, <2>8, <2>9
  <1> QED  BY <1>1, <1>2

LEMMA Invariant == Spec => []OrdersInv
  BY InitInv, NextInv, PTL DEF Spec

-----------------------------------------------------------------------------
(* Stock rows, ledgers, transactions and orders keep their types.          *)
THEOREM TypeCorrect == Spec => []TypeOK
  <1>1. OrdersInv => TypeOK  BY DEF OrdersInv, StockInv, TypeOK
  <1> QED  BY <1>1, Invariant, PTL

(* No reservation leaks: whatever orders are placed, confirmed and         *)
(* cancelled at once, and whatever fails or collides in between, what a    *)
(* warehouse keeps reserved is asked for by an order that is alive.        *)
THEOREM NothingLeaks == Spec => []NoLeakedReservation
  <1>1. OrdersInv => NoLeakedReservation  BY DEF OrdersInv
  <1> QED  BY <1>1, Invariant, PTL

=============================================================================
