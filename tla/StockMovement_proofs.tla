------------------------- MODULE StockMovement_proofs -------------------------
(***************************************************************************)
(* What each step of a stock transaction preserves, for any number of      *)
(* workers and warehouses, and whatever movements a transaction runs.  The *)
(* modules that extend StockMovement cite these lemmas for theirs.         *)
(***************************************************************************)
EXTENDS StockMovement, SequenceTheorems, TLAPS

(* A movement past its SELECT was approved on the row it has seen.         *)
Approved ==
  \A p \in Workers : InMovement(p) /\ tx[p].read => ~Blocked(Current(p), tx[p].seen)

(* With the policy on, no row is below zero: neither seen nor written.     *)
RowsNonNegative ==
  PreventNegative =>
    \A p \in Workers : tx[p].step = "running" =>
      /\ tx[p].seen.onHand >= 0
      /\ \A w \in Warehouses : holder[w] = p => tx[p].own[w].onHand >= 0

(* The row a transaction has written is its last ledger entry, or, if it   *)
(* only reserved, still has the committed quantity.                        *)
OwnIsLastEntry ==
  \A p \in Workers : tx[p].step = "running" =>
    \A w \in Warehouses :
      LET log == tx[p].log[w]
      IN  IF holder[w] = p
            THEN tx[p].own[w].onHand =
                   IF log = <<>> THEN balance[w].onHand ELSE log[Len(log)].after
            ELSE log = <<>>

StockInv ==
  /\ StockTypeOK
  /\ Approved
  /\ RowsNonNegative
  /\ OwnIsLastEntry
  /\ NonNegative
  /\ BalanceIsLastEntry

-----------------------------------------------------------------------------
LEMMA NoRowFact == NoRow \in Row /\ NoRow.onHand = 0
  BY DEF NoRow, Row

LEMMA IdleFact == Idle.step = "idle" /\ Idle \in Tx
  BY DEF Idle, Tx

(* A transaction that is not idle is a full record. *)
LEMMA RunningTx ==
  ASSUME StockTypeOK, NEW p \in Workers, tx[p].step = "running"
  PROVE  tx[p] \in Running
  BY DEF StockTypeOK, Tx, Idle

LEMMA StockInitInv == StockInit => StockInv
  <1> SUFFICES ASSUME StockInit PROVE StockInv
    OBVIOUS
  <1> USE StockAssumption, NoRowFact, IdleFact DEF StockInit
  <1>1. StockTypeOK
    BY EmptySeq DEF StockTypeOK
  <1>2. Approved /\ RowsNonNegative /\ OwnIsLastEntry
    BY DEF Approved, InMovement, RowsNonNegative, OwnIsLastEntry
  <1>3. NonNegative /\ BalanceIsLastEntry
    BY DEF NonNegative, BalanceIsLastEntry
  <1> QED
    BY <1>1, <1>2, <1>3 DEF StockInv

LEMMA StockStutterInv == StockInv /\ UNCHANGED stockVars => StockInv'
  BY DEF StockInv, stockVars, StockTypeOK, Approved, InMovement, Current, RowsNonNegative,
         OwnIsLastEntry, NonNegative, BalanceIsLastEntry

LEMMA BeginInv ==
  ASSUME StockInv, NEW p \in Workers, NEW op \in Ops, NEW doc \in Docs,
         NEW script \in Seq(Movement), Begin(p, op, doc, script)
  PROVE  StockInv'
  <1> USE StockAssumption
  <1> DEFINE t == [step |-> "running", op |-> op, doc |-> doc, todo |-> script,
                   read |-> FALSE, seen |-> NoRow, own |-> [w \in Warehouses |-> NoRow],
                   log |-> [w \in Warehouses |-> <<>>]]
  <1>1. /\ t.step = "running" /\ t.read = FALSE /\ t.seen = NoRow
        /\ \A w \in Warehouses : t.log[w] = <<>>
    OBVIOUS
  <1>2. t \in Running
    BY NoRowFact, EmptySeq DEF Running
  <1>3. tx' = [tx EXCEPT ![p] = t] /\ UNCHANGED <<balance, ledger, holder>>
    BY DEF Begin
  <1>4. tx[p].step = "idle"
    BY DEF Begin
  <1> HIDE DEF t
  <1>5. \A q \in Workers : tx'[q] = IF q = p THEN t ELSE tx[q]
    BY <1>3 DEF StockInv, StockTypeOK
  <1>6. \A w \in Warehouses : holder[w] # p
    BY <1>4 DEF StockInv, StockTypeOK
  <1>7. StockTypeOK'
    BY <1>1, <1>2, <1>3, <1>5 DEF StockInv, StockTypeOK, Tx
  <1>8. Approved'
    BY <1>1, <1>5 DEF StockInv, Approved, InMovement, Current
  <1>9. RowsNonNegative'
    BY <1>1, <1>3, <1>5, <1>6, NoRowFact DEF StockInv, RowsNonNegative
  <1>10. OwnIsLastEntry'
    BY <1>1, <1>3, <1>5, <1>6 DEF StockInv, OwnIsLastEntry
  <1>11. NonNegative' /\ BalanceIsLastEntry'
    BY <1>3 DEF StockInv, NonNegative, BalanceIsLastEntry
  <1> QED
    BY <1>7, <1>8, <1>9, <1>10, <1>11 DEF StockInv

LEMMA DiscardInv ==
  ASSUME StockInv, NEW p \in Workers, Discard(p)
  PROVE  StockInv'
  <1> USE StockAssumption
  <1>1. \A q \in Workers : tx'[q] = IF q = p THEN Idle ELSE tx[q]
    BY DEF StockInv, StockTypeOK, Discard
  <1>2. \A w \in Warehouses : holder'[w] = IF holder[w] = p THEN NoWorker ELSE holder[w]
    BY DEF Discard
  <1>3. UNCHANGED <<balance, ledger>>
    BY DEF Discard
  <1>4. StockTypeOK'
    <2>1. tx' \in [Workers -> Tx]
      BY IdleFact DEF StockInv, StockTypeOK, Discard
    <2>2. holder' \in [Warehouses -> Workers \cup {NoWorker}]
      BY DEF StockInv, StockTypeOK, Discard
    <2>3. \A w \in Warehouses : holder'[w] # NoWorker => tx'[holder'[w]].step = "running"
      BY <1>1, <1>2 DEF StockInv, StockTypeOK
    <2> QED
      BY <2>1, <2>2, <2>3, <1>3 DEF StockInv, StockTypeOK
  <1>5. Approved'
    BY <1>1, IdleFact DEF StockInv, Approved, InMovement, Current
  <1>6. RowsNonNegative'
    BY <1>1, <1>2, IdleFact DEF StockInv, RowsNonNegative
  <1>7. OwnIsLastEntry'
    BY <1>1, <1>2, <1>3, IdleFact DEF StockInv, OwnIsLastEntry
  <1>8. NonNegative' /\ BalanceIsLastEntry'
    BY <1>3 DEF StockInv, NonNegative, BalanceIsLastEntry
  <1> QED
    BY <1>4, <1>5, <1>6, <1>7, <1>8 DEF StockInv

(* What a transaction sees of a row has the type of a row, and with the    *)
(* policy on is not below zero.                                            *)
LEMMA ViewFact ==
  ASSUME StockInv, NEW p \in Workers, tx[p].step = "running", NEW w \in Warehouses
  PROVE  /\ View(p, w) \in Row
         /\ PreventNegative => View(p, w).onHand >= 0
  <1>1. tx[p] \in Running
    BY RunningTx DEF StockInv
  <1>2. CASE holder[w] = p
    <2>1. View(p, w) = tx[p].own[w]
      BY <1>2 DEF View
    <2>2. tx[p].own \in [Warehouses -> Row]
      BY <1>1 DEF Running
    <2>3. PreventNegative => tx[p].own[w].onHand >= 0
      BY <1>2 DEF StockInv, RowsNonNegative
    <2> QED
      BY <2>1, <2>2, <2>3
  <1>3. CASE holder[w] # p
    BY <1>3 DEF View, StockInv, StockTypeOK, NonNegative
  <1> QED
    BY <1>2, <1>3

LEMMA MovementFact ==
  ASSUME NEW m \in Movement
  PROVE  /\ m.dir \in {"in", "out", "adjust", "reserve", "release"}
         /\ m.qty \in Nat /\ m.cost \in Int /\ m.wh \in Warehouses /\ m.src \in Warehouses
  <1>1. /\ m.dir \in {"in", "out", "adjust", "reserve", "release"}
        /\ m.wh \in Warehouses /\ m.src \in Warehouses
    BY DEF Movement
  <1>2. m.qty \in 0..MaxQty /\ m.cost \in Costs
    BY DEF Movement
  <1>3. MaxQty \in Nat /\ Costs \subseteq Nat
    BY StockAssumption
  <1>4. m.qty \in Nat
    BY <1>2, <1>3
  <1>5. m.cost \in Int
    <2>1. m.cost \in Nat
      BY <1>2, <1>3, Zenon
    <2> QED
      BY <2>1
  <1> QED
    BY <1>1, <1>4, <1>5

(* The movement in progress is one of a movement's type.                   *)
LEMMA CurrentFact ==
  ASSUME StockInv, NEW p \in Workers, InMovement(p)
  PROVE  /\ tx[p] \in Running /\ tx[p].step = "running"
         /\ Current(p) \in Movement
         /\ Tail(tx[p].todo) \in Seq(Movement)
  <1>1. tx[p] \in Running /\ tx[p].step = "running"
    BY RunningTx DEF StockInv, InMovement
  <1>2. tx[p].todo \in Seq(Movement)
    BY <1>1 DEF Running
  <1>3. tx[p].todo # <<>>
    BY DEF InMovement
  <1>4. Current(p) \in Movement /\ Tail(tx[p].todo) \in Seq(Movement)
    BY <1>2, <1>3, HeadTailProperties DEF Current
  <1> QED
    BY <1>1, <1>4

LEMMA ReadBalanceInv ==
  ASSUME StockInv, NEW p \in Workers, ReadBalance(p)
  PROVE  StockInv'
  <1> USE StockAssumption
  <1> DEFINE row == View(p, Current(p).wh)
             t == Seen(tx[p], row)
  <1>1. tx[p] \in Running /\ Current(p) \in Movement
    BY CurrentFact DEF ReadBalance
  <1>2. Current(p).wh \in Warehouses
    BY <1>1, MovementFact
  <1>3. row \in Row /\ (PreventNegative => row.onHand >= 0)
    BY <1>1, <1>2, ViewFact DEF Running
  <1>4. ~Blocked(Current(p), row)
    BY DEF ReadBalance
  <1>5. tx' = [tx EXCEPT ![p] = t] /\ UNCHANGED <<balance, ledger, holder>>
    BY DEF ReadBalance
  <1> HIDE DEF row
  <1>6. /\ t \in Running /\ t.step = "running" /\ t.seen = row /\ t.todo = tx[p].todo
        /\ t.own = tx[p].own /\ t.log = tx[p].log
    BY <1>1, <1>3 DEF Seen, Running
  <1> HIDE DEF t
  <1>7. \A q \in Workers : tx'[q] = IF q = p THEN t ELSE tx[q]
    BY <1>5 DEF StockInv, StockTypeOK
  <1>8. tx[p].step = "running"
    BY <1>1 DEF Running
  <1>9. StockTypeOK'
    BY <1>5, <1>6, <1>7 DEF StockInv, StockTypeOK, Tx
  <1>10. Approved'
    BY <1>4, <1>6, <1>7 DEF StockInv, Approved, InMovement, Current
  <1>11. RowsNonNegative'
    BY <1>3, <1>5, <1>6, <1>7, <1>8 DEF StockInv, RowsNonNegative
  <1>12. OwnIsLastEntry'
    BY <1>5, <1>6, <1>7, <1>8 DEF StockInv, OwnIsLastEntry
  <1>13. NonNegative' /\ BalanceIsLastEntry'
    BY <1>5 DEF StockInv, NonNegative, BalanceIsLastEntry
  <1> QED
    BY <1>9, <1>10, <1>11, <1>12, <1>13 DEF StockInv

LEMMA DivRoundInt ==
  ASSUME NEW a \in Int, NEW b \in Int, b > 0
  PROVE  DivRound(a, b) \in Int
  BY DEF DivRound

LEMMA MovingAverageInt ==
  ASSUME NEW onHand \in Int, NEW cost \in Int, NEW qty \in Int, NEW unitCost \in Int
  PROVE  MovingAverage(onHand, cost, qty, unitCost) \in Int
  <1> DEFINE a == onHand * cost + qty * unitCost
             b == onHand + qty
  <1>1. a \in Int /\ b \in Int
    OBVIOUS
  <1>2. MovingAverage(onHand, cost, qty, unitCost) = IF b > 0 THEN DivRound(a, b) ELSE unitCost
    BY DEF MovingAverage
  <1> HIDE DEF a, b
  <1> QED
    BY <1>1, <1>2, DivRoundInt

(* What a movement writes: a row, and entries whose last one has its       *)
(* quantity; a reservation leaves the quantity and writes no entry.  A     *)
(* movement that was approved on rows not below zero writes none below.    *)
LEMMA NewRowFact ==
  ASSUME StockInv, NEW p \in Workers, tx[p].step = "running",
         NEW m \in Movement, NEW seen \in Row, NEW now \in Row
  PROVE  LET row == NewRow(p, m, seen, now)
         IN  /\ row \in Row
             /\ m.dir \in {"reserve", "release"} => row.onHand = now.onHand
             /\ /\ PreventNegative /\ ~Blocked(m, seen)
                /\ seen.onHand >= 0 /\ now.onHand >= 0
                => row.onHand >= 0
  <1> USE StockAssumption
  <1> DEFINE row == NewRow(p, m, seen, now)
  <1> HIDE DEF row
  <1>1. /\ m.dir \in {"in", "out", "adjust", "reserve", "release"}
        /\ m.qty \in Nat /\ m.cost \in Int /\ m.src \in Warehouses
    BY MovementFact
  <1>2. /\ seen.onHand \in Int /\ seen.cost \in Int
        /\ now.onHand \in Int /\ now.reserved \in Int /\ now.cost \in Int
    BY DEF Row
  <1>3. CASE m.dir = "in"
    <2> DEFINE avg == MovingAverage(seen.onHand, seen.cost, m.qty, UnitCost(p, m))
    <2>1. UnitCost(p, m) \in Int
      BY <1>1, ViewFact DEF UnitCost, Row
    <2>2. avg \in Int
      <3>1. m.qty \in Int
        BY <1>1
      <3> QED
        BY <1>2, <2>1, <3>1, MovingAverageInt
    <2>3. row = [exists |-> TRUE, onHand |-> seen.onHand + m.qty, reserved |-> now.reserved,
                 cost |-> avg]
      BY <1>3 DEF row, NewRow
    <2> HIDE DEF avg
    <2>4. row \in Row
      BY <1>1, <1>2, <2>2, <2>3 DEF Row
    <2>5. row.onHand = seen.onHand + m.qty
      BY <2>3
    <2> QED
      BY <1>1, <1>2, <1>3, <2>4, <2>5 DEF row
  <1>4. CASE m.dir = "out"
    BY <1>1, <1>2, <1>4 DEF row, NewRow, Row, Blocked
  <1>5. CASE m.dir = "adjust"
    BY <1>1, <1>2, <1>5 DEF row, NewRow, Row
  <1>6. CASE m.dir = "reserve"
    BY <1>1, <1>2, <1>6 DEF row, NewRow, Row
  <1>7. CASE m.dir = "release"
    BY <1>1, <1>2, <1>7 DEF row, NewRow, Row
  <1> QED
    BY <1>1, <1>3, <1>4, <1>5, <1>6, <1>7 DEF row

LEMMA NewEntriesFact ==
  ASSUME NEW m \in Movement, NEW seen \in Row, NEW row \in Row, NEW doc \in Docs,
         NEW log \in Seq(Entry)
  PROVE  LET new == log \o NewEntries(m, seen, row, doc)
         IN  /\ new \in Seq(Entry)
             /\ IF m.dir \in {"reserve", "release"} THEN new = log
                ELSE new # <<>> /\ new[Len(new)].after = row.onHand
  <1> DEFINE e == [change |-> row.onHand - seen.onHand, after |-> row.onHand, doc |-> doc]
  <1>1. e \in Entry /\ e.after = row.onHand
    BY DEF Entry, Row
  <1> HIDE DEF e
  <1>2. CASE m.dir \in {"reserve", "release"}
    <2>1. NewEntries(m, seen, row, doc) = <<>>
      BY <1>2 DEF NewEntries
    <2> QED
      BY <1>2, <2>1
  <1>3. CASE m.dir \notin {"reserve", "release"}
    <2>1. NewEntries(m, seen, row, doc) = <<e>>
      BY <1>3 DEF NewEntries, e
    <2>2. log \o <<e>> = Append(log, e)
      BY <1>1
    <2>3. /\ Append(log, e) \in Seq(Entry) /\ Append(log, e) # <<>>
          /\ Append(log, e)[Len(Append(log, e))] = e
      BY <1>1, AppendProperties
    <2> QED
      BY <1>1, <1>3, <2>1, <2>2, <2>3
  <1> QED
    BY <1>2, <1>3

(* A write of a row the transaction may write, with entries that end in    *)
(* its quantity.                                                           *)
LEMMA WriteBalanceInv ==
  ASSUME StockInv, NEW p \in Workers, WriteBalance(p)
  PROVE  StockInv'
  <1> USE StockAssumption
  <1> DEFINE m == Current(p)
             now == View(p, m.wh)
             seen == IF m.dir = "release" THEN now ELSE tx[p].seen
             row == NewRow(p, m, seen, now)
             new == tx[p].log[m.wh] \o NewEntries(m, seen, row, tx[p].doc)
             t == Moved(tx[p], m, row, NewEntries(m, seen, row, tx[p].doc))
  <1>1. /\ InMovement(p)
        /\ tx[p].read \/ m.dir = "release"
        /\ holder[m.wh] \in {p, NoWorker}
        /\ holder' = [holder EXCEPT ![m.wh] = p]
        /\ tx' = [tx EXCEPT ![p] = t]
        /\ UNCHANGED <<balance, ledger>>
    BY DEF WriteBalance
  <1>2. /\ tx[p] \in Running /\ tx[p].step = "running"
        /\ m \in Movement /\ Tail(tx[p].todo) \in Seq(Movement)
    BY <1>1, CurrentFact
  <1>3. /\ tx[p].seen \in Row /\ tx[p].doc \in Docs /\ tx[p].op \in Ops
        /\ tx[p].own \in [Warehouses -> Row]
        /\ tx[p].log \in [Warehouses -> Seq(Entry)]
    BY <1>2 DEF Running
  <1>4. m.wh \in Warehouses
    BY <1>2, MovementFact
  <1>5. now \in Row /\ (PreventNegative => now.onHand >= 0)
    BY <1>2, <1>4, ViewFact
  <1>6. ~Blocked(m, seen)
    BY <1>1 DEF StockInv, Approved, Blocked
  <1>7. seen \in Row /\ (PreventNegative => seen.onHand >= 0)
    BY <1>2, <1>3, <1>5 DEF StockInv, RowsNonNegative
  <1>8. /\ row \in Row
        /\ m.dir \in {"reserve", "release"} => row.onHand = now.onHand
        /\ PreventNegative => row.onHand >= 0
    BY <1>2, <1>5, <1>6, <1>7, NewRowFact
  <1>9. /\ new \in Seq(Entry)
        /\ IF m.dir \in {"reserve", "release"} THEN new = tx[p].log[m.wh]
           ELSE new # <<>> /\ new[Len(new)].after = row.onHand
    <2>1. tx[p].log[m.wh] \in Seq(Entry) /\ tx[p].doc \in Docs
      BY <1>3, <1>4
    <2> DEFINE log == tx[p].log[m.wh]
               doc == tx[p].doc
    <2>2. new = log \o NewEntries(m, seen, row, doc)
      OBVIOUS
    <2>3. log \in Seq(Entry) /\ doc \in Docs /\ m \in Movement /\ seen \in Row /\ row \in Row
      BY <2>1, <1>2, <1>7, <1>8
    <2> HIDE DEF m, now, seen, row, new, t, log, doc
    <2>4. /\ log \o NewEntries(m, seen, row, doc) \in Seq(Entry)
          /\ IF m.dir \in {"reserve", "release"}
               THEN log \o NewEntries(m, seen, row, doc) = log
               ELSE /\ log \o NewEntries(m, seen, row, doc) # <<>>
                    /\ (log \o NewEntries(m, seen, row, doc))
                         [Len(log \o NewEntries(m, seen, row, doc))].after = row.onHand
      BY <2>3, NewEntriesFact
    <2>5. /\ new \in Seq(Entry)
          /\ IF m.dir \in {"reserve", "release"} THEN new = log
             ELSE new # <<>> /\ new[Len(new)].after = row.onHand
      BY <2>2, <2>4
    <2> QED
      BY <2>5 DEF log
  <1>10. /\ t.step = "running" /\ t.op = tx[p].op /\ t.doc = tx[p].doc
         /\ t.todo = Tail(tx[p].todo) /\ t.read = FALSE /\ t.seen = NoRow
         /\ t.own = [tx[p].own EXCEPT ![m.wh] = row]
         /\ t.log = [tx[p].log EXCEPT ![m.wh] = new]
         /\ t = [step |-> t.step, op |-> t.op, doc |-> t.doc, todo |-> t.todo,
                 read |-> t.read, seen |-> t.seen, own |-> t.own, log |-> t.log]
    BY DEF Moved
  <1>11. now.onHand = IF holder[m.wh] = p THEN tx[p].own[m.wh].onHand
                      ELSE balance[m.wh].onHand
    BY DEF View
  <1> HIDE DEF m, now, seen, row, new, t
  <1>12. t.own \in [Warehouses -> Row] /\ t.log \in [Warehouses -> Seq(Entry)]
    BY <1>3, <1>4, <1>8, <1>9, <1>10
  <1>13. t \in Running
    BY <1>2, <1>3, <1>10, <1>12, NoRowFact DEF Running
  <1>14. \A q \in Workers : tx'[q] = IF q = p THEN t ELSE tx[q]
    BY <1>1 DEF StockInv, StockTypeOK
  <1>15. \A w \in Warehouses : holder'[w] = IF w = m.wh THEN p ELSE holder[w]
    BY <1>1 DEF StockInv, StockTypeOK
  <1>16. \A w \in Warehouses :
           /\ t.own[w] = IF w = m.wh THEN row ELSE tx[p].own[w]
           /\ t.log[w] = IF w = m.wh THEN new ELSE tx[p].log[w]
    BY <1>3, <1>10
  <1>17. StockTypeOK'
    <2>1. tx' \in [Workers -> Tx]
      BY <1>1, <1>13 DEF StockInv, StockTypeOK, Tx
    <2>2. holder' \in [Warehouses -> Workers \cup {NoWorker}]
      BY <1>1 DEF StockInv, StockTypeOK
    <2>3. \A w \in Warehouses : holder'[w] # NoWorker => tx'[holder'[w]].step = "running"
      <3> SUFFICES ASSUME NEW w \in Warehouses, holder'[w] # NoWorker
                   PROVE  tx'[holder'[w]].step = "running"
        OBVIOUS
      <3>1. tx'[p].step = "running"
        BY <1>10, <1>14
      <3>2. CASE w = m.wh
        BY <1>15, <3>1, <3>2
      <3>3. CASE w # m.wh
        <4>1. holder'[w] = holder[w] /\ holder[w] \in Workers /\ tx[holder[w]].step = "running"
          BY <1>15, <3>3 DEF StockInv, StockTypeOK
        <4> QED
          BY <1>14, <3>1, <4>1
      <3> QED
        BY <3>2, <3>3
    <2> QED
      BY <2>1, <2>2, <2>3, <1>1 DEF StockInv, StockTypeOK
  <1>18. Approved'
    BY <1>10, <1>14 DEF StockInv, Approved, InMovement, Current
  <1>19. RowsNonNegative'
    <2> SUFFICES ASSUME PreventNegative, NEW q \in Workers, tx'[q].step = "running"
                 PROVE  /\ tx'[q].seen.onHand >= 0
                        /\ \A w \in Warehouses : holder'[w] = q => tx'[q].own[w].onHand >= 0
      BY DEF RowsNonNegative
    <2>1. CASE q = p
      <3>1. tx'[q].seen.onHand >= 0
        BY <2>1, <1>10, <1>14, NoRowFact
      <3>2. ASSUME NEW w \in Warehouses, holder'[w] = q
            PROVE  tx'[q].own[w].onHand >= 0
        <4>1. tx'[q].own[w] = IF w = m.wh THEN row ELSE tx[p].own[w]
          BY <2>1, <1>14, <1>16
        <4>2. w # m.wh => tx[p].own[w].onHand >= 0
          BY <2>1, <1>2, <1>15, <3>2 DEF StockInv, RowsNonNegative
        <4> QED
          BY <1>8, <4>1, <4>2
      <3> QED
        BY <3>1, <3>2
    <2>2. CASE q # p
      BY <2>2, <1>14, <1>15 DEF StockInv, RowsNonNegative
    <2> QED
      BY <2>1, <2>2
  <1>20. OwnIsLastEntry'
    <2> SUFFICES ASSUME NEW q \in Workers, tx'[q].step = "running", NEW w \in Warehouses
                 PROVE  LET log == tx'[q].log[w]
                        IN  IF holder'[w] = q
                              THEN tx'[q].own[w].onHand =
                                     IF log = <<>> THEN balance[w].onHand ELSE log[Len(log)].after
                              ELSE log = <<>>
      BY <1>1 DEF OwnIsLastEntry
    <2>1. CASE q # p
      BY <2>1, <1>1, <1>14, <1>15 DEF StockInv, OwnIsLastEntry
    <2>2. CASE q = p /\ w # m.wh
      BY SMTT(20), <2>2, <1>2, <1>14, <1>15, <1>16 DEF StockInv, OwnIsLastEntry
    <2>3. CASE q = p /\ w = m.wh
      <3>1. holder'[w] = q /\ tx'[q].own[w] = row /\ tx'[q].log[w] = new
        BY <2>3, <1>14, <1>15, <1>16
      <3>2. row.onHand = IF new = <<>> THEN balance[w].onHand ELSE new[Len(new)].after
        BY <2>3, <1>2, <1>4, <1>8, <1>9, <1>11 DEF StockInv, OwnIsLastEntry
      <3> QED
        BY <3>1, <3>2
    <2> QED
      BY <2>1, <2>2, <2>3
  <1>21. NonNegative' /\ BalanceIsLastEntry'
    BY <1>1 DEF StockInv, NonNegative, BalanceIsLastEntry
  <1> QED
    BY <1>17, <1>18, <1>19, <1>20, <1>21 DEF StockInv

LEMMA CommitStockInv ==
  ASSUME StockInv, NEW p \in Workers, CommitStock(p)
  PROVE  /\ StockInv'
         /\ \A w \in Warehouses :
              /\ Len(ledger[w]) <= Len(ledger'[w])
              /\ \A i \in 1..Len(ledger[w]) : ledger'[w][i] = ledger[w][i]
  <1> USE StockAssumption
  <1>1. tx[p].step = "running"
    BY DEF CommitStock
  <1>2. tx[p] \in Running
    BY <1>1, RunningTx DEF StockInv
  <1>3. tx[p].log \in [Warehouses -> Seq(Entry)]
    BY <1>2 DEF Running
  <1>4. \A q \in Workers : tx'[q] = IF q = p THEN Idle ELSE tx[q]
    BY DEF StockInv, StockTypeOK, CommitStock
  <1>5. \A w \in Warehouses :
          /\ holder'[w] = IF holder[w] = p THEN NoWorker ELSE holder[w]
          /\ balance'[w] = View(p, w)
          /\ ledger'[w] = ledger[w] \o tx[p].log[w]
    BY DEF CommitStock
  <1>6. ASSUME NEW w \in Warehouses
        PROVE  /\ ledger'[w] \in Seq(Entry)
               /\ Len(ledger'[w]) = Len(ledger[w]) + Len(tx[p].log[w])
               /\ \A i \in 1..Len(ledger[w]) : ledger'[w][i] = ledger[w][i]
               /\ Len(ledger[w]) \in Nat /\ Len(tx[p].log[w]) \in Nat
               /\ IF tx[p].log[w] = <<>> THEN ledger'[w] = ledger[w]
                  ELSE /\ ledger'[w] # <<>>
                       /\ ledger'[w][Len(ledger'[w])] = tx[p].log[w][Len(tx[p].log[w])]
    <2>1. ledger[w] \in Seq(Entry) /\ tx[p].log[w] \in Seq(Entry)
      BY <1>3 DEF StockInv, StockTypeOK
    <2>2. ledger'[w] = ledger[w] \o tx[p].log[w]
      BY <1>5
    <2> DEFINE s == ledger[w]
               r == tx[p].log[w]
    <2> HIDE DEF s, r
    <2>3. /\ s \o r \in Seq(Entry) /\ Len(s \o r) = Len(s) + Len(r)
          /\ Len(s) \in Nat /\ Len(r) \in Nat
          /\ \A i \in 1..Len(s) : (s \o r)[i] = s[i]
          /\ IF r = <<>> THEN s \o r = s
             ELSE s \o r # <<>> /\ (s \o r)[Len(s \o r)] = r[Len(r)]
      <3>1. s \in Seq(Entry) /\ r \in Seq(Entry)
        BY <2>1 DEF s, r
      <3> QED
        BY <3>1
    <2> QED
      BY <2>2, <2>3 DEF s, r
  <1>7. \A w \in Warehouses : View(p, w) \in Row /\ (PreventNegative => View(p, w).onHand >= 0)
    BY <1>1, ViewFact
  <1>8. StockTypeOK'
    <2>1. tx' \in [Workers -> Tx]
      BY IdleFact DEF StockInv, StockTypeOK, CommitStock
    <2>2. holder' \in [Warehouses -> Workers \cup {NoWorker}]
      BY DEF StockInv, StockTypeOK, CommitStock
    <2>3. \A w \in Warehouses : holder'[w] # NoWorker => tx'[holder'[w]].step = "running"
      BY <1>4, <1>5 DEF StockInv, StockTypeOK
    <2>4. balance' \in [Warehouses -> Row]
      BY <1>7 DEF CommitStock
    <2>5. ledger' \in [Warehouses -> Seq(Entry)]
      BY <1>5, <1>6 DEF CommitStock
    <2> QED
      BY <2>1, <2>2, <2>3, <2>4, <2>5 DEF StockTypeOK
  <1>9. Approved'
    BY <1>4, IdleFact DEF StockInv, Approved, InMovement, Current
  <1>10. RowsNonNegative'
    <2> SUFFICES ASSUME PreventNegative, NEW q \in Workers, tx'[q].step = "running"
                 PROVE  /\ tx'[q].seen.onHand >= 0
                        /\ \A w \in Warehouses : holder'[w] = q => tx'[q].own[w].onHand >= 0
      BY DEF RowsNonNegative
    <2>1. q # p /\ tx'[q] = tx[q]
      BY <1>4, IdleFact
    <2>2. \A w \in Warehouses : holder'[w] = q => holder[w] = q
      BY <1>5
    <2> QED
      BY <2>1, <2>2 DEF StockInv, RowsNonNegative
  <1>11. \A w \in Warehouses : holder[w] # p => balance'[w] = balance[w]
    BY <1>5 DEF View
  <1>12. OwnIsLastEntry'
    <2> SUFFICES ASSUME NEW q \in Workers, tx'[q].step = "running", NEW w \in Warehouses
                 PROVE  LET log == tx'[q].log[w]
                        IN  IF holder'[w] = q
                              THEN tx'[q].own[w].onHand =
                                     IF log = <<>> THEN balance'[w].onHand ELSE log[Len(log)].after
                              ELSE log = <<>>
      BY DEF OwnIsLastEntry
    <2>1. q # p /\ tx'[q] = tx[q]
      BY <1>4, IdleFact
    <2>2. holder'[w] = q <=> holder[w] = q
      BY <1>5, <2>1
    <2> QED
      BY <2>1, <2>2, <1>11 DEF StockInv, OwnIsLastEntry
  <1>13. NonNegative'
    BY <1>5, <1>7 DEF NonNegative
  <1>14. BalanceIsLastEntry'
    <2> SUFFICES ASSUME NEW w \in Warehouses
                 PROVE  balance'[w].onHand =
                          IF ledger'[w] = <<>> THEN 0 ELSE ledger'[w][Len(ledger'[w])].after
      BY DEF BalanceIsLastEntry
    <2>1. balance[w].onHand =
            IF ledger[w] = <<>> THEN 0 ELSE ledger[w][Len(ledger[w])].after
      BY DEF StockInv, BalanceIsLastEntry
    <2>2. View(p, w).onHand = IF tx[p].log[w] = <<>> THEN balance[w].onHand
                              ELSE tx[p].log[w][Len(tx[p].log[w])].after
      BY <1>1 DEF View, StockInv, OwnIsLastEntry
    <2> QED
      BY <1>5, <1>6, <2>1, <2>2
  <1>15. ASSUME NEW w \in Warehouses
         PROVE  Len(ledger[w]) <= Len(ledger'[w])
    <2>1. /\ Len(ledger[w]) \in Nat /\ Len(tx[p].log[w]) \in Nat
          /\ Len(ledger'[w]) = Len(ledger[w]) + Len(tx[p].log[w])
      BY <1>6
    <2> DEFINE a == Len(ledger[w])
               b == Len(tx[p].log[w])
               c == Len(ledger'[w])
    <2>2. a \in Nat /\ b \in Nat /\ c = a + b
      BY <2>1
    <2> HIDE DEF a, b, c
    <2>3. a <= c
      BY <2>2
    <2> QED
      BY <2>3 DEF a, c
  <1> QED
    BY <1>6, <1>8, <1>9, <1>10, <1>12, <1>13, <1>14, <1>15 DEF StockInv
=============================================================================
