--------------------------- MODULE PointOfSale_proofs ---------------------------
(***************************************************************************)
(* Proofs about the point of sale: a receipt takes its goods once and gets *)
(* them back at most once, for any number of workers, receipts and shifts, *)
(* however often a receipt is sent, voided, held, recalled, timed out.     *)
(***************************************************************************)
EXTENDS PointOfSale, StockMovement_proofs, Sums

(* A transaction of the counter moves one receipt's goods: it has written  *)
(* nothing yet, or the one ledger entry that belongs to it.                *)
Direction(op) == IF op = "sell" THEN "out" ELSE "in"

OneEntry(t) ==
  \/ /\ \E m \in Movement :
          /\ m.dir = Direction(t.op) /\ m.wh = Store /\ t.todo = <<m>>
          /\ t.op # "receive" => m.qty = 1
     /\ t.log[Store] = <<>>
  \/ /\ t.todo = <<>>
     /\ \E e \in Entry :
          /\ t.log[Store] = <<e>> /\ e.doc = t.doc
          /\ t.op = "sell" => e.change = -1
          /\ t.op = "void" => e.change = 1

ScriptsOK ==
  \A p \in Workers : tx[p].step = "running" =>
    /\ OneEntry(tx[p])
    /\ IF tx[p].op = "receive" THEN tx[p].doc = Opening ELSE tx[p].doc \in Ulids
    /\ tx[p].op = "void" => receipts[tx[p].doc] # "none"

(* A reversal whose void still runs: the goods of the void are written and *)
(* not yet committed, nobody else brought any back.                        *)
ReversalsOK ==
  \A p \in Workers : reversal[p] # NoReversal =>
    LET u == reversal[p].u
    IN  /\ receipts[u] # "none"
        /\ tx[p].step = "running" =>
             /\ tx[p].op = "void" /\ tx[p].doc = u /\ tx[p].todo = <<>>
             /\ Returned(u) = {}
             /\ reversal[p].step = "done" => journal[u] = "reversed"
        /\ reversal[p].step = "done" => tx[p].step = "running"

CallsOK ==
  /\ call = [p \in Workers |-> call[p]]
  /\ \A p \in Workers :
       /\ "op" \in DOMAIN call[p]
       /\ call[p].op \in {"hold", "recall"} => call[p].u \in Ulids /\ receipts[call[p].u] # "none"

(* The entries of a receipt in the ledger of the store. *)
EntriesOK ==
  \A u \in Ulids :
    /\ IF receipts[u] = "none" THEN Taken(u) = {} /\ Returned(u) = {}
       ELSE \E i \in Nat : Taken(u) = {i}
    /\ \/ Returned(u) = {} /\ receipts[u] # "voided"
       \/ (\E i \in Nat : Returned(u) = {i}) /\ journal[u] = "reversed"

PosTablesOK ==
  /\ receipts \in [Ulids -> Status]
  /\ journal \in [Ulids -> {"none", "posted", "reversed"}]
  /\ reversal \in [Workers -> Reversal]

PosInv ==
  StockInv /\ PosTablesOK /\ ScriptsOK /\ ReversalsOK /\ CallsOK /\ EntriesOK

-----------------------------------------------------------------------------
LEMMA MoveFact ==
  ASSUME NEW dir \in {"in", "out"}, NEW q \in 1..MaxQty
  PROVE  /\ Move(dir, q) \in Movement /\ Move(dir, q).dir = dir
         /\ Move(dir, q).wh = Store /\ Move(dir, q).qty = q
  <1>1. (CHOOSE c \in Costs : TRUE) \in Costs  BY StockAssumption
  <1>2. Store \in Warehouses  BY PosAssumption
  <1> QED  BY <1>1, <1>2, StockAssumption DEF Move, Movement

LEMMA OneIsQty == 1 \in 1..MaxQty
  BY StockAssumption

(* A step that leaves the ledger, the receipts and the entries alone. *)
LEMMA EntriesKept ==
  ASSUME EntriesOK, ledger' = ledger, receipts' = receipts, journal' = journal
  PROVE  EntriesOK'
  BY DEF EntriesOK, Taken, Returned

LEMMA CallsKept ==
  ASSUME CallsOK, call' = call, receipts' = receipts
  PROVE  CallsOK'
  BY DEF CallsOK

LEMMA ReturnedKept ==
  ASSUME ledger' = ledger
  PROVE  \A u : Taken(u)' = Taken(u) /\ Returned(u)' = Returned(u)
  BY DEF Taken, Returned

LEMMA TxSteps ==
  ASSUME StockInv, NEW p \in Workers
  PROVE  /\ tx[p].step = "running" => tx[p] \in Running
         /\ tx[p].step = "idle" \/ tx[p].step = "running"
  BY RunningTx DEF StockInv, StockTypeOK, Tx, Idle, Running

(* A transaction begins. *)
LEMMA BeginsPos ==
  ASSUME PosInv, NEW p \in Workers, NEW op \in Ops, NEW doc \in Docs, Free(p), UNCHANGED posVars,
         NEW m \in Movement, m.dir = Direction(op), m.wh = Store, op # "receive" => m.qty = 1,
         Begin(p, op, doc, <<m>>),
         IF op = "receive" THEN doc = Opening ELSE doc \in Ulids,
         op = "void" => receipts[doc] # "none"
  PROVE  PosInv'
  <1> DEFINE t == [step |-> "running", op |-> op, doc |-> doc, todo |-> <<m>>,
                   read |-> FALSE, seen |-> NoRow, own |-> [w \in Warehouses |-> NoRow],
                   log |-> [w \in Warehouses |-> <<>>]]
  <1>0. <<m>> \in Seq(Movement)  OBVIOUS
  <1>1. StockInv'  BY <1>0, BeginInv DEF PosInv
  <1>2. t.op = op /\ t.doc = doc /\ t.todo = <<m>> /\ t.log[Store] = <<>>
    BY PosAssumption
  <1>3. /\ tx' = [tx EXCEPT ![p] = t] /\ ledger' = ledger /\ receipts' = receipts
        /\ journal' = journal /\ reversal' = reversal /\ call' = call
    BY DEF Begin, posVars
  <1> HIDE DEF t
  <1>4. \A q \in Workers : tx'[q] = IF q = p THEN t ELSE tx[q]
    BY <1>3 DEF PosInv, StockInv, StockTypeOK
  <1>5. OneEntry(t)  BY <1>2 DEF OneEntry
  <1>6. ScriptsOK'
    BY <1>2, <1>3, <1>4, <1>5 DEF PosInv, ScriptsOK, OneEntry
  <1>7. ReversalsOK'
    BY <1>3, <1>4, ReturnedKept DEF PosInv, ReversalsOK, Free
  <1>8. EntriesOK' /\ CallsOK' /\ PosTablesOK'
    BY <1>3, EntriesKept, CallsKept DEF PosInv, PosTablesOK
  <1> QED  BY <1>1, <1>6, <1>7, <1>8 DEF PosInv

(* A transaction is gone, and its reversal is over or goes on alone. *)
LEMMA DiscardsPos ==
  ASSUME PosInv, NEW p \in Workers, Discard(p), NEW r \in {NoReversal, reversal[p]},
         r.step # "done", reversal' = [reversal EXCEPT ![p] = r],
         UNCHANGED <<shifts, receipts, journal, call, cashIn, cashOut>>
  PROVE  PosInv'
  <1>1. StockInv'  BY DiscardInv DEF PosInv
  <1>2. tx' = [tx EXCEPT ![p] = Idle] /\ ledger' = ledger  BY DEF Discard
  <1>3. \A q \in Workers : /\ tx'[q] = IF q = p THEN Idle ELSE tx[q]
                           /\ reversal'[q] = IF q = p THEN r ELSE reversal[q]
    BY <1>2 DEF PosInv, StockInv, StockTypeOK, PosTablesOK
  <1>4. Idle.step # "running"  BY IdleFact
  <1>5. ScriptsOK'
    BY <1>3, <1>4 DEF PosInv, ScriptsOK, OneEntry
  <1>6. ReversalsOK'
    BY <1>2, <1>3, <1>4, ReturnedKept DEF PosInv, ReversalsOK
  <1>7. reversal' \in [Workers -> Reversal]  BY DEF PosInv, PosTablesOK, Reversal
  <1>8. EntriesOK' /\ CallsOK' /\ PosTablesOK'
    BY <1>2, <1>7, EntriesKept, CallsKept DEF PosInv, PosTablesOK
  <1> QED  BY <1>1, <1>5, <1>6, <1>8 DEF PosInv

(* A transaction that runs and is not past its movement reverses nothing.  *)
LEMMA NoReversalYet ==
  ASSUME PosInv, NEW p \in Workers, tx[p].step = "running",
         tx[p].todo # <<>> \/ tx[p].op # "void"
  PROVE  reversal[p] = NoReversal
  BY DEF PosInv, ReversalsOK

LEMMA ReadsPos ==
  ASSUME PosInv, NEW p \in Workers, ReadBalance(p), UNCHANGED posVars
  PROVE  PosInv'
  <1> DEFINE t == Seen(tx[p], View(p, Current(p).wh))
  <1>1. StockInv'  BY ReadBalanceInv DEF PosInv
  <1>2. /\ t.op = tx[p].op /\ t.doc = tx[p].doc /\ t.todo = tx[p].todo /\ t.log = tx[p].log
        /\ t.step = "running" /\ tx[p].step = "running"
    BY DEF Seen, ReadBalance, InMovement
  <1>3. /\ tx' = [tx EXCEPT ![p] = t] /\ ledger' = ledger /\ receipts' = receipts
        /\ journal' = journal /\ reversal' = reversal /\ call' = call
    BY DEF ReadBalance, posVars
  <1> HIDE DEF t
  <1>4. \A q \in Workers : tx'[q] = IF q = p THEN t ELSE tx[q]
    BY <1>3 DEF PosInv, StockInv, StockTypeOK
  <1>5. OneEntry(tx[p]) => OneEntry(t)  BY <1>2 DEF OneEntry
  <1>6. ScriptsOK'
    BY <1>2, <1>3, <1>4, <1>5 DEF PosInv, ScriptsOK
  <1>7. ReversalsOK'
    BY <1>2, <1>3, <1>4, ReturnedKept DEF PosInv, ReversalsOK
  <1>8. EntriesOK' /\ CallsOK' /\ PosTablesOK'
    BY <1>3, EntriesKept, CallsKept DEF PosInv, PosTablesOK
  <1> QED  BY <1>1, <1>6, <1>7, <1>8 DEF PosInv

(* The write leaves one entry: what it takes or brings is the quantity of  *)
(* the movement, whatever the row was when it was read.                    *)
LEMMA WritesPos ==
  ASSUME PosInv, NEW p \in Workers, WriteBalance(p), UNCHANGED posVars
  PROVE  PosInv'
  <1> DEFINE m == Current(p)
             now == View(p, m.wh)
             seen == IF m.dir = "release" THEN now ELSE tx[p].seen
             row == NewRow(p, m, seen, now)
             t == Moved(tx[p], m, row, NewEntries(m, seen, row, tx[p].doc))
             e == [change |-> row.onHand - seen.onHand, after |-> row.onHand, doc |-> tx[p].doc]
  <1>1. StockInv'  BY WriteBalanceInv DEF PosInv
  <1>2. /\ InMovement(p)
        /\ tx' = [tx EXCEPT ![p] = t] /\ ledger' = ledger /\ receipts' = receipts
        /\ journal' = journal /\ reversal' = reversal /\ call' = call
    BY DEF WriteBalance, posVars
  <1>3. tx[p].step = "running" /\ tx[p] \in Running
    BY <1>2, RunningTx DEF InMovement, PosInv, StockInv
  <1>4. PICK n \in Movement :
          /\ n.dir = Direction(tx[p].op) /\ n.wh = Store /\ tx[p].todo = <<n>>
          /\ tx[p].op # "receive" => n.qty = 1
          /\ tx[p].log[Store] = <<>>
    BY <1>2, <1>3 DEF PosInv, ScriptsOK, OneEntry, InMovement
  <1>5. m = n /\ Tail(tx[p].todo) = <<>>  BY <1>4 DEF Current
  <1>6. m.dir \in {"in", "out"} /\ m.wh = Store /\ m.qty \in Nat
    BY <1>4, <1>5, MovementFact DEF Direction
  <1>7. seen = tx[p].seen /\ seen \in Row /\ now \in Row
    BY <1>3, <1>6, ViewFact, PosAssumption DEF Running, PosInv
  <1>8. row \in Row
    BY <1>3, <1>4, <1>5, <1>7, NewRowFact DEF PosInv
  <1>9. row.onHand - seen.onHand = IF m.dir = "out" THEN 0 - m.qty ELSE m.qty
    <2>1. seen.onHand \in Int  BY <1>7 DEF Row
    <2>2. CASE m.dir = "in"
      <3>1. row.onHand = seen.onHand + m.qty  BY <2>2 DEF NewRow
      <3> QED  BY <1>6, <2>1, <2>2, <3>1
    <2>3. CASE m.dir = "out"
      <3>1. row.onHand = seen.onHand - m.qty  BY <2>3 DEF NewRow
      <3> QED  BY <1>6, <2>1, <2>3, <3>1
    <2> QED  BY <1>6, <2>2, <2>3
  <1>10. e \in Entry  BY <1>3, <1>7, <1>8 DEF Entry, Row, Running
  <1>11. NewEntries(m, seen, row, tx[p].doc) = <<e>>  BY <1>6 DEF NewEntries
  <1>12. /\ t.op = tx[p].op /\ t.doc = tx[p].doc /\ t.step = "running"
         /\ t.todo = <<>> /\ t.log = [tx[p].log EXCEPT ![Store] = @ \o <<e>>]
    BY <1>5, <1>6, <1>11 DEF Moved
  <1>13. t.log[Store] = <<e>>
    <2>1. tx[p].log \in [Warehouses -> Seq(Entry)]  BY <1>3 DEF Running
    <2>2. t.log[Store] = <<>> \o <<e>>  BY <1>4, <1>12, <2>1, PosAssumption
    <2> HIDE DEF e
    <2> QED  BY SMTT(20), <1>10, <2>2
  <1>14. /\ e.doc = tx[p].doc
         /\ tx[p].op = "sell" => e.change = -1
         /\ tx[p].op = "void" => e.change = 1
    BY <1>4, <1>5, <1>9 DEF Direction
  <1> HIDE DEF m, now, seen, row, t, e
  <1>15. OneEntry(t)  BY <1>10, <1>12, <1>13, <1>14 DEF OneEntry
  <1>16. \A q \in Workers : tx'[q] = IF q = p THEN t ELSE tx[q]
    BY <1>2 DEF PosInv, StockInv, StockTypeOK
  <1>17. ScriptsOK'
    BY <1>2, <1>3, <1>12, <1>15, <1>16 DEF PosInv, ScriptsOK
  <1>18. reversal[p] = NoReversal  BY <1>2, NoReversalYet DEF InMovement
  <1>19. ReversalsOK'
    BY <1>2, <1>16, <1>18, ReturnedKept DEF PosInv, ReversalsOK
  <1>20. EntriesOK' /\ CallsOK' /\ PosTablesOK'
    BY <1>2, EntriesKept, CallsKept DEF PosInv, PosTablesOK
  <1> QED  BY <1>1, <1>17, <1>19, <1>20 DEF PosInv

(* What is committed is entered once more at the end of the ledger. *)
LEMMA LedgerGrows ==
  ASSUME StockInv, NEW e \in Entry, ledger'[Store] = Append(ledger[Store], e), NEW u
  PROVE  LET n == Len(ledger[Store]) + 1
         IN  /\ n \in Nat
             /\ Taken(u)' = IF e.doc = u /\ e.change < 0 THEN Taken(u) \cup {n} ELSE Taken(u)
             /\ Returned(u)' = IF e.doc = u /\ e.change > 0 THEN Returned(u) \cup {n}
                               ELSE Returned(u)
  <1> DEFINE s == ledger[Store]
  <1>1. s \in Seq(Entry) /\ ledger'[Store] = Append(s, e)
    BY PosAssumption DEF StockInv, StockTypeOK
  <1> HIDE DEF s
  <1>2. /\ Len(s) \in Nat /\ DOMAIN s = 1..Len(s)
        /\ DOMAIN Append(s, e) = (1..Len(s)) \cup {Len(s) + 1}
        /\ Append(s, e)[Len(s) + 1] = e
        /\ \A i \in 1..Len(s) : Append(s, e)[i] = s[i]
    <2>1. /\ Append(s, e) \in Seq(Entry) /\ Len(Append(s, e)) = Len(s) + 1
          /\ \A i \in 1..Len(s) : Append(s, e)[i] = s[i]
          /\ Append(s, e)[Len(s) + 1] = e
      BY <1>1, AppendProperties
    <2>2. Len(s) \in Nat /\ DOMAIN s = 1..Len(s)  BY <1>1
    <2>3. DOMAIN Append(s, e) = 1..(Len(s) + 1)  BY <2>1
    <2> QED  BY <2>1, <2>2, <2>3
  <1>3. Taken(u) = {i \in 1..Len(s) : s[i].doc = u /\ s[i].change < 0}
    BY <1>2 DEF Taken, s
  <1>4. Returned(u) = {i \in 1..Len(s) : s[i].doc = u /\ s[i].change > 0}
    BY <1>2 DEF Returned, s
  <1>5. Taken(u)' = {i \in DOMAIN Append(s, e) :
                       Append(s, e)[i].doc = u /\ Append(s, e)[i].change < 0}
    BY <1>1 DEF Taken
  <1>6. Returned(u)' = {i \in DOMAIN Append(s, e) :
                          Append(s, e)[i].doc = u /\ Append(s, e)[i].change > 0}
    BY <1>1 DEF Returned
  <1>7. Len(s) + 1 \notin 1..Len(s)  BY <1>2
  <1>8. Taken(u)' = IF e.doc = u /\ e.change < 0 THEN Taken(u) \cup {Len(s) + 1} ELSE Taken(u)
    BY <1>2, <1>3, <1>5, <1>7
  <1>9. Returned(u)' = IF e.doc = u /\ e.change > 0 THEN Returned(u) \cup {Len(s) + 1}
                       ELSE Returned(u)
    BY <1>2, <1>4, <1>6, <1>7
  <1> QED  BY <1>2, <1>8, <1>9 DEF s

LEMMA WrittenLog ==
  ASSUME NEW t, OneEntry(t), t.todo = <<>>
  PROVE  t.log[Store] # <<>>
  <1>1. \A m \in Movement : <<m>> # <<>>  OBVIOUS
  <1>2. PICK e \in Entry : t.log[Store] = <<e>>  BY <1>1 DEF OneEntry
  <1>3. <<e>> # <<>>  OBVIOUS
  <1> QED  BY <1>2, <1>3

(* A transaction with an entry in its log holds the row of the store. *)
LEMMA OneAtATime ==
  ASSUME PosInv, NEW p \in Workers, NEW q \in Workers,
         tx[p].step = "running", tx[p].todo = <<>>, tx[q].step = "running", tx[q].todo = <<>>
  PROVE  p = q
  <1>1. tx[p].log[Store] # <<>> /\ tx[q].log[Store] # <<>>
    <2>1. OneEntry(tx[p]) /\ OneEntry(tx[q])  BY DEF PosInv, ScriptsOK
    <2> QED  BY <2>1, WrittenLog
  <1>2. holder[Store] = p /\ holder[Store] = q
    BY <1>1, PosAssumption DEF PosInv, StockInv, OwnIsLastEntry
  <1> QED  BY <1>2

LEMMA CommitsPos ==
  ASSUME PosInv, NEW p \in Workers, Commit(p)
  PROVE  PosInv'
  <1> DEFINE t == tx[p]  u == tx[p].doc
  <1>1. /\ t.step = "running" /\ t.todo = <<>> /\ t \in Running
        /\ tx' = [tx EXCEPT ![p] = Idle]
        /\ ledger' = [w \in Warehouses |-> ledger[w] \o t.log[w]]
        /\ reversal' = [reversal EXCEPT ![p] = NoReversal]
        /\ call' = call
    BY RunningTx DEF Commit, CommitStock, PosInv, StockInv
  <1>2. /\ t.op = "sell" => receipts[u] = "none"
        /\ t.op = "void" => reversal[p].step = "done"
        /\ receipts' = CASE t.op = "sell" -> [receipts EXCEPT ![u] = "completed"]
                         [] t.op = "void" -> [receipts EXCEPT ![u] = "voided"]
                         [] OTHER -> receipts
        /\ journal' = IF t.op = "sell" THEN [journal EXCEPT ![u] = "posted"] ELSE journal
    BY DEF Commit, UlidTaken
  <1>3. StockInv'  BY CommitStockInv DEF PosInv, Commit
  <1>4. PICK e \in Entry :
          /\ t.log[Store] = <<e>> /\ e.doc = u
          /\ t.op = "sell" => e.change = -1
          /\ t.op = "void" => e.change = 1
    BY <1>1 DEF PosInv, ScriptsOK, OneEntry
  <1>5. t.op \in {"receive", "sell", "void"}
    BY <1>1, PosAssumption DEF Running
  <1>6. IF t.op = "receive" THEN u = Opening ELSE u \in Ulids
    BY <1>1 DEF PosInv, ScriptsOK
  <1>7. ledger'[Store] = Append(ledger[Store], e)
    <2>1. ledger[Store] \in Seq(Entry)  BY PosAssumption DEF PosInv, StockInv, StockTypeOK
    <2>2. ledger'[Store] = ledger[Store] \o <<e>>  BY <1>1, <1>4, PosAssumption
    <2> QED  BY <2>1, <2>2
  <1>8. t.op = "void" => /\ reversal[p] # NoReversal /\ reversal[p].u = u
                         /\ Returned(u) = {} /\ journal[u] = "reversed"
    BY SMTT(20), <1>1, <1>2 DEF NoReversal, PosInv, ReversalsOK
  <1> HIDE DEF t, u
  <1>9. \A v \in Ulids : receipts[v] # "none" => receipts'[v] # "none"
    BY <1>2, <1>5, <1>6 DEF PosInv, PosTablesOK
  <1>10. \A q \in Workers : /\ tx'[q] = IF q = p THEN Idle ELSE tx[q]
                            /\ reversal'[q] = IF q = p THEN NoReversal ELSE reversal[q]
    BY <1>1 DEF PosInv, PosTablesOK, StockInv, StockTypeOK
  <1>11. ScriptsOK'
    BY <1>9, <1>10, IdleFact, PosAssumption DEF PosInv, ScriptsOK, OneEntry
  <1>12. \A q \in Workers : q # p /\ reversal[q] # NoReversal => tx[q].step # "running"
    BY <1>1, OneAtATime DEF PosInv, ReversalsOK, t
  <1>13. \A q \in Workers : reversal[q] # NoReversal => reversal[q].u \in Ulids
    BY DEF PosInv, PosTablesOK, Reversal
  <1>14. ReversalsOK'
    BY <1>9, <1>10, <1>12, <1>13 DEF PosInv, ReversalsOK
  <1>15. CallsOK'
    BY <1>1, <1>9 DEF PosInv, CallsOK
  <1>16. PosTablesOK'
    BY <1>1, <1>2, <1>5 DEF PosInv, PosTablesOK, Reversal, Status
  <1>17. EntriesOK'
    <2> SUFFICES ASSUME NEW v \in Ulids
                 PROVE  /\ IF receipts'[v] = "none" THEN Taken(v)' = {} /\ Returned(v)' = {}
                           ELSE \E i \in Nat : Taken(v)' = {i}
                        /\ \/ Returned(v)' = {} /\ receipts'[v] # "voided"
                           \/ (\E i \in Nat : Returned(v)' = {i}) /\ journal'[v] = "reversed"
      BY DEF EntriesOK
    <2> DEFINE n == Len(ledger[Store]) + 1
    <2>1. /\ n \in Nat
          /\ Taken(v)' = IF e.doc = v /\ e.change < 0 THEN Taken(v) \cup {n} ELSE Taken(v)
          /\ Returned(v)' = IF e.doc = v /\ e.change > 0 THEN Returned(v) \cup {n}
                            ELSE Returned(v)
      BY <1>7, LedgerGrows DEF PosInv
    <2> HIDE DEF n
    <2>2. /\ IF receipts[v] = "none" THEN Taken(v) = {} /\ Returned(v) = {}
             ELSE \E i \in Nat : Taken(v) = {i}
          /\ \/ Returned(v) = {} /\ receipts[v] # "voided"
             \/ (\E i \in Nat : Returned(v) = {i}) /\ journal[v] = "reversed"
      BY DEF PosInv, EntriesOK
    <2>3. CASE v # u
      <3>1. Taken(v)' = Taken(v) /\ Returned(v)' = Returned(v)  BY <1>4, <2>1, <2>3
      <3>2. receipts'[v] = receipts[v] /\ journal'[v] = journal[v]
        BY <1>2, <1>5, <2>3 DEF PosInv, PosTablesOK
      <3> QED  BY <2>2, <3>1, <3>2
    <2>4. CASE v = u /\ t.op = "sell"
      <3>1. receipts'[v] = "completed"  BY <1>2, <2>4 DEF PosInv, PosTablesOK
      <3>2. Taken(v)' = {n} /\ Returned(v)' = {}  BY <1>2, <1>4, <2>1, <2>2, <2>4
      <3> QED  BY <2>1, <3>1, <3>2
    <2>5. CASE v = u /\ t.op = "void"
      <3>1. receipts'[v] = "voided" /\ journal'[v] = "reversed"
        BY <1>2, <1>8, <2>5 DEF PosInv, PosTablesOK
      <3>2. receipts[v] # "none"
        BY <1>1, <2>5 DEF PosInv, ScriptsOK, t, u
      <3>3. Taken(v)' = Taken(v) /\ Returned(v)' = {n}  BY <1>4, <1>8, <2>1, <2>5
      <3> QED  BY <2>1, <2>2, <3>1, <3>2, <3>3
    <2>6. v = u => t.op # "receive"
      BY <1>6, PosAssumption
    <2> QED  BY <1>5, <2>3, <2>4, <2>5, <2>6
  <1> QED  BY <1>3, <1>11, <1>14, <1>15, <1>16, <1>17 DEF PosInv

-----------------------------------------------------------------------------
(* The reversal of a void, on its own connection. *)
LEMMA StartsReversal ==
  ASSUME PosInv, NEW p \in Workers, StartReversal(p)
  PROVE  PosInv'
  <1> DEFINE r == [step |-> "read", u |-> tx[p].doc]
  <1>1. /\ tx[p].step = "running" /\ tx[p].op = "void" /\ tx[p].todo = <<>>
        /\ journal[tx[p].doc] = "posted" /\ reversal' = [reversal EXCEPT ![p] = r]
        /\ UNCHANGED <<stockVars, receipts, journal, call>>
    BY DEF StartReversal, AtReversal
  <1>2. tx[p].doc \in Ulids /\ receipts[tx[p].doc] # "none"
    BY <1>1 DEF PosInv, ScriptsOK
  <1>3. Returned(tx[p].doc) = {}  BY <1>1, <1>2 DEF PosInv, EntriesOK
  <1>4. r \in Reversal /\ r.u = tx[p].doc /\ r.step = "read"  BY <1>2 DEF Reversal
  <1>5. StockInv' /\ tx' = tx /\ ledger' = ledger
    BY <1>1, StockStutterInv DEF PosInv, stockVars
  <1> HIDE DEF r
  <1>6. PosTablesOK'  BY <1>1, <1>4 DEF PosInv, PosTablesOK
  <1>7. ReversalsOK'
    BY ZenonT(60), <1>1, <1>2, <1>3, <1>4, <1>5, ReturnedKept DEF PosInv, PosTablesOK, ReversalsOK
  <1>8. ScriptsOK'  BY <1>1, <1>5 DEF PosInv, ScriptsOK, OneEntry
  <1>9. EntriesOK' /\ CallsOK'  BY <1>1, <1>5, EntriesKept, CallsKept DEF PosInv
  <1> QED  BY <1>5, <1>6, <1>7, <1>8, <1>9 DEF PosInv

LEMMA FinishesReversal ==
  ASSUME PosInv, NEW p \in Workers, FinishReversal(p)
  PROVE  PosInv'
  <1> DEFINE u == reversal[p].u
             r == IF tx[p].step = "running" THEN [reversal[p] EXCEPT !.step = "done"]
                  ELSE NoReversal
  <1>1. /\ reversal[p].step = "read" /\ journal' = [journal EXCEPT ![u] = "reversed"]
        /\ reversal' = [reversal EXCEPT ![p] = r] /\ UNCHANGED <<stockVars, receipts, call>>
    BY DEF FinishReversal
  <1>2. reversal[p] # NoReversal /\ reversal[p] \in Reversal /\ u \in Ulids
    BY <1>1 DEF PosInv, PosTablesOK, Reversal, NoReversal
  <1>3. /\ r \in Reversal
        /\ IF tx[p].step = "running" THEN r.u = u /\ r.step = "done" ELSE r = NoReversal
    BY <1>1, <1>2 DEF Reversal, NoReversal
  <1>4. StockInv' /\ tx' = tx /\ ledger' = ledger
    BY <1>1, StockStutterInv DEF PosInv, stockVars
  <1> HIDE DEF u, r
  <1>5. \A v \in Ulids : journal'[v] = IF v = u THEN "reversed" ELSE journal[v]
    BY <1>1 DEF PosInv, PosTablesOK
  <1>6. \A q \in Workers : reversal'[q] = IF q = p THEN r ELSE reversal[q]
    BY <1>1 DEF PosInv, PosTablesOK
  <1>7. PosTablesOK'  BY <1>1, <1>3 DEF PosInv, PosTablesOK
  <1>8. EntriesOK'
    BY <1>1, <1>4, <1>5, ReturnedKept DEF PosInv, EntriesOK
  <1>9. \A q \in Workers : reversal[q] # NoReversal => reversal[q].u \in Ulids
    BY DEF PosInv, PosTablesOK, Reversal
  <1>10. ReversalsOK'
    <2> SUFFICES ASSUME NEW q \in Workers, reversal'[q] # NoReversal
                 PROVE  /\ receipts[reversal'[q].u] # "none"
                        /\ tx[q].step = "running" =>
                             /\ tx[q].op = "void" /\ tx[q].doc = reversal'[q].u
                             /\ tx[q].todo = <<>> /\ Returned(reversal'[q].u) = {}
                             /\ reversal'[q].step = "done" => journal'[reversal'[q].u] = "reversed"
                        /\ reversal'[q].step = "done" => tx[q].step = "running"
      BY <1>1, <1>4, ReturnedKept DEF ReversalsOK
    <2>1. CASE q = p
      BY <1>2, <1>3, <1>5, <1>6, <2>1 DEF PosInv, ReversalsOK, u
    <2>2. CASE q # p
      BY <1>5, <1>6, <1>9, <2>2 DEF PosInv, ReversalsOK
    <2> QED  BY <2>1, <2>2
  <1>11. ScriptsOK' /\ CallsOK'
    BY <1>1, <1>4, CallsKept DEF PosInv, ScriptsOK, OneEntry
  <1> QED  BY <1>4, <1>7, <1>8, <1>10, <1>11 DEF PosInv

LEMMA FailsReversal ==
  ASSUME PosInv, NEW p \in Workers, FailReversal(p)
  PROVE  PosInv'
  <1>1. reversal' = [reversal EXCEPT ![p] = NoReversal] /\ NoReversal.step # "done"
    BY DEF FailReversal, NoReversal
  <1>2. CASE tx[p].step = "running"
    BY <1>1, <1>2, DiscardsPos DEF FailReversal
  <1>3. CASE tx[p].step # "running"
    <2>1. UNCHANGED stockVars /\ receipts' = receipts /\ journal' = journal /\ call' = call
      BY <1>3 DEF FailReversal
    <2>2. StockInv' /\ tx' = tx /\ ledger' = ledger
      BY <2>1, StockStutterInv DEF PosInv, stockVars
    <2>3. PosTablesOK' /\ ReversalsOK'
      BY <1>1, <2>1, <2>2, ReturnedKept DEF PosInv, PosTablesOK, ReversalsOK, Reversal
    <2>4. ScriptsOK'  BY <2>1, <2>2 DEF PosInv, ScriptsOK, OneEntry
    <2>5. EntriesOK' /\ CallsOK'  BY <2>1, <2>2, EntriesKept, CallsKept DEF PosInv
    <2> QED  BY <2>2, <2>3, <2>4, <2>5 DEF PosInv
  <1> QED  BY <1>2, <1>3

-----------------------------------------------------------------------------
(* Calls that run no stock transaction. *)
LEMMA CallsOnly ==
  ASSUME PosInv, UNCHANGED <<stockVars, receipts, journal, reversal>>, CallsOK'
  PROVE  PosInv'
  <1>1. StockInv' /\ tx' = tx /\ ledger' = ledger
    BY StockStutterInv DEF PosInv, stockVars
  <1>2. PosTablesOK' /\ ScriptsOK' /\ ReversalsOK'
    <2>1. PosTablesOK'  BY DEF PosInv, PosTablesOK
    <2>2. ScriptsOK'  BY <1>1 DEF PosInv, ScriptsOK, OneEntry
    <2>3. ReversalsOK'  BY <1>1, ReturnedKept DEF PosInv, ReversalsOK
    <2> QED  BY <2>1, <2>2, <2>3
  <1>3. EntriesOK'  BY <1>1, EntriesKept DEF PosInv
  <1> QED  BY <1>1, <1>2, <1>3 DEF PosInv

LEMMA CallWritten ==
  ASSUME PosInv, NEW p \in Workers, NEW c, call' = [call EXCEPT ![p] = c], receipts' = receipts,
         "op" \in DOMAIN c,
         c.op \in {"hold", "recall"} => c.u \in Ulids /\ receipts[c.u] # "none"
  PROVE  CallsOK'
  <1>1. call' = [q \in Workers |-> IF q = p THEN c ELSE call[q]]
    BY DEF PosInv, CallsOK
  <1> QED  BY <1>1 DEF PosInv, CallsOK

LEMMA CallsPos ==
  ASSUME PosInv, NEW p \in Workers,
         \/ SumCash(p) \/ FinishClose(p) \/ DropCall(p)
         \/ \E u \in Ulids : Hold(p, u) \/ Recall(p, u)
         \/ \E s \in Shifts : Close(p, s)
  PROVE  PosInv'
  <1>1. /\ UNCHANGED <<stockVars, receipts, journal, reversal>>
    BY DEF SumCash, FinishClose, DropCall, Hold, Recall, Close, Enter
  <1>2. CASE SumCash(p)
    <2> DEFINE c == [call[p] EXCEPT !.next = @ + 1,
                                    !.sum = @ + Sum(call[p].s, call[p].next)]
    <2>1. call' = [call EXCEPT ![p] = c] /\ call[p].op = "close"
      BY <1>2 DEF SumCash
    <2>2. "op" \in DOMAIN call[p]  BY DEF PosInv, CallsOK
    <2>3. DOMAIN c = DOMAIN call[p] /\ c.op = "close"  BY <2>1, <2>2
    <2> HIDE DEF c
    <2>4. CallsOK'  BY <1>1, <2>1, <2>2, <2>3, CallWritten
    <2> QED  BY <1>1, <2>4, CallsOnly
  <1>3. CASE FinishClose(p) \/ DropCall(p)
    <2>1. call' = [call EXCEPT ![p] = NoCall]  BY <1>3 DEF FinishClose, DropCall, Leave
    <2>2. "op" \in DOMAIN NoCall /\ NoCall.op = "idle"  BY DEF NoCall
    <2>3. CallsOK'  BY <1>1, <2>1, <2>2, CallWritten
    <2> QED  BY <1>1, <2>3, CallsOnly
  <1>4. ASSUME NEW u \in Ulids, Hold(p, u) \/ Recall(p, u)
        PROVE  PosInv'
    <2>1. PICK op \in {"hold", "recall"} : call' = [call EXCEPT ![p] = [op |-> op, u |-> u]]
      BY <1>4 DEF Hold, Recall, Enter
    <2>2. receipts[u] # "none"  BY <1>4 DEF Hold, Recall
    <2> DEFINE c == [op |-> op, u |-> u]
    <2>3. "op" \in DOMAIN c /\ c.op = op /\ c.u = u  OBVIOUS
    <2>4. call' = [call EXCEPT ![p] = c]  BY <2>1
    <2> HIDE DEF c
    <2>5. CallsOK'  BY <1>1, <2>1, <2>2, <2>3, <2>4, CallWritten
    <2> QED  BY <1>1, <2>5, CallsOnly
  <1>5. ASSUME NEW s \in Shifts, Close(p, s)
        PROVE  PosInv'
    <2> DEFINE c == [op |-> "close", s |-> s, next |-> 1, sum |-> OpeningCash]
    <2>1. call' = [call EXCEPT ![p] = c] /\ c.op = "close" /\ "op" \in DOMAIN c
      BY <1>5 DEF Close, Enter
    <2> HIDE DEF c
    <2>2. CallsOK'  BY <1>1, <2>1, CallWritten
    <2> QED  BY <1>1, <2>2, CallsOnly
  <1> QED  BY <1>2, <1>3, <1>4, <1>5

LEMMA HoldsPos ==
  ASSUME PosInv, NEW p \in Workers, FinishHold(p)
  PROVE  PosInv'
  <1> DEFINE u == call[p].u  s == IF call[p].op = "hold" THEN "held" ELSE "completed"
  <1>1. /\ receipts' = [receipts EXCEPT ![u] = s] /\ call' = [call EXCEPT ![p] = NoCall]
        /\ UNCHANGED <<stockVars, journal, reversal>>
    BY DEF FinishHold, Leave
  <1>2. u \in Ulids /\ receipts[u] # "none"  BY DEF FinishHold, PosInv, CallsOK
  <1>3. s \in {"held", "completed"}  OBVIOUS
  <1> HIDE DEF u, s
  <1>4. \A v \in Ulids : receipts'[v] = IF v = u THEN s ELSE receipts[v]
    BY <1>1 DEF PosInv, PosTablesOK
  <1>5. \A v \in Ulids : /\ receipts'[v] = "none" <=> receipts[v] = "none"
                         /\ receipts'[v] = "voided" => receipts[v] = "voided"
    BY <1>2, <1>3, <1>4
  <1>6. StockInv' /\ tx' = tx /\ ledger' = ledger
    BY <1>1, StockStutterInv DEF PosInv, stockVars
  <1>7. PosTablesOK'  BY <1>1, <1>3 DEF PosInv, PosTablesOK, Status
  <1>8. EntriesOK'  BY <1>1, <1>5, <1>6, ReturnedKept DEF PosInv, EntriesOK
  <1>9. ScriptsOK'
    BY <1>5, <1>6, PosAssumption DEF PosInv, ScriptsOK, OneEntry
  <1>10. \A q \in Workers : reversal[q] # NoReversal => reversal[q].u \in Ulids
    BY DEF PosInv, PosTablesOK, Reversal
  <1>11. ReversalsOK'
    BY <1>1, <1>5, <1>6, <1>10, ReturnedKept DEF PosInv, ReversalsOK
  <1>12. CallsOK'
    <2>1. call' = [q \in Workers |-> IF q = p THEN NoCall ELSE call[q]]
      BY <1>1 DEF PosInv, CallsOK
    <2>2. "op" \in DOMAIN NoCall /\ NoCall.op = "idle"  BY DEF NoCall
    <2> QED  BY <1>5, <2>1, <2>2 DEF PosInv, CallsOK
  <1> QED  BY <1>6, <1>7, <1>8, <1>9, <1>11, <1>12 DEF PosInv

-----------------------------------------------------------------------------
LEMMA PosInitInv == Init => PosInv
  <1> SUFFICES ASSUME Init  PROVE PosInv
    OBVIOUS
  <1>1. StockInv  BY StockInitInv DEF Init
  <1>2. \A p \in Workers : tx[p].step # "running"
    BY IdleFact DEF Init, StockInit
  <1>3. ledger[Store] = <<>>  BY PosAssumption DEF Init, StockInit
  <1>4. \A u : Taken(u) = {} /\ Returned(u) = {}  BY <1>3 DEF Taken, Returned
  <1>5. "op" \in DOMAIN NoCall /\ NoCall.op = "idle"  BY DEF NoCall
  <1> QED
    BY <1>1, <1>2, <1>4, <1>5
    DEF Init, PosInv, PosTablesOK, ScriptsOK, ReversalsOK, CallsOK, EntriesOK, Status, Reversal

LEMMA PosInductive == PosInv /\ [Next]_vars => PosInv'
  <1> SUFFICES ASSUME PosInv, [Next]_vars  PROVE PosInv'
    OBVIOUS
  <1> USE PosAssumption
  <1>1. ASSUME NEW p \in Workers, Receive(p)  PROVE PosInv'
    <2>1. PICK q \in 1..MaxQty : Begin(p, "receive", Opening, <<Move("in", q)>>)
      BY <1>1 DEF Receive
    <2>2. Direction("receive") = "in"  BY DEF Direction
    <2> QED  BY <1>1, <2>1, <2>2, MoveFact, BeginsPos DEF Receive
  <1>2. ASSUME NEW p \in Workers, NEW u \in Ulids, Sell(p, u)  PROVE PosInv'
    <2>1. Direction("sell") = "out"  BY DEF Direction
    <2> QED  BY <1>2, <2>1, OneIsQty, MoveFact, BeginsPos DEF Sell
  <1>3. ASSUME NEW p \in Workers, NEW u \in Ulids, Void(p, u)  PROVE PosInv'
    <2>1. Direction("void") = "in"  BY DEF Direction
    <2> QED  BY <1>3, <2>1, OneIsQty, MoveFact, BeginsPos DEF Void
  <1>4. ASSUME NEW p \in Workers, StockStep(p)  PROVE PosInv'
    <2>1. UNCHANGED posVars  BY <1>4 DEF StockStep
    <2>2. CASE RejectMovement(p) \/ CreateCollides(p)
      <3>1. Discard(p) /\ tx[p].step = "running" /\ tx[p].todo # <<>>
        BY <2>2 DEF RejectMovement, CreateCollides, InMovement
      <3>2. reversal[p] = NoReversal  BY <3>1, NoReversalYet
      <3>3. reversal' = [reversal EXCEPT ![p] = NoReversal]
        BY <2>1, <3>2 DEF posVars, PosInv, PosTablesOK
      <3> QED  BY <2>1, <3>1, <3>3, DiscardsPos DEF posVars, NoReversal
    <2> QED  BY <1>4, <2>1, <2>2, ReadsPos, WritesPos DEF StockStep
  <1>5. ASSUME NEW p \in Workers, DuplicateRejected(p) \/ ReversalRefused(p)  PROVE PosInv'
    <2>1. Discard(p) /\ UNCHANGED posVars
      BY <1>5 DEF DuplicateRejected, ReversalRefused
    <2>2. reversal[p] = NoReversal
      BY <1>5, NoReversalYet DEF DuplicateRejected, ReversalRefused, AtReversal
    <2>3. reversal' = [reversal EXCEPT ![p] = NoReversal]
      BY <2>1, <2>2 DEF posVars, PosInv, PosTablesOK
    <2> QED  BY <2>1, <2>3, DiscardsPos DEF posVars, NoReversal
  <1>6. ASSUME NEW p \in Workers, Abort(p)  PROVE PosInv'
    <2> DEFINE r == IF reversal[p].step = "read" THEN reversal[p] ELSE NoReversal
    <2>1. r \in {NoReversal, reversal[p]} /\ r.step # "done"  BY DEF NoReversal
    <2>2. reversal' = [reversal EXCEPT ![p] = r] /\ Discard(p)
          /\ UNCHANGED <<shifts, receipts, journal, call, cashIn, cashOut>>
      BY <1>6 DEF Abort, Rollback
    <2> HIDE DEF r
    <2> QED  BY <2>1, <2>2, DiscardsPos
  <1>7. ASSUME NEW s \in Shifts, OpenShift(s) \/ Deposit(s) \/ Withdraw(s)  PROVE PosInv'
    <2>1. UNCHANGED <<stockVars, receipts, journal, reversal>> /\ call' = call
      BY <1>7 DEF OpenShift, Deposit, Withdraw
    <2> QED  BY <2>1, CallsKept, CallsOnly DEF PosInv
  <1>8. CASE UNCHANGED vars
    <2>1. UNCHANGED <<stockVars, receipts, journal, reversal>> /\ call' = call
      BY <1>8 DEF vars, posVars
    <2> QED  BY <2>1, CallsKept, CallsOnly DEF PosInv
  <1> QED
    BY <1>1, <1>2, <1>3, <1>4, <1>5, <1>6, <1>7, <1>8, CommitsPos, StartsReversal,
       FinishesReversal, FailsReversal, CallsPos, HoldsPos
    DEF Next

(* A receipt takes its goods once if it is there, and never if it is not,  *)
(* however often and from wherever it is sent.                             *)
THEOREM GoodsLeaveOnce == Spec => []SoldOnce
  <1>1. PosInv => SoldOnce
    <2> SUFFICES ASSUME PosInv, NEW u \in Ulids
                 PROVE  Cardinality(Taken(u)) = IF receipts[u] = "none" THEN 0 ELSE 1
      BY DEF SoldOnce
    <2>1. CASE receipts[u] = "none"
      <3>1. Taken(u) = {}  BY <2>1 DEF PosInv, EntriesOK
      <3> QED  BY <2>1, <3>1, FS_EmptySet
    <2>2. CASE receipts[u] # "none"
      <3>1. PICK i : Taken(u) = {i}  BY <2>2 DEF PosInv, EntriesOK
      <3>2. Cardinality({i}) = 1  BY FS_Singleton
      <3> QED  BY <2>2, <3>1, <3>2
    <2> QED  BY <2>1, <2>2
  <1> QED  BY <1>1, PosInitInv, PosInductive, PTL DEF Spec

(* The goods of a receipt come back at most once, and only with its entry  *)
(* reversed, although the reversal commits on a connection of its own.     *)
THEOREM GoodsReturnOnce == Spec => []RestoredOnce
  <1>1. PosInv => RestoredOnce
    <2> SUFFICES ASSUME PosInv, NEW u \in Ulids
                 PROVE  /\ Cardinality(Returned(u)) <= 1
                        /\ Returned(u) # {} => journal[u] = "reversed"
                        /\ receipts[u] = "voided" => Returned(u) # {}
      BY DEF RestoredOnce
    <2>1. Cardinality(Returned(u)) = 0 \/ Cardinality(Returned(u)) = 1
      BY FS_EmptySet, FS_Singleton DEF PosInv, EntriesOK
    <2> QED  BY <2>1 DEF PosInv, EntriesOK
  <1> QED  BY <1>1, PosInitInv, PosInductive, PTL DEF Spec

-----------------------------------------------------------------------------
(* Shifts, calls and cash movements, which no receipt depends on, and the  *)
(* sums a close runs over them.                                            *)
CashOK ==
  /\ shifts \in [Shifts -> Shift]
  /\ call \in [Workers -> Call]
  /\ cashIn \in [Shifts -> 0..MaxCash]
  /\ cashOut \in [Shifts -> 0..MaxCash]

LEMMA PaymentsInt ==
  ASSUME NEW s, NEW status
  PROVE  Payments(s, status) \in Int
  <1> DEFINE U == {u \in Ulids : ShiftOf[u] = s /\ receipts[u] = status}
  <1>1. IsFiniteSet(U)  BY FS_Subset, PosAssumption
  <1>2. IntOn(Cash, U)  BY PosAssumption DEF IntOn
  <1>3. Payments(s, status) = SumFunctionOnSet(Cash, U)  BY DEF Payments
  <1> HIDE DEF U
  <1>4. SumFunctionOnSet(Cash, U) = SumOf(Cash, U)  BY <1>1, <1>2, SumFunctionIs
  <1>5. SumOf(Cash, U) \in Int  BY <1>1, <1>2, SumInt
  <1> QED  BY <1>3, <1>4, <1>5

LEMMA SumTermInt ==
  ASSUME CashOK, NEW s \in Shifts, NEW n \in 1..4
  PROVE  Sum(s, n) \in Int
  <1>1. Payments(s, "completed") \in Int /\ Payments(s, "voided") \in Int
    BY PaymentsInt
  <1>2. cashIn[s] \in Int /\ cashOut[s] \in Int
    BY PosAssumption DEF CashOK
  <1>3. n = 1 \/ n = 2 \/ n = 3 \/ n = 4  OBVIOUS
  <1> QED  BY <1>1, <1>2, <1>3 DEF Sum

LEMMA CallFact ==
  ASSUME NEW c \in Call
  PROVE  /\ c.op \in {"hold", "recall"} => c.u \in Ulids
         /\ c.op = "close" => /\ c \in [op : {"close"}, s : Shifts, next : 1..5, sum : Int]
                              /\ c.s \in Shifts /\ c.next \in 1..5 /\ c.sum \in Int
  BY DEF Call, NoCall

LEMMA OneMoreSum ==
  ASSUME NEW k \in [op : {"close"}, s : Shifts, next : 1..5, sum : Int], k.next <= 4,
         NEW x \in Int
  PROVE  [k EXCEPT !.next = @ + 1, !.sum = @ + x]
           \in [op : {"close"}, s : Shifts, next : 1..5, sum : Int]
  <1>1. k.next + 1 \in 1..5 /\ k.sum + x \in Int  OBVIOUS
  <1> QED  BY <1>1

LEMMA CashInit == Init => CashOK
  BY PosAssumption DEF Init, CashOK, Shift, Call

LEMMA CashInductive ==
  ASSUME CashOK, [Next]_vars
  PROVE  CashOK'
  <1>1. ASSUME UNCHANGED <<shifts, call, cashIn, cashOut>>  PROVE CashOK'
    BY <1>1 DEF CashOK
  <1>2. ASSUME NEW p \in Workers, NEW c \in Call, call' = [call EXCEPT ![p] = c],
               UNCHANGED <<shifts, cashIn, cashOut>>
        PROVE  CashOK'
    BY <1>2 DEF CashOK
  <1>3. NoCall \in Call  BY DEF Call
  <1>4. ASSUME NEW p \in Workers,
               \/ Receive(p) \/ StockStep(p) \/ DuplicateRejected(p) \/ Commit(p) \/ Abort(p)
               \/ StartReversal(p) \/ ReversalRefused(p) \/ FinishReversal(p) \/ FailReversal(p)
               \/ \E u \in Ulids : Sell(p, u) \/ Void(p, u)
        PROVE  CashOK'
    BY <1>1, <1>4
    DEF Receive, StockStep, DuplicateRejected, Commit, Abort, StartReversal, ReversalRefused,
        FinishReversal, FailReversal, Sell, Void, posVars
  <1>5. ASSUME NEW p \in Workers, FinishHold(p) \/ DropCall(p)  PROVE CashOK'
    BY <1>2, <1>3, <1>5 DEF FinishHold, DropCall, Leave
  <1>6. ASSUME NEW p \in Workers, NEW u \in Ulids, Hold(p, u) \/ Recall(p, u)  PROVE CashOK'
    <2>1. PICK op \in {"hold", "recall"} :
            /\ call' = [call EXCEPT ![p] = [op |-> op, u |-> u]]
            /\ UNCHANGED <<shifts, cashIn, cashOut>>
      BY <1>6 DEF Hold, Recall, Enter
    <2>2. [op |-> op, u |-> u] \in Call  BY DEF Call
    <2> QED  BY <1>2, <2>1, <2>2
  <1>7. ASSUME NEW p \in Workers, NEW s \in Shifts, Close(p, s)  PROVE CashOK'
    <2> DEFINE c == [op |-> "close", s |-> s, next |-> 1, sum |-> OpeningCash]
    <2>1. c \in Call  BY PosAssumption DEF Call
    <2>2. call' = [call EXCEPT ![p] = c] /\ UNCHANGED <<shifts, cashIn, cashOut>>
      BY <1>7 DEF Close, Enter
    <2> HIDE DEF c
    <2> QED  BY <1>2, <2>1, <2>2
  <1>8. ASSUME NEW p \in Workers, SumCash(p)  PROVE CashOK'
    <2> DEFINE k == call[p]
               c == [call[p] EXCEPT !.next = @ + 1,
                                    !.sum = @ + Sum(call[p].s, call[p].next)]
    <2>1. /\ k.op = "close" /\ k.next <= 4 /\ call' = [call EXCEPT ![p] = c]
          /\ UNCHANGED <<shifts, cashIn, cashOut>>
      BY <1>8 DEF SumCash
    <2>2. k \in Call  BY DEF CashOK
    <2>3. /\ k \in [op : {"close"}, s : Shifts, next : 1..5, sum : Int]
          /\ k.s \in Shifts /\ k.next \in 1..5 /\ k.sum \in Int
      BY <2>1, <2>2, CallFact
    <2>4. Sum(k.s, k.next) \in Int  BY <2>1, <2>3, SumTermInt
    <2> DEFINE x == Sum(k.s, k.next)
    <2>5. c = [k EXCEPT !.next = @ + 1, !.sum = @ + x]  OBVIOUS
    <2> HIDE DEF c, k, x
    <2>7. c \in [op : {"close"}, s : Shifts, next : 1..5, sum : Int]
      BY <2>1, <2>3, <2>4, <2>5, OneMoreSum DEF x
    <2>6. c \in Call  BY <2>7 DEF Call
    <2> QED  BY <1>2, <2>1, <2>6 DEF k
  <1>9. ASSUME NEW p \in Workers, FinishClose(p)  PROVE CashOK'
    <2>1. call[p].s \in Shifts /\ call[p].sum \in Int
      BY <1>9, CallFact DEF FinishClose, CashOK
    <2>2. [status |-> "closed", expected |-> call[p].sum] \in Shift  BY <2>1 DEF Shift
    <2>3. shifts' \in [Shifts -> Shift]  BY <1>9, <2>2 DEF FinishClose, CashOK
    <2> QED  BY <1>3, <1>9, <2>3 DEF FinishClose, Leave, CashOK
  <1>10. ASSUME NEW s \in Shifts, OpenShift(s)  PROVE CashOK'
    <2>1. shifts[s] \in Shift  BY DEF CashOK
    <2>2. [shifts[s] EXCEPT !.status = "open"] \in Shift  BY <2>1 DEF Shift
    <2> QED  BY <1>10, <2>2 DEF OpenShift, CashOK
  <1>11. ASSUME NEW s \in Shifts, Deposit(s) \/ Withdraw(s)  PROVE CashOK'
    <2>1. cashIn[s] \in 0..MaxCash /\ cashOut[s] \in 0..MaxCash /\ MaxCash \in Nat
          /\ cashIn[s] + cashOut[s] < MaxCash
      BY <1>11, PosAssumption DEF Deposit, Withdraw, CashOK
    <2>2. cashIn[s] + 1 \in 0..MaxCash /\ cashOut[s] + 1 \in 0..MaxCash  BY <2>1
    <2> QED  BY <1>11, <2>2 DEF Deposit, Withdraw, CashOK
  <1>12. CASE UNCHANGED vars  BY <1>1, <1>12 DEF vars, posVars
  <1> QED
    BY <1>4, <1>5, <1>6, <1>7, <1>8, <1>9, <1>10, <1>11, <1>12 DEF Next

(* Stock, shifts, receipts, entries, reversals, calls and cash keep their  *)
(* types for any number of them, and a reversal that is done belongs to a  *)
(* void still running.                                                     *)
THEOREM TypeCorrect == Spec => []TypeOK
  <1>1. PosInv /\ CashOK => TypeOK
    <2> SUFFICES ASSUME PosInv, CashOK  PROVE TypeOK
      OBVIOUS
    <2>1. StockTypeOK  BY DEF PosInv, StockInv
    <2>2. ASSUME NEW p \in Workers, reversal[p].step = "done"
          PROVE  tx[p].step = "running" /\ tx[p].doc = reversal[p].u
      BY <2>2 DEF PosInv, ReversalsOK, NoReversal
    <2> QED  BY <2>1, <2>2 DEF TypeOK, PosInv, PosTablesOK, CashOK
  <1> QED
    BY <1>1, PosInitInv, PosInductive, CashInit, CashInductive, PTL DEF Spec

-----------------------------------------------------------------------------
(* A sealed shift stays sealed.  What runs is none of its sales, voids,    *)
(* reversals and closes, and none begins: each finds the shift open first. *)
LEMMA NotOpen ==
  ASSUME NEW s \in Shifts, Sealed(s)
  PROVE  s \notin OpenShifts /\ shifts[s].status = "closed"
  BY DEF Sealed, OpenShifts

(* What the calls of a step do to the shift, the transactions, reversals   *)
(* and calls a sealed shift speaks of.                                     *)
KeepsSealed(s) ==
  /\ shifts'[s] = shifts[s]
  /\ \A p \in Workers :
       /\ tx'[p].step = "running" /\ tx'[p].op \in {"sell", "void"} =>
            \/ ShiftOf[tx'[p].doc] \in OpenShifts
            \/ tx[p].step = "running" /\ tx'[p].op = tx[p].op /\ tx'[p].doc = tx[p].doc
       /\ reversal'[p] # NoReversal =>
            \/ reversal[p] # NoReversal /\ reversal'[p].u = reversal[p].u
            \/ /\ tx[p].step = "running" /\ tx[p].op = "void"
               /\ reversal'[p].u = tx[p].doc
       /\ call'[p].op = "close" =>
            \/ call'[p].s \in OpenShifts
            \/ call[p].op = "close" /\ call'[p].s = call[p].s

LEMMA SealedKept ==
  ASSUME NEW s \in Shifts, Sealed(s), KeepsSealed(s)
  PROVE  Sealed(s)'
  <1>1. s \notin OpenShifts /\ shifts'[s].status = "closed"
    BY NotOpen DEF KeepsSealed
  <1>2. ASSUME NEW p \in Workers
        PROVE  /\ tx'[p].step = "running" /\ tx'[p].op \in {"sell", "void"}
                    => ShiftOf[tx'[p].doc] # s
               /\ reversal'[p] # NoReversal => ShiftOf[reversal'[p].u] # s
               /\ call'[p].op = "close" => call'[p].s # s
    BY <1>1 DEF KeepsSealed, Sealed
  <1> QED  BY <1>1, <1>2 DEF Sealed

(* What a step leaves alone of the receipts of a shift.                    *)
KeepsReceipts(s) ==
  \A u \in Ulids : ShiftOf[u] = s =>
    /\ receipts[u] = "none" <=> receipts'[u] = "none"
    /\ journal'[u] = journal[u]
    /\ Taken(u)' = Taken(u) /\ Returned(u)' = Returned(u)

LEMMA ReceiptsKept ==
  ASSUME NEW s, UNCHANGED <<ledger, receipts, journal>>
  PROVE  KeepsReceipts(s)
  BY ReturnedKept DEF KeepsReceipts

LEMMA PosFunctions ==
  ASSUME PosInv, CashOK
  PROVE  /\ tx = [q \in Workers |-> tx[q]] /\ reversal = [q \in Workers |-> reversal[q]]
         /\ call = [q \in Workers |-> call[q]] /\ shifts = [s \in Shifts |-> shifts[s]]
         /\ receipts = [u \in Ulids |-> receipts[u]] /\ journal = [u \in Ulids |-> journal[u]]
  BY DEF PosInv, PosTablesOK, StockInv, StockTypeOK, CashOK

(* A transaction begins, goes on, or is gone: nothing is committed.        *)
LEMMA SealTx ==
  ASSUME PosInv, CashOK, NEW s \in Shifts, NEW p \in Workers, NEW t, NEW r,
         tx' = [tx EXCEPT ![p] = t], reversal' = [reversal EXCEPT ![p] = r],
         UNCHANGED <<ledger, shifts, receipts, journal, call>>,
         t.step = "running" /\ t.op \in {"sell", "void"} =>
            \/ ShiftOf[t.doc] \in OpenShifts
            \/ tx[p].step = "running" /\ t.op = tx[p].op /\ t.doc = tx[p].doc,
         r \in {NoReversal, reversal[p]}
  PROVE  KeepsSealed(s) /\ KeepsReceipts(s)
  <1>1. \A q \in Workers : /\ tx'[q] = IF q = p THEN t ELSE tx[q]
                           /\ reversal'[q] = IF q = p THEN r ELSE reversal[q]
    BY PosFunctions
  <1>2. KeepsSealed(s)
    BY <1>1 DEF KeepsSealed
  <1> QED  BY <1>2, ReceiptsKept

LEMMA SealBegin ==
  ASSUME PosInv, CashOK, NEW s \in Shifts, NEW p \in Workers, NEW op, NEW doc, NEW script,
         Begin(p, op, doc, script), UNCHANGED posVars,
         op \in {"sell", "void"} => ShiftOf[doc] \in OpenShifts
  PROVE  KeepsSealed(s) /\ KeepsReceipts(s)
  <1> DEFINE t == [step |-> "running", op |-> op, doc |-> doc, todo |-> script,
                   read |-> FALSE, seen |-> NoRow, own |-> [w \in Warehouses |-> NoRow],
                   log |-> [w \in Warehouses |-> <<>>]]
  <1>1. t.op = op /\ t.doc = doc  OBVIOUS
  <1>2. /\ tx' = [tx EXCEPT ![p] = t]
        /\ UNCHANGED <<ledger, shifts, receipts, journal, call>> /\ reversal' = reversal
    BY DEF Begin, posVars
  <1>3. reversal' = [reversal EXCEPT ![p] = reversal[p]]  BY <1>2, PosFunctions
  <1> HIDE DEF t
  <1> QED  BY <1>1, <1>2, <1>3, SealTx

LEMMA SealDiscard ==
  ASSUME PosInv, CashOK, NEW s \in Shifts, NEW p \in Workers, Discard(p),
         NEW r \in {NoReversal, reversal[p]}, reversal' = [reversal EXCEPT ![p] = r],
         UNCHANGED <<shifts, receipts, journal, call>>
  PROVE  KeepsSealed(s) /\ KeepsReceipts(s)
  <1>1. tx' = [tx EXCEPT ![p] = Idle] /\ ledger' = ledger  BY DEF Discard
  <1>2. Idle.step # "running"  BY IdleFact
  <1> QED  BY <1>1, <1>2, SealTx

LEMMA SealStock ==
  ASSUME PosInv, CashOK, NEW s \in Shifts, NEW p \in Workers, StockStep(p)
  PROVE  KeepsSealed(s) /\ KeepsReceipts(s)
  <1>1. UNCHANGED <<shifts, receipts, journal, call>> /\ reversal' = reversal
    BY DEF StockStep, posVars
  <1>2. reversal' = [reversal EXCEPT ![p] = reversal[p]]  BY <1>1, PosFunctions
  <1>3. ASSUME NEW t, tx' = [tx EXCEPT ![p] = t], ledger' = ledger,
               tx[p].step = "running" /\ t.op = tx[p].op /\ t.doc = tx[p].doc
        PROVE  KeepsSealed(s) /\ KeepsReceipts(s)
    BY <1>1, <1>2, <1>3, SealTx
  <1>4. CASE ReadBalance(p)
    <2> DEFINE t == Seen(tx[p], View(p, Current(p).wh))
    <2>1. t.op = tx[p].op /\ t.doc = tx[p].doc  BY DEF Seen
    <2>2. tx' = [tx EXCEPT ![p] = t] /\ ledger' = ledger /\ tx[p].step = "running"
      BY <1>4 DEF ReadBalance, InMovement
    <2> HIDE DEF t
    <2> QED  BY <1>3, <2>1, <2>2
  <1>5. CASE WriteBalance(p)
    <2> DEFINE m == Current(p)
               now == View(p, m.wh)
               seen == IF m.dir = "release" THEN now ELSE tx[p].seen
               row == NewRow(p, m, seen, now)
               t == Moved(tx[p], m, row, NewEntries(m, seen, row, tx[p].doc))
    <2>1. t.op = tx[p].op /\ t.doc = tx[p].doc  BY DEF Moved
    <2>2. tx' = [tx EXCEPT ![p] = t] /\ ledger' = ledger /\ tx[p].step = "running"
      BY <1>5 DEF WriteBalance, InMovement
    <2> HIDE DEF t
    <2> QED  BY <1>3, <2>1, <2>2
  <1>6. CASE RejectMovement(p) \/ CreateCollides(p)
    <2>1. Discard(p)  BY <1>6 DEF RejectMovement, CreateCollides
    <2> QED  BY <1>1, <1>2, <2>1, SealDiscard
  <1> QED  BY <1>4, <1>5, <1>6 DEF StockStep

(* The commit of a sale or a void enters a receipt of another shift.       *)
LEMMA SealCommit ==
  ASSUME PosInv, CashOK, NEW s \in Shifts, Sealed(s), NEW p \in Workers, Commit(p)
  PROVE  KeepsSealed(s) /\ KeepsReceipts(s)
  <1> DEFINE t == tx[p]  u == tx[p].doc
  <1>1. /\ t.step = "running" /\ t.todo = <<>> /\ t \in Running
        /\ tx' = [tx EXCEPT ![p] = Idle]
        /\ ledger' = [w \in Warehouses |-> ledger[w] \o t.log[w]]
        /\ reversal' = [reversal EXCEPT ![p] = NoReversal]
        /\ UNCHANGED <<shifts, call>>
    BY RunningTx DEF Commit, CommitStock, PosInv, StockInv
  <1>2. /\ receipts' = CASE t.op = "sell" -> [receipts EXCEPT ![u] = "completed"]
                         [] t.op = "void" -> [receipts EXCEPT ![u] = "voided"]
                         [] OTHER -> receipts
        /\ journal' = IF t.op = "sell" THEN [journal EXCEPT ![u] = "posted"] ELSE journal
    BY DEF Commit
  <1>3. PICK e \in Entry : t.log[Store] = <<e>> /\ e.doc = u
    BY <1>1 DEF PosInv, ScriptsOK, OneEntry
  <1>4. ledger'[Store] = Append(ledger[Store], e)
    <2>1. ledger[Store] \in Seq(Entry)  BY PosAssumption DEF PosInv, StockInv, StockTypeOK
    <2>2. ledger'[Store] = ledger[Store] \o <<e>>  BY <1>1, <1>3, PosAssumption
    <2> QED  BY <2>1, <2>2
  <1>5. t.op \in {"receive", "sell", "void"}
    BY <1>1, PosAssumption DEF Running
  <1>6. IF t.op = "receive" THEN u = Opening ELSE u \in Ulids /\ ShiftOf[u] # s
    BY <1>1, <1>5 DEF PosInv, ScriptsOK, Sealed
  <1> HIDE DEF t, u
  <1>7. \A q \in Workers : /\ tx'[q] = IF q = p THEN Idle ELSE tx[q]
                           /\ reversal'[q] = IF q = p THEN NoReversal ELSE reversal[q]
    BY <1>1, PosFunctions
  <1>8. KeepsSealed(s)
    BY <1>1, <1>7, IdleFact DEF KeepsSealed
  <1>9. ASSUME NEW v \in Ulids, ShiftOf[v] = s
        PROVE  /\ receipts[v] = "none" <=> receipts'[v] = "none"
               /\ journal'[v] = journal[v]
               /\ Taken(v)' = Taken(v) /\ Returned(v)' = Returned(v)
    <2>1. v # u  BY <1>6, <1>9, PosAssumption
    <2>2. receipts'[v] = receipts[v] /\ journal'[v] = journal[v]
      BY <1>2, <1>5, <2>1 DEF PosInv, PosTablesOK
    <2>3. Taken(v)' = Taken(v) /\ Returned(v)' = Returned(v)
      BY <1>3, <1>4, <2>1, LedgerGrows DEF PosInv
    <2> QED  BY <2>2, <2>3
  <1> QED  BY <1>8, <1>9 DEF KeepsReceipts

(* The reversal of a void, of a receipt of another shift.                  *)
LEMMA SealReversal ==
  ASSUME PosInv, CashOK, NEW s \in Shifts, Sealed(s), NEW p \in Workers,
         StartReversal(p) \/ FinishReversal(p)
  PROVE  KeepsSealed(s) /\ KeepsReceipts(s)
  <1>1. UNCHANGED <<tx, ledger, shifts, receipts, call>>
    BY DEF StartReversal, FinishReversal, stockVars
  <1>2. CASE StartReversal(p)
    <2> DEFINE r == [step |-> "read", u |-> tx[p].doc]
    <2>1. /\ tx[p].step = "running" /\ tx[p].op = "void"
          /\ reversal' = [reversal EXCEPT ![p] = r] /\ journal' = journal
      BY <1>2 DEF StartReversal, AtReversal
    <2>2. r.u = tx[p].doc  OBVIOUS
    <2> HIDE DEF r
    <2>3. \A q \in Workers : reversal'[q] = IF q = p THEN r ELSE reversal[q]
      BY <2>1, PosFunctions
    <2>4. KeepsSealed(s)  BY <1>1, <2>1, <2>2, <2>3 DEF KeepsSealed
    <2> QED  BY <1>1, <2>1, <2>4, ReceiptsKept
  <1>3. CASE FinishReversal(p)
    <2> DEFINE u == reversal[p].u
               r == IF tx[p].step = "running" THEN [reversal[p] EXCEPT !.step = "done"]
                    ELSE NoReversal
    <2>1. /\ reversal[p].step = "read" /\ journal' = [journal EXCEPT ![u] = "reversed"]
          /\ reversal' = [reversal EXCEPT ![p] = r]
      BY <1>3 DEF FinishReversal
    <2>2. reversal[p] # NoReversal /\ reversal[p] \in [step : {"read", "done"}, u : Ulids]
      BY <2>1 DEF PosInv, PosTablesOK, Reversal, NoReversal
    <2>3. r # NoReversal => r.u = u  BY <2>2
    <2>4. ShiftOf[u] # s  BY <2>2 DEF Sealed
    <2> HIDE DEF u, r
    <2>5. \A q \in Workers : reversal'[q] = IF q = p THEN r ELSE reversal[q]
      BY <2>1, PosFunctions
    <2>6. KeepsSealed(s)  BY <1>1, <2>2, <2>3, <2>5 DEF KeepsSealed, u
    <2>7. \A v \in Ulids : ShiftOf[v] = s => journal'[v] = journal[v]
      BY <2>1, <2>4, PosFunctions
    <2>8. KeepsReceipts(s)  BY <1>1, <2>7, ReturnedKept DEF KeepsReceipts
    <2> QED  BY <2>6, <2>8
  <1> QED  BY <1>2, <1>3

LEMMA SealFails ==
  ASSUME PosInv, CashOK, NEW s \in Shifts, Sealed(s), NEW p \in Workers, FailReversal(p)
  PROVE  KeepsSealed(s) /\ KeepsReceipts(s)
  <1>1. /\ reversal' = [reversal EXCEPT ![p] = NoReversal]
        /\ UNCHANGED <<shifts, receipts, journal, call>>
    BY DEF FailReversal
  <1>2. CASE tx[p].step = "running"
    <2>1. Discard(p)  BY <1>2 DEF FailReversal
    <2> QED  BY <1>1, <2>1, SealDiscard
  <1>3. CASE tx[p].step # "running"
    <2>1. UNCHANGED <<tx, ledger>>  BY <1>3 DEF FailReversal, stockVars
    <2>2. tx' = [tx EXCEPT ![p] = tx[p]]  BY <2>1, PosFunctions
    <2> QED  BY <1>1, <1>3, <2>1, <2>2, SealTx
  <1> QED  BY <1>2, <1>3

(* A call that is entered or left: a close is entered of an open shift.    *)
LEMMA SealCall ==
  ASSUME PosInv, CashOK, NEW s \in Shifts, NEW p \in Workers, NEW c,
         call' = [call EXCEPT ![p] = c], shifts'[s] = shifts[s],
         UNCHANGED <<tx, ledger, reversal, journal>>,
         \A u \in Ulids : receipts[u] = "none" <=> receipts'[u] = "none",
         c.op = "close" => \/ c.s \in OpenShifts
                           \/ call[p].op = "close" /\ c.s = call[p].s
  PROVE  KeepsSealed(s) /\ KeepsReceipts(s)
  <1>1. \A q \in Workers : call'[q] = IF q = p THEN c ELSE call[q]
    BY PosFunctions
  <1>2. KeepsSealed(s)  BY <1>1 DEF KeepsSealed
  <1>3. KeepsReceipts(s)  BY ReturnedKept DEF KeepsReceipts
  <1> QED  BY <1>2, <1>3

LEMMA SealCalls ==
  ASSUME PosInv, CashOK, NEW s \in Shifts, Sealed(s), NEW p \in Workers,
         \/ FinishHold(p) \/ SumCash(p) \/ FinishClose(p) \/ DropCall(p)
         \/ \E u \in Ulids : Hold(p, u) \/ Recall(p, u)
         \/ \E z \in Shifts : Close(p, z)
  PROVE  KeepsSealed(s) /\ KeepsReceipts(s)
  <1>1. UNCHANGED <<tx, ledger, reversal, journal>>
    BY DEF FinishHold, SumCash, FinishClose, DropCall, Hold, Recall, Close, Enter, stockVars
  <1>2. NoCall.op = "idle"  BY DEF NoCall
  <1>3. CASE FinishHold(p)
    <2> DEFINE v == call[p].u  x == IF call[p].op = "hold" THEN "held" ELSE "completed"
    <2>1. /\ receipts' = [receipts EXCEPT ![v] = x] /\ call' = [call EXCEPT ![p] = NoCall]
          /\ shifts' = shifts
      BY <1>3 DEF FinishHold, Leave
    <2>2. v \in Ulids /\ receipts[v] # "none" /\ x # "none"
      BY <1>3 DEF FinishHold, PosInv, CallsOK
    <2> HIDE DEF v, x
    <2>3. \A u \in Ulids : receipts[u] = "none" <=> receipts'[u] = "none"
      BY <2>1, <2>2, PosFunctions
    <2> QED  BY <1>1, <1>2, <2>1, <2>3, SealCall
  <1>4. CASE SumCash(p)
    <2> DEFINE c == [call[p] EXCEPT !.next = @ + 1,
                                    !.sum = @ + Sum(call[p].s, call[p].next)]
    <2>1. /\ call' = [call EXCEPT ![p] = c] /\ call[p].op = "close"
          /\ UNCHANGED <<shifts, receipts>>
      BY <1>4 DEF SumCash
    <2>2. call[p] \in [op : {"close"}, s : Shifts, next : 1..5, sum : Int]
      BY <2>1, CallFact DEF CashOK
    <2>3. c.s = call[p].s  BY <2>2
    <2> HIDE DEF c
    <2> QED  BY <1>1, <2>1, <2>3, SealCall
  <1>5. CASE FinishClose(p)
    <2>1. /\ call[p].op = "close" /\ call' = [call EXCEPT ![p] = NoCall] /\ receipts' = receipts
          /\ shifts' = [shifts EXCEPT ![call[p].s] =
                          [status |-> "closed", expected |-> call[p].sum]]
      BY <1>5 DEF FinishClose, Leave
    <2>2. call[p].s # s  BY <2>1 DEF Sealed
    <2>3. shifts'[s] = shifts[s]  BY <2>1, <2>2, PosFunctions
    <2> QED  BY <1>1, <1>2, <2>1, <2>3, SealCall
  <1>6. CASE DropCall(p)
    <2>1. call' = [call EXCEPT ![p] = NoCall] /\ UNCHANGED <<shifts, receipts>>
      BY <1>6 DEF DropCall, Leave
    <2> QED  BY <1>1, <1>2, <2>1, SealCall
  <1>7. ASSUME NEW u \in Ulids, Hold(p, u) \/ Recall(p, u)
        PROVE  KeepsSealed(s) /\ KeepsReceipts(s)
    <2>1. PICK op \in {"hold", "recall"} :
            /\ call' = [call EXCEPT ![p] = [op |-> op, u |-> u]]
            /\ UNCHANGED <<shifts, receipts>>
      BY <1>7 DEF Hold, Recall, Enter
    <2> DEFINE c == [op |-> op, u |-> u]
    <2>2. c.op # "close"  OBVIOUS
    <2>3. call' = [call EXCEPT ![p] = c]  BY <2>1
    <2> HIDE DEF c
    <2> QED  BY <1>1, <2>1, <2>2, <2>3, SealCall
  <1>8. ASSUME NEW z \in Shifts, Close(p, z)
        PROVE  KeepsSealed(s) /\ KeepsReceipts(s)
    <2> DEFINE c == [op |-> "close", s |-> z, next |-> 1, sum |-> OpeningCash]
    <2>1. call' = [call EXCEPT ![p] = c] /\ UNCHANGED <<shifts, receipts>> /\ z \in OpenShifts
      BY <1>8 DEF Close, Enter
    <2>2. c.s = z  OBVIOUS
    <2> HIDE DEF c
    <2> QED  BY <1>1, <2>1, <2>2, SealCall
  <1> QED  BY <1>3, <1>4, <1>5, <1>6, <1>7, <1>8

LEMMA SealShifts ==
  ASSUME PosInv, CashOK, NEW s \in Shifts, Sealed(s),
         \E z \in Shifts : OpenShift(z) \/ Deposit(z) \/ Withdraw(z)
  PROVE  KeepsSealed(s) /\ KeepsReceipts(s)
  <1>1. UNCHANGED <<tx, ledger, reversal, journal, receipts, call>>
    BY DEF OpenShift, Deposit, Withdraw, stockVars
  <1>2. shifts'[s] = shifts[s]
    <2>1. PICK z \in Shifts : OpenShift(z) \/ Deposit(z) \/ Withdraw(z)  OBVIOUS
    <2>2. CASE OpenShift(z)
      <3>1. z # s  BY <2>2, NotOpen DEF OpenShift
      <3> QED  BY <2>2, <3>1, PosFunctions DEF OpenShift
    <2>3. CASE Deposit(z) \/ Withdraw(z)
      BY <2>3 DEF Deposit, Withdraw
    <2> QED  BY <2>1, <2>2, <2>3
  <1>3. KeepsSealed(s)  BY <1>1, <1>2 DEF KeepsSealed
  <1> QED  BY <1>1, <1>3, ReceiptsKept

LEMMA SealNext ==
  ASSUME PosInv, CashOK, [Next]_vars, NEW s \in Shifts, Sealed(s)
  PROVE  KeepsSealed(s) /\ KeepsReceipts(s)
  <1>1. ASSUME NEW p \in Workers, Receive(p)
        PROVE  KeepsSealed(s) /\ KeepsReceipts(s)
    <2>1. PICK q \in 1..MaxQty : Begin(p, "receive", Opening, <<Move("in", q)>>)
      BY <1>1 DEF Receive
    <2> QED  BY <1>1, <2>1, SealBegin DEF Receive
  <1>2. ASSUME NEW p \in Workers, NEW u \in Ulids, Sell(p, u) \/ Void(p, u)
        PROVE  KeepsSealed(s) /\ KeepsReceipts(s)
    BY <1>2, SealBegin DEF Sell, Void
  <1>3. ASSUME NEW p \in Workers, DuplicateRejected(p) \/ ReversalRefused(p)
        PROVE  KeepsSealed(s) /\ KeepsReceipts(s)
    <2>1. Discard(p) /\ UNCHANGED posVars
      BY <1>3 DEF DuplicateRejected, ReversalRefused
    <2>2. reversal' = [reversal EXCEPT ![p] = reversal[p]]
      BY <2>1, PosFunctions DEF posVars
    <2> QED  BY <2>1, <2>2, SealDiscard DEF posVars
  <1>4. ASSUME NEW p \in Workers, Abort(p)
        PROVE  KeepsSealed(s) /\ KeepsReceipts(s)
    <2> DEFINE r == IF reversal[p].step = "read" THEN reversal[p] ELSE NoReversal
    <2>1. r \in {NoReversal, reversal[p]}  OBVIOUS
    <2>2. reversal' = [reversal EXCEPT ![p] = r] /\ Discard(p)
          /\ UNCHANGED <<shifts, receipts, journal, call>>
      BY <1>4 DEF Abort, Rollback
    <2> HIDE DEF r
    <2> QED  BY <2>1, <2>2, SealDiscard
  <1>5. CASE UNCHANGED vars
    <2>1. UNCHANGED <<tx, ledger, reversal, journal, receipts, call, shifts>>
      BY <1>5 DEF vars, posVars, stockVars
    <2>2. KeepsSealed(s)  BY <2>1 DEF KeepsSealed
    <2> QED  BY <2>1, <2>2, ReceiptsKept
  <1> QED
    BY <1>1, <1>2, <1>3, <1>4, <1>5, SealStock, SealCommit, SealReversal, SealFails,
       SealCalls, SealShifts
    DEF Next

(* Once a shift is closed and the calls that found it open are over, it    *)
(* stays as it was closed, for ever: no later step of any worker sells or  *)
(* voids in it, reverses an entry of it, opens it or closes it again.      *)
THEOREM SealedShiftsStay == Spec => ShiftSealed
  <1>1. ASSUME PosInv, CashOK, [Next]_vars
        PROVE  [\A s \in Shifts : Sealed(s) =>
                  /\ Sealed(s)'
                  /\ shifts'[s] = shifts[s]
                  /\ \A u \in Ulids : ShiftOf[u] = s =>
                       /\ receipts[u] = "none" <=> receipts'[u] = "none"
                       /\ journal'[u] = journal[u]
                       /\ Taken(u)' = Taken(u) /\ Returned(u)' = Returned(u)]_vars
    <2> SUFFICES ASSUME NEW s \in Shifts, Sealed(s)
                 PROVE  /\ Sealed(s)'
                        /\ shifts'[s] = shifts[s]
                        /\ \A u \in Ulids : ShiftOf[u] = s =>
                             /\ receipts[u] = "none" <=> receipts'[u] = "none"
                             /\ journal'[u] = journal[u]
                             /\ Taken(u)' = Taken(u) /\ Returned(u)' = Returned(u)
      OBVIOUS
    <2>1. KeepsSealed(s) /\ KeepsReceipts(s)  BY <1>1, SealNext
    <2>2. Sealed(s)'  BY <2>1, SealedKept
    <2> QED  BY <2>1, <2>2 DEF KeepsSealed, KeepsReceipts
  <1> QED
    BY <1>1, PosInitInv, PosInductive, CashInit, CashInductive, PTL DEF Spec, ShiftSealed
=============================================================================
