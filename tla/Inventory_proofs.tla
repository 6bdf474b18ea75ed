--------------------------- MODULE Inventory_proofs ---------------------------
(***************************************************************************)
(* Proofs about receipts, sales, transfers and stocktaking on shared       *)
(* stock rows, for any number of workers, warehouses and documents and any *)
(* quantities and costs.                                                   *)
(***************************************************************************)
EXTENDS Inventory, StockMovement_proofs, Sums

IInv == TypeOK /\ StockInv

-----------------------------------------------------------------------------
LEMMA AnyCostFact == AnyCost \in Costs
  BY StockAssumption DEF AnyCost

(* A movement at its own cost, and one at the cost of another warehouse.   *)
LEMMA MoveFact ==
  ASSUME NEW dir \in {"in", "out", "adjust"}, NEW w \in Warehouses, NEW src \in Warehouses,
         NEW q \in 0..MaxQty, NEW c \in Costs
  PROVE  /\ Move(dir, w, q, c) \in Movement
         /\ [dir |-> dir, wh |-> w, qty |-> q, cost |-> c, src |-> src] \in Movement
  BY DEF Move, Movement

LEMMA Script1 == \A m \in Movement : <<m>> \in Seq(Movement)
  OBVIOUS

LEMMA Script2 == \A m, n \in Movement : <<m, n>> \in Seq(Movement)
  OBVIOUS

LEMMA NoTransferFact == NoTransfer \in Transfer /\ NoTransfer.status = "none"
  <1>1. PICK w \in Warehouses : TRUE
    BY InventoryAssumption
  <1>2. MaxQty \in Nat \ {0}
    BY StockAssumption
  <1>3. 1 \in 1..MaxQty
    BY <1>2
  <1> DEFINE t == [status |-> "none", from |-> w, to |-> w, qty |-> 1]
  <1>4. t \in Transfer /\ t.status = "none"
    BY <1>1, <1>3 DEF Transfer
  <1> HIDE DEF t
  <1> QED
    BY <1>4 DEF NoTransfer

LEMMA InitInv == Init => IInv
  <1> SUFFICES ASSUME Init PROVE IInv
    OBVIOUS
  <1>1. StockInv
    BY StockInitInv DEF Init
  <1>2. transfers \in [Transfers -> Transfer]
    BY NoTransferFact DEF Init
  <1>3. sessions \in [Sessions -> Session]
    <2>1. MaxCount \in Nat
      BY InventoryAssumption, StockAssumption
    <2>2. 0 \in 0..MaxCount
      BY <2>1
    <2>3. NoSession \in Session
      BY <2>2 DEF NoSession, Session
    <2> QED
      BY <2>3 DEF Init
  <1> QED
    BY <1>1, <1>2, <1>3 DEF IInv, TypeOK, StockInv

(* What a handler begins: one of its operations on a document, with a list *)
(* of movements.                                                           *)
LEMMA StartInv ==
  ASSUME IInv, NEW p \in Workers, NEW op \in Ops, NEW doc \in Docs,
         NEW script \in Seq(Movement), Begin(p, op, doc, script),
         UNCHANGED <<transfers, sessions>>
  PROVE  IInv'
  <1>1. StockInv'
    BY BeginInv DEF IInv
  <1> QED
    BY <1>1 DEF IInv, TypeOK, StockInv

(* A step of a stock transaction that leaves the documents alone.          *)
LEMMA StockStepInv ==
  ASSUME IInv, NEW p \in Workers, StockStep(p)
  PROVE  IInv' /\ ledger' = ledger
  <1>1. StockInv /\ UNCHANGED <<transfers, sessions>>
    BY DEF IInv, StockStep
  <1>2. StockInv' /\ ledger' = ledger
    <2>1. CASE ReadBalance(p)
      BY <1>1, <2>1, ReadBalanceInv DEF ReadBalance
    <2>2. CASE WriteBalance(p)
      BY <1>1, <2>2, WriteBalanceInv DEF WriteBalance
    <2>3. CASE Discard(p)
      BY <1>1, <2>3, DiscardInv DEF Discard
    <2> QED
      BY <2>1, <2>2, <2>3
         DEF StockStep, RejectMovement, CreateCollides, DeadlockVictim, Rollback
  <1> QED
    BY <1>1, <1>2 DEF IInv, TypeOK, StockInv

(* The commit writes the document of its own operation.                    *)
LEMMA CommitInv ==
  ASSUME IInv, NEW p \in Workers, Commit(p)
  PROVE  IInv'
  <1> DEFINE d == tx[p].doc
  <1>1. StockInv'
    BY CommitStockInv DEF IInv, Commit
  <1>2. transfers' \in [Transfers -> Transfer]
    <2>1. \A t \in Transfers : [transfers[t] EXCEPT !.status = "received"] \in Transfer
      BY DEF IInv, TypeOK, Transfer
    <2>2. transfers' = [transfers EXCEPT ![d].status = "received"] \/ transfers' = transfers
      BY DEF Commit
    <2> QED
      BY <2>1, <2>2 DEF IInv, TypeOK
  <1>3. sessions' \in [Sessions -> Session]
    <2>1. CASE tx[p].op \in {"openSession", "approveCount"}
      <3>1. PICK st \in {"draft", "approved"} : sessions' = [sessions EXCEPT ![d].status = st]
        BY <2>1 DEF Commit
      <3>2. \A s \in Sessions : [sessions[s] EXCEPT !.status = st] \in Session
        BY DEF IInv, TypeOK, Session
      <3> QED
        BY <3>1, <3>2 DEF IInv, TypeOK
    <2>2. CASE tx[p].op = "count"
      <3>1. PICK c \in 0..MaxCount :
              sessions' = [sessions EXCEPT ![d] =
                [status |-> "counted", counted |-> c,
                 system |-> balance[SessionWarehouse[d]].onHand]]
        BY <2>2 DEF Commit
      <3>2. CASE d \in Sessions
        <4>1. SessionWarehouse[d] \in Warehouses
          BY <3>2, InventoryAssumption
        <4>2. balance[SessionWarehouse[d]].onHand \in Int
          BY <4>1 DEF IInv, TypeOK, StockTypeOK, Row
        <4>3. [status |-> "counted", counted |-> c,
               system |-> balance[SessionWarehouse[d]].onHand] \in Session
          BY <4>2 DEF Session
        <4> QED
          BY <3>1, <4>3 DEF IInv, TypeOK
      <3>3. CASE d \notin Sessions
        BY <3>1, <3>3 DEF IInv, TypeOK
      <3> QED
        BY <3>2, <3>3
    <2>3. CASE tx[p].op \notin {"openSession", "approveCount", "count"}
      BY <2>3 DEF Commit, IInv, TypeOK
    <2> QED
      BY <2>1, <2>2, <2>3
  <1> QED
    BY <1>1, <1>2, <1>3 DEF IInv, TypeOK, StockInv

LEMMA ReceiveInv == ASSUME IInv, NEW p \in Workers, Receive(p) PROVE IInv'
  <1>1. PICK w \in Warehouses, q \in 1..MaxQty, c \in Costs :
          Begin(p, "receive", Purchase, <<Move("in", w, q, c)>>)
    BY DEF Receive
  <1>2. <<Move("in", w, q, c)>> \in Seq(Movement)
    <2>1. q \in 0..MaxQty
      OBVIOUS
    <2>2. Move("in", w, q, c) \in Movement
      BY <2>1, MoveFact
    <2> QED
      BY <2>2
  <1>3. "receive" \in Ops /\ Purchase \in Docs
    BY InventoryAssumption
  <1> QED
    BY <1>1, <1>2, <1>3, StartInv DEF Receive

LEMMA IssueInv == ASSUME IInv, NEW p \in Workers, Issue(p) PROVE IInv'
  <1>1. PICK w \in Warehouses, q \in 1..MaxQty :
          Begin(p, "issue", Sale, <<Move("out", w, q, AnyCost)>>)
    BY DEF Issue
  <1>2. <<Move("out", w, q, AnyCost)>> \in Seq(Movement)
    <2>1. q \in 0..MaxQty
      OBVIOUS
    <2>2. Move("out", w, q, AnyCost) \in Movement
      BY <2>1, MoveFact, AnyCostFact
    <2> QED
      BY <2>2
  <1>3. "issue" \in Ops /\ Sale \in Docs
    BY InventoryAssumption
  <1> QED
    BY <1>1, <1>2, <1>3, StartInv DEF Issue

LEMMA ApproveTransferInv ==
  ASSUME IInv, NEW p \in Workers, NEW t \in Transfers, ApproveTransfer(p, t)
  PROVE  IInv'
  <1> DEFINE tr == transfers[t]
             out == Move("out", tr.from, tr.qty, AnyCost)
             in == [dir |-> "in", wh |-> tr.to, qty |-> tr.qty, cost |-> AnyCost, src |-> tr.from]
  <1>1. tr.from \in Warehouses /\ tr.to \in Warehouses /\ tr.qty \in 1..MaxQty
    BY DEF IInv, TypeOK, Transfer
  <1>2. tr.qty \in 0..MaxQty
    BY <1>1
  <1>3. out \in Movement /\ in \in Movement
    BY <1>1, <1>2, MoveFact, AnyCostFact
  <1>4. Begin(p, "transfer", t, <<out, in>>) /\ UNCHANGED <<transfers, sessions>>
    BY DEF ApproveTransfer
  <1> HIDE DEF out, in
  <1>5. <<out, in>> \in Seq(Movement)
    BY <1>3
  <1>6. "transfer" \in Ops /\ t \in Docs
    BY InventoryAssumption
  <1> QED
    BY <1>4, <1>5, <1>6, StartInv

LEMMA SessionStartInv ==
  ASSUME IInv, NEW p \in Workers, NEW s \in Sessions,
         OpenSession(p, s) \/ StartCount(p, s) \/ ApproveCount(p, s)
  PROVE  IInv'
  <1> DEFINE adjust == Move("adjust", SessionWarehouse[s], sessions[s].counted, AnyCost)
  <1>1. {"openSession", "count", "approveCount"} \subseteq Ops /\ s \in Docs
    BY InventoryAssumption
  <1>2. adjust \in Movement
    <2>1. SessionWarehouse[s] \in Warehouses /\ MaxCount \in 0..MaxQty /\ MaxQty \in Nat
      BY InventoryAssumption, StockAssumption
    <2>2. sessions[s].counted \in 0..MaxCount
      BY DEF IInv, TypeOK, Session
    <2>3. sessions[s].counted \in 0..MaxQty
      BY <2>1, <2>2
    <2> QED
      BY <2>1, <2>3, MoveFact, AnyCostFact
  <1>3. /\ <<>> \in Seq(Movement)
        /\ <<adjust>> \in Seq(Movement)
    <2> HIDE DEF adjust
    <2> QED
      BY <1>2, EmptySeq
  <1>4. PICK op \in Ops, script \in Seq(Movement) :
          Begin(p, op, s, script) /\ UNCHANGED <<transfers, sessions>>
    BY <1>1, <1>3 DEF OpenSession, StartCount, ApproveCount
  <1> QED
    BY <1>1, <1>4, StartInv

LEMMA CreateTransferInv == ASSUME IInv, NEW t \in Transfers, CreateTransfer(t) PROVE IInv'
  <1>1. PICK from \in Warehouses, to \in Warehouses, q \in 1..MaxQty :
          transfers' = [transfers EXCEPT ![t] =
                          [status |-> "draft", from |-> from, to |-> to, qty |-> q]]
    BY DEF CreateTransfer
  <1>2. [status |-> "draft", from |-> from, to |-> to, qty |-> q] \in Transfer
    BY DEF Transfer
  <1>3. transfers' \in [Transfers -> Transfer]
    BY <1>1, <1>2 DEF IInv, TypeOK
  <1>4. StockInv'
    BY StockStutterInv DEF IInv, CreateTransfer
  <1> QED
    BY <1>3, <1>4 DEF IInv, TypeOK, StockInv, CreateTransfer

LEMMA NextInv == IInv /\ [Next]_vars => IInv'
  <1> SUFFICES ASSUME IInv, [Next]_vars PROVE IInv'
    OBVIOUS
  <1>1. CASE \E p \in Workers : Receive(p)
    BY <1>1, ReceiveInv
  <1>2. CASE \E p \in Workers : Issue(p)
    BY <1>2, IssueInv
  <1>3. CASE \E p \in Workers : Commit(p)
    BY <1>3, CommitInv
  <1>4. CASE \E p \in Workers : StockStep(p)
    BY <1>4, StockStepInv
  <1>5. CASE \E p \in Workers, t \in Transfers : ApproveTransfer(p, t)
    BY <1>5, ApproveTransferInv
  <1>6. CASE \E p \in Workers, s \in Sessions :
               OpenSession(p, s) \/ StartCount(p, s) \/ ApproveCount(p, s)
    BY <1>6, SessionStartInv
  <1>7. CASE \E t \in Transfers : CreateTransfer(t)
    BY <1>7, CreateTransferInv
  <1>8. CASE UNCHANGED vars
    BY <1>8, StockStutterInv DEF IInv, TypeOK, StockInv, vars
  <1> QED
    BY <1>1, <1>2, <1>3, <1>4, <1>5, <1>6, <1>7, <1>8 DEF Next

-----------------------------------------------------------------------------
(* What the entries of a warehouse say of a document, by the last one.     *)
LEMMA MovedInFact ==
  ASSUME NEW d, NEW s \in Seq(Entry)
  PROVE  /\ MovedIn(d, s) \in Int
         /\ s = <<>> => MovedIn(d, s) = 0
         /\ \A e \in Entry :
              MovedIn(d, s \o <<e>>) = MovedIn(d, s) + (IF e.doc = d THEN e.change ELSE 0)
  <1> DEFINE part(u) == [i \in 1..Len(u) |-> IF u[i].doc = d THEN u[i].change ELSE 0]
  <1>1. ASSUME NEW u \in Seq(Entry)
        PROVE  /\ IsFiniteSet(1..Len(u)) /\ IntOn(part(u), 1..Len(u))
               /\ MovedIn(d, u) = SumOf(part(u), 1..Len(u))
    <2>1. Len(u) \in Nat /\ \A i \in 1..Len(u) : u[i] \in Entry
      OBVIOUS
    <2>2. IsFiniteSet(1..Len(u))
      BY <2>1, FS_Interval
    <2>3. IntOn(part(u), 1..Len(u)) /\ DOMAIN part(u) = 1..Len(u)
      BY <2>1 DEF IntOn, Entry
    <2>4. MovedIn(d, u) = SumFunction(part(u))
      BY Zenon DEF MovedIn
    <2> HIDE DEF part
    <2> QED
      BY <2>2, <2>3, <2>4, SumFunctionIs
  <1>2. MovedIn(d, s) \in Int
    BY <1>1, SumInt
  <1>3. ASSUME s = <<>> PROVE MovedIn(d, s) = 0
    <2>1. 1..Len(s) = {}
      BY <1>3
    <2> QED
      BY <1>1, <2>1, SumEmpty
  <1>4. ASSUME NEW e \in Entry
        PROVE  MovedIn(d, s \o <<e>>) = MovedIn(d, s) + (IF e.doc = d THEN e.change ELSE 0)
    <2> DEFINE u == s \o <<e>>  n == Len(s) + 1  f == part(u)  g == part(s)
    <2>1. /\ u \in Seq(Entry) /\ Len(u) = n /\ n \in Nat /\ u[n] = e
          /\ \A i \in 1..Len(s) : u[i] = s[i]
      OBVIOUS
    <2>2. n \in 1..Len(u) /\ (1..Len(u)) \ {n} = 1..Len(s)
      BY <2>1
    <2>3. f[n] = (IF e.doc = d THEN e.change ELSE 0) /\ \A i \in 1..Len(s) : f[i] = g[i]
      BY <2>1, <2>2
    <2>4. /\ IsFiniteSet(1..Len(u)) /\ IntOn(f, 1..Len(u)) /\ MovedIn(d, u) = SumOf(f, 1..Len(u))
          /\ IsFiniteSet(1..Len(s)) /\ IntOn(g, 1..Len(s)) /\ MovedIn(d, s) = SumOf(g, 1..Len(s))
      BY <1>1, <2>1
    <2> HIDE DEF u, n, f, g, part
    <2>5. SumOf(f, 1..Len(u)) = f[n] + SumOf(f, (1..Len(u)) \ {n})
      BY <2>2, <2>4, SumTake
    <2>6. IntOn(f, 1..Len(s))
      BY <2>2, <2>4 DEF IntOn
    <2>7. SumOf(f, 1..Len(s)) = SumOf(g, 1..Len(s))
      BY <2>3, <2>4, <2>6, SumAgree
    <2>8. MovedIn(d, u) = f[n] + MovedIn(d, s)
      BY <2>2, <2>4, <2>5, <2>7
    <2>9. f[n] \in Int
      BY <2>2, <2>4 DEF IntOn
    <2> QED
      BY <1>2, <2>3, <2>8, <2>9 DEF u
  <1> QED
    BY <1>2, <1>3, <1>4

-----------------------------------------------------------------------------
(* The entries of a document in a log: one with this change, or none.      *)
Logged(log, doc, q) ==
  IF q = 0 THEN log = <<>>
           ELSE \E e \in Entry : log = <<e>> /\ e.doc = doc /\ e.change = q

Untouched(p) == \A w \in Warehouses : holder[w] # p

(* The two movements of a transfer.                                        *)
OutOf(tr) == Move("out", tr.from, tr.qty, AnyCost)
Into(tr) ==
  [dir |-> "in", wh |-> tr.to, qty |-> tr.qty, cost |-> AnyCost, src |-> tr.from]

Between(tr, w, out, in) == IF w = tr.from THEN - out ELSE IF w = tr.to THEN in ELSE 0

(* The transaction of a transfer has moved nothing, has moved out of the   *)
(* source, or has moved into the destination as well.                      *)
TransferScript(p, tr) ==
  /\ tr.status # "none"
  /\ \/ tx[p].todo = <<OutOf(tr), Into(tr)>> /\ Untouched(p)
     \/ /\ tx[p].todo = <<Into(tr)>> /\ holder[tr.from] = p
        /\ \A w \in Warehouses :
             Logged(tx[p].log[w], tx[p].doc, Between(tr, w, tr.qty, 0))
     \/ /\ tx[p].todo = <<>>
        /\ \A w \in Warehouses :
             Logged(tx[p].log[w], tx[p].doc, Between(tr, w, tr.qty, tr.qty))

(* The movement of every other operation.                                  *)
Plain(op, doc, m) ==
  \/ op = "receive" /\ m.dir = "in" /\ m.qty > 0 /\ m.src = m.wh
  \/ op = "issue" /\ m.dir = "out" /\ m.qty > 0
  \/ op = "approveCount" /\ m.dir = "adjust" /\ doc \in Sessions

SingleScript(p) ==
  \/ /\ \E m \in Movement : tx[p].todo = <<m>> /\ Plain(tx[p].op, tx[p].doc, m)
     /\ Untouched(p)
  \/ /\ tx[p].todo = <<>>
     /\ \A w \in Warehouses : \/ tx[p].log[w] = <<>>
                              \/ \E e \in Entry : tx[p].log[w] = <<e>> /\ e.doc = tx[p].doc

Scripted(p) ==
  IF tx[p].op = "transfer"
    THEN tx[p].doc \in Transfers /\ TransferScript(p, transfers[tx[p].doc])
    ELSE tx[p].doc \notin Transfers /\ SingleScript(p)

ScriptsOK == \A p \in Workers : tx[p].step = "running" => Scripted(p)

(* What the ledger says of a transfer. *)
TransferKept(t, tr) ==
  /\ tr.status \in {"none", "draft"} => \A w \in Warehouses : MovedBy(t, w) = 0
  /\ tr.status # "none" => /\ tr.from # tr.to
                           /\ MovedBy(t, tr.from) + MovedBy(t, tr.to) = 0
  /\ tr.status = "received" => MovedBy(t, tr.to) >= tr.qty

TransfersOK == \A t \in Transfers : TransferKept(t, transfers[t])

TransferInv == IInv /\ ScriptsOK /\ TransfersOK

(* A transfer once made keeps its warehouses and its quantity.             *)
SameLine(tr, new) ==
  new.status # "none" /\ new.from = tr.from /\ new.to = tr.to /\ new.qty = tr.qty

LEMMA OthersScripted ==
  ASSUME NEW q \in Workers, Scripted(q), tx'[q] = tx[q],
         \A w \in Warehouses : holder'[w] = q <=> holder[w] = q,
         transfers \in [Transfers -> Transfer],
         \A t \in Transfers :
           transfers[t].status # "none" => SameLine(transfers[t], transfers'[t])
  PROVE  Scripted(q)'
  <1>1. CASE tx[q].op = "transfer"
    <2> DEFINE tr == transfers[tx[q].doc]  new == transfers'[tx[q].doc]
    <2>1. tx[q].doc \in Transfers /\ TransferScript(q, tr)
      BY <1>1 DEF Scripted
    <2>2. SameLine(tr, new)
      BY <2>1 DEF TransferScript
    <2>3. tr.from \in Warehouses
      BY <2>1 DEF Transfer
    <2>4. OutOf(new) = OutOf(tr) /\ Into(new) = Into(tr)
      BY <2>2 DEF SameLine, OutOf, Into, Move
    <2>5. \A w, a, b : Between(new, w, a, b) = Between(tr, w, a, b)
      BY <2>2 DEF SameLine, Between
    <2> HIDE DEF tr, new
    <2> SUFFICES TransferScript(q, transfers[tx[q].doc])'
      BY <1>1, <2>1 DEF Scripted
    <2>6. CASE tx[q].todo = <<OutOf(tr), Into(tr)>> /\ Untouched(q)
      BY <2>2, <2>4, <2>6 DEF TransferScript, Untouched, SameLine, new
    <2>7. CASE /\ tx[q].todo = <<Into(tr)>> /\ holder[tr.from] = q
               /\ \A w \in Warehouses :
                    Logged(tx[q].log[w], tx[q].doc, Between(tr, w, tr.qty, 0))
      BY <2>2, <2>3, <2>4, <2>5, <2>7 DEF TransferScript, SameLine, new
    <2>8. CASE /\ tx[q].todo = <<>>
               /\ \A w \in Warehouses :
                    Logged(tx[q].log[w], tx[q].doc, Between(tr, w, tr.qty, tr.qty))
      BY <2>2, <2>5, <2>8 DEF TransferScript, SameLine, new
    <2> QED
      BY <2>1, <2>6, <2>7, <2>8 DEF TransferScript
  <1>2. CASE tx[q].op # "transfer"
    BY <1>2 DEF Scripted, SingleScript, Untouched
  <1> QED
    BY <1>1, <1>2

LEMMA SameLineKept ==
  ASSUME UNCHANGED transfers, NEW t \in Transfers, transfers[t].status # "none"
  PROVE  SameLine(transfers[t], transfers'[t])
  BY DEF SameLine

LEMMA SameLedger ==
  ASSUME TransfersOK, UNCHANGED <<ledger, transfers>>
  PROVE  TransfersOK'
  BY DEF TransfersOK, TransferKept, MovedBy

LEMMA UntouchedLogs ==
  ASSUME StockInv, NEW p \in Workers, tx[p].step = "running", Untouched(p), NEW w \in Warehouses
  PROVE  tx[p].log[w] = <<>>
  BY DEF StockInv, OwnIsLastEntry, Untouched

(* A handler that begins with its script. *)
LEMMA TransferStart ==
  ASSUME TransferInv, IInv', NEW p \in Workers, NEW op \in Ops, NEW doc \in Docs,
         NEW script \in Seq(Movement), Begin(p, op, doc, script), UNCHANGED transfers,
         IF op = "transfer"
           THEN /\ doc \in Transfers /\ transfers[doc].status # "none"
                /\ script = <<OutOf(transfers[doc]), Into(transfers[doc])>>
           ELSE /\ doc \notin Transfers
                /\ \/ script = <<>>
                   \/ \E m \in Movement : script = <<m>> /\ Plain(op, doc, m)
  PROVE  TransferInv'
  <1> USE DEF TransferInv
  <1>1. UNCHANGED <<ledger, holder>>
    BY DEF Begin
  <1>2. \A q \in Workers : q # p => tx'[q] = tx[q]
    BY DEF Begin, IInv, StockInv, StockTypeOK
  <1>3. /\ tx'[p].op = op /\ tx'[p].doc = doc /\ tx'[p].todo = script
        /\ \A w \in Warehouses : tx'[p].log[w] = <<>>
    BY DEF Begin, IInv, StockInv, StockTypeOK
  <1>4. Untouched(p)
    BY StockAssumption DEF Begin, Untouched, IInv, StockInv, StockTypeOK
  <1>5. Scripted(p)'
    <2>1. CASE op = "transfer"
      BY <1>1, <1>3, <1>4, <2>1
         DEF Scripted, TransferScript, Untouched, OutOf, Into, Move
    <2>2. CASE op # "transfer"
      BY <1>1, <1>3, <1>4, <2>2 DEF Scripted, SingleScript, Untouched
    <2> QED
      BY <2>1, <2>2
  <1>6. ScriptsOK'
    <2>1. \A q \in Workers : q # p /\ tx'[q].step = "running" => Scripted(q)'
      BY <1>1, <1>2, SameLineKept, OthersScripted DEF ScriptsOK, IInv, TypeOK
    <2> QED
      BY <1>5, <2>1 DEF ScriptsOK
  <1> QED
    BY <1>1, <1>6, SameLedger

LEMMA TransferDiscard ==
  ASSUME TransferInv, IInv', NEW p \in Workers, Discard(p), UNCHANGED transfers
  PROVE  TransferInv'
  <1> USE DEF TransferInv
  <1>1. \A q \in Workers : tx'[q] = IF q = p THEN Idle ELSE tx[q]
    BY DEF Discard, IInv, StockInv, StockTypeOK
  <1>2. \A w \in Warehouses, q \in Workers : q # p => (holder'[w] = q <=> holder[w] = q)
    BY StockAssumption DEF Discard
  <1>3. ScriptsOK'
    BY <1>1, <1>2, IdleFact, SameLineKept, OthersScripted DEF ScriptsOK, IInv, TypeOK
  <1> QED
    BY <1>3, SameLedger DEF Discard

LEMMA TransferRead ==
  ASSUME TransferInv, IInv', NEW p \in Workers, ReadBalance(p), UNCHANGED transfers
  PROVE  TransferInv'
  <1> USE DEF TransferInv
  <1>1. UNCHANGED <<ledger, holder>>
    BY DEF ReadBalance
  <1>2. \A q \in Workers : q # p => tx'[q] = tx[q]
    BY DEF ReadBalance, IInv, StockInv, StockTypeOK
  <1>3. /\ tx[p].step = "running"
        /\ tx'[p].op = tx[p].op /\ tx'[p].doc = tx[p].doc /\ tx'[p].todo = tx[p].todo
        /\ tx'[p].log = tx[p].log
    BY DEF ReadBalance, InMovement, Seen, IInv, StockInv, StockTypeOK
  <1>4. Scripted(p)'
    <2>1. Scripted(p)
      BY <1>3 DEF ScriptsOK
    <2>2. CASE tx[p].op = "transfer"
      BY <1>1, <1>3, <2>1, <2>2
         DEF Scripted, TransferScript, Untouched
    <2>3. CASE tx[p].op # "transfer"
      BY <1>1, <1>3, <2>1, <2>3 DEF Scripted, SingleScript, Untouched
    <2> QED
      BY <2>2, <2>3
  <1>5. ScriptsOK'
    <2>1. \A q \in Workers : q # p /\ tx'[q].step = "running" => Scripted(q)'
      BY <1>1, <1>2, SameLineKept, OthersScripted DEF ScriptsOK, IInv, TypeOK
    <2> QED
      BY <1>4, <2>1 DEF ScriptsOK
  <1> QED
    BY <1>1, <1>5, SameLedger

(* What the write of a movement in or out, or of a count, leaves in the    *)
(* transaction: the row and one entry.                                     *)
LEMMA WriteFact ==
  ASSUME StockInv, NEW p \in Workers, WriteBalance(p),
         Current(p).dir \in {"in", "out", "adjust"}
  PROVE  LET m == Current(p)
             row == NewRow(p, m, tx[p].seen, View(p, m.wh))
             change == row.onHand - tx[p].seen.onHand
         IN  /\ m \in Movement /\ m.wh \in Warehouses /\ row \in Row
             /\ tx[p].seen \in Row /\ tx[p].read /\ tx[p] \in Running
             /\ \A q \in Workers : q # p => tx'[q] = tx[q]
             /\ tx'[p].op = tx[p].op /\ tx'[p].doc = tx[p].doc /\ tx'[p].todo = Tail(tx[p].todo)
             /\ tx'[p].seen = NoRow
             /\ tx'[p].own = [tx[p].own EXCEPT ![m.wh] = row]
             /\ \E e \in Entry : /\ tx'[p].log = [tx[p].log EXCEPT ![m.wh] = @ \o <<e>>]
                                 /\ e.doc = tx[p].doc /\ e.change = change
             /\ m.dir = "in" => change = m.qty
             /\ m.dir = "out" => change = - m.qty
             /\ holder[m.wh] \in {p, NoWorker} /\ holder' = [holder EXCEPT ![m.wh] = p]
             /\ UNCHANGED <<balance, ledger>>
  <1> DEFINE m == Current(p)
             row == NewRow(p, m, tx[p].seen, View(p, m.wh))
             e == [change |-> row.onHand - tx[p].seen.onHand, after |-> row.onHand,
                   doc |-> tx[p].doc]
  <1>1. InMovement(p) /\ tx[p].step = "running"
    BY DEF WriteBalance, InMovement
  <1>2. tx[p] \in Running /\ m \in Movement
    BY <1>1, CurrentFact
  <1>3. m.wh \in Warehouses /\ m.qty \in Nat
    BY <1>2, MovementFact
  <1>4. tx[p].seen \in Row /\ tx[p].doc \in Docs
    BY <1>2 DEF Running
  <1>5. View(p, m.wh) \in Row
    BY <1>1, <1>3, ViewFact
  <1>6. row \in Row
    BY <1>1, <1>2, <1>4, <1>5, NewRowFact
  <1>7. row.onHand \in Int /\ tx[p].seen.onHand \in Int
    BY <1>4, <1>6 DEF Row
  <1>8. e \in Entry /\ e.doc = tx[p].doc /\ e.change = row.onHand - tx[p].seen.onHand
    BY <1>4, <1>7 DEF Entry
  <1>9. m.dir \in {"in", "out", "adjust"} /\ tx[p].read
    BY DEF WriteBalance
  <1>10. NewEntries(m, tx[p].seen, row, tx[p].doc) = <<e>>
    BY <1>9 DEF NewEntries
  <1>11. /\ tx' = [tx EXCEPT ![p] = Moved(@, m, row, <<e>>)]
         /\ holder[m.wh] \in {p, NoWorker} /\ holder' = [holder EXCEPT ![m.wh] = p]
         /\ UNCHANGED <<balance, ledger>>
    BY <1>9, <1>10 DEF WriteBalance
  <1>12. m.dir = "in" => row.onHand = tx[p].seen.onHand + m.qty
    BY DEF NewRow
  <1>13. m.dir = "out" => row.onHand = tx[p].seen.onHand - m.qty
    BY DEF NewRow
  <1> HIDE DEF m, row, e
  <1>14. /\ \A q \in Workers : q # p => tx'[q] = tx[q]
         /\ tx'[p] = Moved(tx[p], m, row, <<e>>)
    BY <1>11 DEF StockInv, StockTypeOK
  <1>15. /\ tx'[p].op = tx[p].op /\ tx'[p].doc = tx[p].doc /\ tx'[p].todo = Tail(tx[p].todo)
         /\ tx'[p].seen = NoRow
         /\ tx'[p].own = [tx[p].own EXCEPT ![m.wh] = row]
         /\ tx'[p].log = [tx[p].log EXCEPT ![m.wh] = @ \o <<e>>]
    BY <1>14 DEF Moved
  <1>16. /\ m.dir = "in" => row.onHand - tx[p].seen.onHand = m.qty
         /\ m.dir = "out" => row.onHand - tx[p].seen.onHand = - m.qty
    BY <1>3, <1>7, <1>12, <1>13
  <1>17. \E f \in Entry : /\ tx'[p].log = [tx[p].log EXCEPT ![m.wh] = @ \o <<f>>]
                          /\ f.doc = tx[p].doc /\ f.change = row.onHand - tx[p].seen.onHand
    BY <1>8, <1>15
  <1> QED
    BY <1>2, <1>3, <1>4, <1>6, <1>9, <1>11, <1>14, <1>15, <1>16, <1>17 DEF m, row

(* The next movement of a script, by its phase. *)
LEMMA CurrentOfScript ==
  ASSUME TransferInv, NEW p \in Workers, InMovement(p)
  PROVE  /\ Scripted(p) /\ Current(p).dir \in {"in", "out", "adjust"}
         /\ tx[p].op # "transfer" =>
              /\ Plain(tx[p].op, tx[p].doc, Current(p)) /\ Untouched(p)
              /\ tx[p].todo = <<Current(p)>>
  <1>1. Scripted(p) /\ tx[p].todo # <<>>
    BY DEF TransferInv, ScriptsOK, InMovement
  <1>2. CASE tx[p].op = "transfer"
    <2> DEFINE tr == transfers[tx[p].doc]
    <2>1. TransferScript(p, tr)
      BY <1>1, <1>2 DEF Scripted
    <2>2. OutOf(tr).dir = "out" /\ Into(tr).dir = "in"
      BY DEF OutOf, Into, Move
    <2> HIDE DEF tr
    <2>3. tx[p].todo = <<OutOf(tr), Into(tr)>> \/ tx[p].todo = <<Into(tr)>>
      BY <1>1, <2>1 DEF TransferScript
    <2> QED
      BY <1>1, <1>2, <2>2, <2>3 DEF Current
  <1>3. CASE tx[p].op # "transfer"
    <2>1. PICK m \in Movement : tx[p].todo = <<m>> /\ Plain(tx[p].op, tx[p].doc, m) /\ Untouched(p)
      BY <1>1, <1>3 DEF Scripted, SingleScript
    <2>2. Current(p) = m
      BY <2>1 DEF Current
    <2> QED
      BY <1>1, <2>1, <2>2 DEF Plain
  <1> QED
    BY <1>2, <1>3

LEMMA QtyFact ==
  ASSUME NEW q \in 1..MaxQty
  PROVE  q \in Int /\ - q \in Int /\ q > 0 /\ q # 0 /\ - q # 0
  BY StockAssumption

LEMMA TransferWrite ==
  ASSUME TransferInv, IInv', NEW p \in Workers, WriteBalance(p), UNCHANGED transfers
  PROVE  TransferInv'
  <1> USE DEF TransferInv
  <1> DEFINE m == Current(p)
             change == NewRow(p, m, tx[p].seen, View(p, m.wh)).onHand - tx[p].seen.onHand
  <1>1. InMovement(p) /\ tx[p].step = "running"
    BY DEF WriteBalance, InMovement
  <1>2. Scripted(p) /\ m.dir \in {"in", "out", "adjust"}
    BY <1>1, CurrentOfScript
  <1>3. /\ m.wh \in Warehouses /\ UNCHANGED <<balance, ledger>>
        /\ tx[p] \in Running
        /\ \A q \in Workers : q # p => tx'[q] = tx[q]
        /\ tx'[p].op = tx[p].op /\ tx'[p].doc = tx[p].doc /\ tx'[p].todo = Tail(tx[p].todo)
        /\ holder[m.wh] \in {p, NoWorker} /\ holder' = [holder EXCEPT ![m.wh] = p]
        /\ m.dir = "in" => change = m.qty
        /\ m.dir = "out" => change = - m.qty
    BY <1>2, WriteFact DEF IInv
  <1>4. PICK e \in Entry : /\ tx'[p].log = [tx[p].log EXCEPT ![m.wh] = @ \o <<e>>]
                           /\ e.doc = tx[p].doc /\ e.change = change
    BY <1>2, WriteFact DEF IInv
  <1> HIDE DEF m, change
  <1>5. \A w \in Warehouses :
          tx'[p].log[w] = IF w = m.wh THEN tx[p].log[w] \o <<e>> ELSE tx[p].log[w]
    BY <1>3, <1>4 DEF Running
  <1>6. \A w \in Warehouses : tx[p].log[w] = <<>> => tx[p].log[w] \o <<e>> = <<e>>
    OBVIOUS
  <1>7. \A w \in Warehouses : holder'[w] = IF w = m.wh THEN p ELSE holder[w]
    BY <1>3 DEF IInv, StockInv, StockTypeOK
  <1>8. Scripted(p)'
    <2>1. CASE tx[p].op = "transfer"
      <3> DEFINE tr == transfers[tx[p].doc]
      <3>1. tx[p].doc \in Transfers /\ TransferScript(p, tr) /\ tr.status # "none"
        BY <1>2, <2>1 DEF Scripted, TransferScript
      <3>2. tr.from \in Warehouses /\ tr.to \in Warehouses /\ tr.from # tr.to
            /\ tr.qty \in 1..MaxQty
        BY <3>1 DEF IInv, TypeOK, Transfer, TransfersOK, TransferKept
      <3>3. tr.qty \in Int /\ - tr.qty \in Int /\ tr.qty # 0 /\ - tr.qty # 0
        BY <3>2, QtyFact
      <3> HIDE DEF tr
      <3>4. ASSUME tx[p].todo = <<OutOf(tr), Into(tr)>>, Untouched(p)
            PROVE  TransferScript(p, transfers[tx[p].doc])'
        <4>1. m = OutOf(tr) /\ Tail(tx[p].todo) = <<Into(tr)>>
          BY <3>4 DEF m, Current
        <4>2. m.wh = tr.from /\ m.qty = tr.qty /\ m.dir = "out"
          BY <4>1 DEF OutOf, Move
        <4>3. \A w \in Warehouses : tx[p].log[w] = <<>>
          BY <1>1, <3>4, UntouchedLogs DEF IInv
        <4>4. e.change = - tr.qty
          BY <1>3, <1>4, <4>2
        <4>5. \A w \in Warehouses :
                tx'[p].log[w] = IF w = tr.from THEN <<e>> ELSE <<>>
          BY <1>5, <1>6, <4>2, <4>3
        <4>6. \A w \in Warehouses :
                Logged(tx'[p].log[w], tx[p].doc, Between(tr, w, tr.qty, 0))
          BY <1>4, <3>2, <3>3, <4>4, <4>5 DEF Logged, Between
        <4>7. holder'[tr.from] = p
          BY <1>7, <3>2, <4>2
        <4> QED
          BY <1>3, <3>1, <4>1, <4>6, <4>7 DEF TransferScript, tr
      <3>5. ASSUME tx[p].todo = <<Into(tr)>>,
                   \A w \in Warehouses :
                     Logged(tx[p].log[w], tx[p].doc, Between(tr, w, tr.qty, 0))
            PROVE  TransferScript(p, transfers[tx[p].doc])'
        <4>1. m = Into(tr) /\ Tail(tx[p].todo) = <<>>
          BY <3>5 DEF m, Current
        <4>2. m.wh = tr.to /\ m.qty = tr.qty /\ m.dir = "in"
          BY <4>1 DEF Into
        <4>3. tx[p].log[tr.to] = <<>>
          BY <3>2, <3>5 DEF Logged, Between
        <4>4. e.change = tr.qty
          BY <1>3, <1>4, <4>2
        <4>5. tx'[p].log[tr.to] = <<e>> /\ \A w \in Warehouses : w # tr.to => tx'[p].log[w] = tx[p].log[w]
          BY <1>5, <1>6, <3>2, <4>2, <4>3
        <4>6. \A w \in Warehouses :
                Logged(tx'[p].log[w], tx[p].doc, Between(tr, w, tr.qty, tr.qty))
          <5> TAKE w \in Warehouses
          <5>1. CASE w = tr.to
            BY <5>1, <1>4, <3>2, <3>3, <4>4, <4>5 DEF Logged, Between
          <5>2. CASE w # tr.to
            BY <5>2, <3>5, <4>5 DEF Between
          <5> QED
            BY <5>1, <5>2
        <4> QED
          BY <1>3, <3>1, <4>1, <4>6 DEF TransferScript, tr
      <3>6. TransferScript(p, transfers[tx[p].doc])'
        BY <1>1, <3>1, <3>4, <3>5 DEF TransferScript, InMovement
      <3> QED
        BY <1>3, <2>1, <3>1, <3>6 DEF Scripted
    <2>2. CASE tx[p].op # "transfer"
      <3>1. tx[p].todo = <<m>> /\ Untouched(p) /\ tx[p].doc \notin Transfers
        BY <1>1, <1>2, <2>2, CurrentOfScript DEF Scripted, m
      <3>2. \A w \in Warehouses : tx[p].log[w] = <<>>
        BY <1>1, <3>1, UntouchedLogs DEF IInv
      <3>3. Tail(tx[p].todo) = <<>>
        BY <3>1
      <3>4. \A w \in Warehouses : tx'[p].log[w] = <<>> \/ tx'[p].log[w] = <<e>>
        BY <1>5, <1>6, <3>2
      <3> QED
        BY <1>3, <1>4, <2>2, <3>1, <3>3, <3>4 DEF Scripted, SingleScript
    <2> QED
      BY <2>1, <2>2
  <1>9. ScriptsOK'
    <2>1. \A w \in Warehouses, q \in Workers : q # p => (holder'[w] = q <=> holder[w] = q)
      BY <1>3, <1>7, StockAssumption
    <2>2. \A q \in Workers : q # p /\ tx'[q].step = "running" => Scripted(q)'
      BY <1>3, <2>1, SameLineKept, OthersScripted DEF ScriptsOK, IInv, TypeOK
    <2> QED
      BY <1>8, <2>2 DEF ScriptsOK
  <1> QED
    BY <1>3, <1>9, SameLedger

(* What a commit adds to the ledger of a document.                         *)
LEMMA LoggedMoves ==
  ASSUME NEW d, NEW doc, NEW s \in Seq(Entry), NEW log, NEW q \in Int, Logged(log, doc, q)
  PROVE  MovedIn(d, s \o log) = MovedIn(d, s) + (IF d = doc THEN q ELSE 0)
  <1>1. MovedIn(d, s) \in Int
    BY MovedInFact
  <1>2. CASE q = 0
    <2>1. s \o log = s
      BY <1>2 DEF Logged
    <2> QED
      BY <1>1, <1>2, <2>1
  <1>3. CASE q # 0
    <2>1. PICK e \in Entry : log = <<e>> /\ e.doc = doc /\ e.change = q
      BY <1>3 DEF Logged
    <2>2. MovedIn(d, s \o <<e>>) = MovedIn(d, s) + (IF e.doc = d THEN e.change ELSE 0)
      BY MovedInFact
    <2> QED
      BY <2>1, <2>2
  <1> QED
    BY <1>2, <1>3

LEMMA TransferCommit ==
  ASSUME TransferInv, IInv', NEW p \in Workers, Commit(p)
  PROVE  TransferInv'
  <1> USE DEF TransferInv
  <1> DEFINE d == tx[p].doc
  <1>1. /\ tx[p].step = "running" /\ tx[p].todo = <<>>
        /\ \A q \in Workers : tx'[q] = IF q = p THEN Idle ELSE tx[q]
        /\ \A w \in Warehouses : ledger'[w] = ledger[w] \o tx[p].log[w]
    BY DEF Commit, CommitStock, IInv, StockInv, StockTypeOK
  <1>2. \A w \in Warehouses, q \in Workers : q # p => (holder'[w] = q <=> holder[w] = q)
    BY StockAssumption DEF Commit, CommitStock
  <1>3. Scripted(p)
    BY <1>1 DEF ScriptsOK
  <1>4. transfers' = IF tx[p].op = "transfer" THEN [transfers EXCEPT ![d].status = "received"]
                     ELSE transfers
    BY DEF Commit
  <1>5. /\ transfers \in [Transfers -> Transfer] /\ ledger \in [Warehouses -> Seq(Entry)]
        /\ \A t \in Transfers : /\ transfers[t].qty \in 1..MaxQty
                                /\ transfers[t].from \in Warehouses /\ transfers[t].to \in Warehouses
    BY DEF IInv, StockInv, StockTypeOK, TypeOK, Transfer
  <1>6. \A t \in Transfers :
          /\ transfers[t].status # "none" => SameLine(transfers[t], transfers'[t])
          /\ ~(tx[p].op = "transfer" /\ t = d) => transfers'[t] = transfers[t]
    BY <1>4, <1>5 DEF SameLine, Transfer
  <1>7. ScriptsOK'
    BY <1>1, <1>2, <1>5, <1>6, IdleFact, OthersScripted DEF ScriptsOK
  <1>8. TransfersOK'
    <2> SUFFICES ASSUME NEW t \in Transfers PROVE TransferKept(t, transfers[t])'
      BY DEF TransfersOK
    <2> DEFINE tr == transfers[t]
    <2>1. TransferKept(t, tr)
      BY DEF TransfersOK
    <2>2. CASE tx[p].op = "transfer" /\ t = d
      <3>1. /\ TransferScript(p, tr) /\ tr.status # "none"
            /\ \A w \in Warehouses : Logged(tx[p].log[w], t, Between(tr, w, tr.qty, tr.qty))
        BY <1>1, <1>3, <2>2 DEF Scripted, TransferScript
      <3>2. tr.qty \in Int /\ - tr.qty \in Int /\ tr.qty > 0 /\ tr.from # tr.to
        BY <1>5, <2>1, <3>1, QtyFact DEF TransferKept
      <3>3. SameLine(tr, transfers'[t]) /\ transfers'[t].status = "received"
        <4>1. transfers' = [transfers EXCEPT ![t].status = "received"]
          BY <1>4, <2>2
        <4>2. transfers[t] \in Transfer
          BY <1>5
        <4>3. transfers'[t] = [transfers[t] EXCEPT !.status = "received"]
          BY <1>5, <4>1
        <4> QED
          BY <1>6, <3>1, <4>2, <4>3 DEF Transfer
      <3>4. tr.from \in Warehouses /\ tr.to \in Warehouses
        BY <1>5
      <3> DEFINE source == MovedBy(t, tr.from)  destination == MovedBy(t, tr.to)  qty == tr.qty
      <3>5. MovedBy(t, tr.from)' = source - qty
        <4>1. Between(tr, tr.from, tr.qty, tr.qty) = - tr.qty
          BY DEF Between
        <4>2. MovedIn(t, ledger[tr.from] \o tx[p].log[tr.from]) = MovedIn(t, ledger[tr.from]) + (- tr.qty)
          BY <1>5, <3>1, <3>2, <3>4, <4>1, LoggedMoves
        <4>3. MovedIn(t, ledger[tr.from]) \in Int
          BY <1>5, <3>4, MovedInFact
        <4>4. MovedIn(t, ledger'[tr.from]) = MovedIn(t, ledger[tr.from]) - tr.qty
          BY <1>1, <3>2, <3>4, <4>2, <4>3
        <4> QED
          BY <3>3, <4>4 DEF MovedBy, SameLine
      <3>6. MovedBy(t, tr.to)' = destination + qty
        <4>1. Between(tr, tr.to, tr.qty, tr.qty) = tr.qty
          BY <3>2 DEF Between
        <4>2. MovedIn(t, ledger[tr.to] \o tx[p].log[tr.to]) = MovedIn(t, ledger[tr.to]) + tr.qty
          BY <1>5, <3>1, <3>2, <3>4, <4>1, LoggedMoves
        <4>3. MovedIn(t, ledger'[tr.to]) = MovedIn(t, ledger[tr.to]) + tr.qty
          BY <1>1, <3>4, <4>2
        <4> QED
          BY <3>3, <4>3 DEF MovedBy, SameLine
      <3>7. source \in Int /\ destination \in Int
        BY <1>5, <3>4, MovedInFact DEF MovedBy
      <3>8. source + destination = 0 /\ (tr.status = "received" => destination >= qty)
        BY <2>1, <3>1 DEF TransferKept
      <3>9. tr.status = "draft" => destination = 0
        BY <2>1, <3>4 DEF TransferKept
      <3>10. tr.status \in {"draft", "received"}
        BY <1>5, <3>1 DEF Transfer
      <3> HIDE DEF source, destination, qty
      <3>11. (source - qty) + (destination + qty) = 0 /\ destination + qty >= qty
        <4>1. qty \in Int /\ qty > 0
          BY <3>2 DEF qty
        <4> QED
          BY <4>1, <3>7, <3>8, <3>9, <3>10
      <3> QED
        BY <3>2, <3>3, <3>5, <3>6, <3>11 DEF TransferKept, SameLine, qty
    <2>3. CASE ~(tx[p].op = "transfer" /\ t = d)
      <3>1. transfers'[t] = tr
        BY <1>6, <2>3
      <3>2. ASSUME NEW w \in Warehouses PROVE MovedIn(t, ledger'[w]) = MovedIn(t, ledger[w])
        <4>1. tx[p].log[w] = <<>> \/ \E e \in Entry : tx[p].log[w] = <<e>> /\ e.doc = d
          BY <1>1, <1>3 DEF Scripted, TransferScript, SingleScript, Logged
        <4>2. d # t
          BY <1>3, <2>3 DEF Scripted
        <4>3. ledger[w] \in Seq(Entry) /\ ledger'[w] = ledger[w] \o tx[p].log[w]
          BY <1>1, <1>5
        <4>4. CASE tx[p].log[w] = <<>>
          BY <4>3, <4>4
        <4>5. CASE \E e \in Entry : tx[p].log[w] = <<e>> /\ e.doc = d
          <5>1. PICK e \in Entry : tx[p].log[w] = <<e>> /\ e.doc = d
            BY <4>5
          <5>2. MovedIn(t, ledger[w] \o <<e>>) = MovedIn(t, ledger[w]) + (IF e.doc = t THEN e.change ELSE 0)
            BY <4>3, MovedInFact
          <5>3. MovedIn(t, ledger[w]) \in Int
            BY <4>3, MovedInFact
          <5> QED
            BY <4>2, <4>3, <5>1, <5>2, <5>3
        <4> QED
          BY <4>1, <4>4, <4>5
      <3>3. \A w \in Warehouses : MovedBy(t, w)' = MovedBy(t, w)
        BY <3>2 DEF MovedBy
      <3>4. tr.from \in Warehouses /\ tr.to \in Warehouses
        BY <1>5
      <3>5. MovedBy(t, tr.from)' = MovedBy(t, tr.from) /\ MovedBy(t, tr.to)' = MovedBy(t, tr.to)
        BY <3>1, <3>2, <3>4 DEF MovedBy
      <3> QED
        BY <2>1, <3>1, <3>3, <3>5 DEF TransferKept
    <2> QED
      BY <2>2, <2>3
  <1> QED
    BY <1>7, <1>8

LEMMA TransferCreate ==
  ASSUME TransferInv, IInv', NEW t \in Transfers, CreateTransfer(t)
  PROVE  TransferInv'
  <1> USE DEF TransferInv
  <1>1. PICK from \in Warehouses, to \in Warehouses, q \in 1..MaxQty :
          /\ from # to
          /\ transfers' = [transfers EXCEPT ![t] =
                             [status |-> "draft", from |-> from, to |-> to, qty |-> q]]
    BY DEF CreateTransfer
  <1>2. transfers[t].status = "none" /\ UNCHANGED stockVars /\ transfers \in [Transfers -> Transfer]
    BY DEF CreateTransfer, IInv, TypeOK
  <1>3. \A u \in Transfers : u # t => transfers'[u] = transfers[u]
    BY <1>1, <1>2
  <1>4. ScriptsOK'
    <2>1. \A u \in Transfers :
            transfers[u].status # "none" => SameLine(transfers[u], transfers'[u])
      BY <1>2, <1>3 DEF SameLine
    <2> QED
      BY <1>2, <2>1, OthersScripted DEF ScriptsOK, stockVars
  <1>5. TransfersOK'
    <2> SUFFICES ASSUME NEW u \in Transfers PROVE TransferKept(u, transfers[u])'
      BY DEF TransfersOK
    <2>1. TransferKept(u, transfers[u]) /\ ledger' = ledger
      BY <1>2 DEF TransfersOK, stockVars
    <2>2. CASE u # t
      BY <1>3, <2>1, <2>2 DEF TransferKept, MovedBy
    <2>3. CASE u = t
      <3>1. /\ transfers'[t].status = "draft" /\ transfers'[t].from # transfers'[t].to
            /\ transfers'[t].from \in Warehouses /\ transfers'[t].to \in Warehouses
        BY <1>1, <1>2
      <3>2. \A w \in Warehouses : MovedIn(t, ledger[w]) = 0
        BY <1>2, <2>1, <2>3 DEF TransferKept, MovedBy
      <3> QED
        BY <2>1, <2>3, <3>1, <3>2 DEF TransferKept, MovedBy
    <2> QED
      BY <2>2, <2>3
  <1> QED
    BY <1>4, <1>5

LEMMA TransferInit == Init /\ IInv => TransferInv
  <1> SUFFICES ASSUME Init, IInv PROVE TransferInv
    OBVIOUS
  <1>1. ScriptsOK
    BY IdleFact DEF Init, StockInit, ScriptsOK
  <1>2. ASSUME NEW t \in Transfers PROVE TransferKept(t, transfers[t])
    <2>1. transfers[t].status = "none"
      BY NoTransferFact DEF Init
    <2>2. \A w \in Warehouses : MovedBy(t, w) = 0
      BY MovedInFact, EmptySeq DEF Init, StockInit, MovedBy
    <2> QED
      BY <2>1, <2>2 DEF TransferKept
  <1> QED
    BY <1>1, <1>2 DEF TransferInv, TransfersOK

-----------------------------------------------------------------------------
LEMMA DivBounds ==
  ASSUME NEW a \in Int, NEW b \in Int, b > 0
  PROVE  a \div b \in Int /\ b * (a \div b) <= a /\ a < b * (a \div b) + b
  OBVIOUS

(* A product keeps the order of its other factor. *)
LEMMA ProductOrder ==
  ASSUME NEW n \in Int, n >= 0, NEW x \in Int, NEW y \in Int, x <= y
  PROVE  n * x \in Int /\ n * y \in Int /\ n * x <= n * y
  OBVIOUS

LEMMA ProductLess ==
  ASSUME NEW n \in Int, n > 0, NEW x \in Int, NEW y \in Int, n * x < n * y
  PROVE  x < y
  OBVIOUS

(* Rounding stays on the side of a whole number the exact quotient is on.  *)
LEMMA RoundedBetween ==
  ASSUME NEW a \in Int, NEW n \in Int, n > 0, NEW c \in Int
  PROVE  /\ a <= n * c => DivRound(a, n) <= c
         /\ n * c <= a => c <= DivRound(a, n)
  <1> DEFINE q == DivRound(a, n)
  <1>1. q \in Int /\ (2 * n) * q <= 2 * a + n /\ 2 * a + n < (2 * n) * q + 2 * n
    <2>1. 2 * a + n \in Int /\ 2 * n \in Int /\ 2 * n > 0
      OBVIOUS
    <2> QED
      BY <2>1, DivBounds DEF DivRound
  <1> HIDE DEF q
  <1> DEFINE u == n * q  v == n * c
  <1>2. u \in Int /\ v \in Int /\ (2 * n) * q = 2 * u
    BY <1>1
  <1>3. n * (q + 1) = u + n /\ n * (c + 1) = v + n
    BY <1>1
  <1>4. ASSUME a <= n * c PROVE q <= c
    <2>1. 2 * u <= 2 * v + n
      <3> HIDE DEF u, v
      <3>1. a <= v
        BY <1>4 DEF v
      <3> QED
        BY <1>1, <1>2, <3>1
    <2>2. u < v + n
      <3> HIDE DEF u, v
      <3> QED
        BY <1>2, <2>1
    <2>3. n * q < n * (c + 1)
      BY <1>3, <2>2
    <2>4. q < c + 1
      BY <1>1, <2>3, ProductLess
    <2> QED
      BY <1>1, <2>4
  <1>5. ASSUME n * c <= a PROVE c <= q
    <2>1. 2 * v + n < 2 * u + 2 * n
      <3> HIDE DEF u, v
      <3>1. v <= a
        BY <1>5 DEF v
      <3> QED
        BY <1>1, <1>2, <3>1
    <2>2. v < u + n
      <3> HIDE DEF u, v
      <3> QED
        BY <1>2, <2>1
    <2>3. n * c < n * (q + 1)
      BY <1>3, <2>2
    <2>4. c < q + 1
      BY <1>1, <2>3, ProductLess
    <2> QED
      BY <1>1, <2>4
  <1> QED
    BY <1>4, <1>5 DEF q

(* A moving average lies between the two costs it mixes. *)
LEMMA AverageBetween ==
  ASSUME NEW onHand \in Int, onHand >= 0, NEW cost \in Int,
         NEW qty \in Int, qty > 0, NEW unit \in Int, NEW c \in Int
  PROVE  /\ cost <= c /\ unit <= c => MovingAverage(onHand, cost, qty, unit) <= c
         /\ (onHand = 0 \/ c <= cost) /\ c <= unit
              => c <= MovingAverage(onHand, cost, qty, unit)
  <1> DEFINE n == onHand + qty  a == onHand * cost + qty * unit
  <1>1. n \in Int /\ n > 0 /\ a \in Int
    OBVIOUS
  <1>2. MovingAverage(onHand, cost, qty, unit) = DivRound(a, n)
    BY DEF MovingAverage
  <1>3. n * c = onHand * c + qty * c /\ onHand * c \in Int /\ qty * c \in Int
    OBVIOUS
  <1>4. cost <= c /\ unit <= c => a <= n * c
    <2> HAVE cost <= c /\ unit <= c
    <2>1. onHand * cost <= onHand * c /\ qty * unit <= qty * c
      BY ProductOrder
    <2>2. onHand * cost \in Int /\ qty * unit \in Int
      OBVIOUS
    <2> QED
      BY <1>3, <2>1, <2>2
  <1>5. (onHand = 0 \/ c <= cost) /\ c <= unit => n * c <= a
    <2> HAVE (onHand = 0 \/ c <= cost) /\ c <= unit
    <2>1. onHand * c <= onHand * cost
      <3>1. CASE onHand = 0
        BY <3>1
      <3>2. CASE c <= cost
        BY <3>2, ProductOrder
      <3> QED
        BY <3>1, <3>2
    <2>2. qty * c <= qty * unit
      BY ProductOrder
    <2>3. onHand * cost \in Int /\ qty * unit \in Int
      OBVIOUS
    <2> QED
      BY <1>3, <2>1, <2>2, <2>3
  <1> HIDE DEF n, a
  <1> QED
    BY <1>1, <1>2, <1>4, <1>5, RoundedBetween

-----------------------------------------------------------------------------
Low(c) == \E k \in Costs : k <= c
High(c) == \E k \in Costs : c <= k

(* A count has put stock where there was less, in a committed entry, or in *)
(* one of transaction p.                                                   *)
Raises(e) == e.doc \in Sessions /\ e.change > 0
Raised == \E w \in Warehouses : \E i \in 1..Len(ledger[w]) : Raises(ledger[w][i])
RaisedBy(p) == \E w \in Warehouses : \E i \in 1..Len(tx[p].log[w]) : Raises(tx[p].log[w][i])

LowFor(p, c) == Low(c) \/ Raised \/ RaisedBy(p)

(* The costs a transaction has seen and written.  The source of a transfer *)
(* keeps a cost that the destination may take, though no stock is left.    *)
Priced(p) ==
  /\ High(tx[p].seen.cost)
  /\ tx[p].seen.onHand > 0 => LowFor(p, tx[p].seen.cost)
  /\ \A w \in Warehouses : holder[w] = p =>
       /\ High(tx[p].own[w].cost)
       /\ tx[p].own[w].onHand > 0 \/ tx[p].op = "transfer" => LowFor(p, tx[p].own[w].cost)

PricesOK ==
  /\ \A w \in Warehouses :
       /\ High(balance[w].cost)
       /\ balance[w].onHand > 0 => Low(balance[w].cost) \/ Raised
  /\ \A p \in Workers : tx[p].step = "running" => Priced(p)

PriceInv == TransferInv /\ (PreventNegative => PricesOK)

LEMMA HighBoth ==
  ASSUME NEW a \in Int, NEW b \in Int, High(a), High(b)
  PROVE  \E k \in Costs : k \in Int /\ a <= k /\ b <= k
  <1>1. PICK k1 \in Costs, k2 \in Costs : a <= k1 /\ b <= k2
    BY DEF High
  <1>2. k1 \in Int /\ k2 \in Int
    BY StockAssumption
  <1> QED
    BY <1>1, <1>2

LEMMA LowBoth ==
  ASSUME NEW a \in Int, NEW b \in Int, Low(a), Low(b)
  PROVE  \E k \in Costs : k \in Int /\ k <= a /\ k <= b
  <1>1. PICK k1 \in Costs, k2 \in Costs : k1 <= a /\ k2 <= b
    BY DEF Low
  <1>2. k1 \in Int /\ k2 \in Int
    BY StockAssumption
  <1> QED
    BY <1>1, <1>2

LEMMA NoRowPriced == High(NoRow.cost) /\ NoRow.onHand = 0
  <1>1. PICK k \in Costs : k \in Nat
    BY StockAssumption
  <1>2. 0 <= k
    BY <1>1
  <1> QED
    BY <1>2 DEF High, NoRow

LEMMA OthersPriced ==
  ASSUME NEW q \in Workers, Priced(q), tx'[q] = tx[q],
         \A w \in Warehouses : holder'[w] = q <=> holder[w] = q, Raised => Raised'
  PROVE  Priced(q)'
  <1>1. \A c : LowFor(q, c) => LowFor(q, c)'
    BY DEF LowFor, RaisedBy, Low
  <1> QED
    BY <1>1 DEF Priced, High, LowFor, RaisedBy, Low

LEMMA SameRaised == UNCHANGED ledger => (Raised => Raised')
  BY DEF Raised

LEMMA SamePrices ==
  ASSUME PricesOK, UNCHANGED <<balance, ledger>>
  PROVE  \A w \in Warehouses :
           /\ High(balance'[w].cost)
           /\ balance'[w].onHand > 0 => Low(balance'[w].cost) \/ Raised'
  BY SameRaised DEF PricesOK

LEMMA PriceStart ==
  ASSUME PriceInv, TransferInv', NEW p \in Workers, NEW op, NEW doc, NEW script,
         Begin(p, op, doc, script)
  PROVE  PriceInv'
  <1> SUFFICES ASSUME PricesOK PROVE PricesOK'
    BY DEF PriceInv
  <1> USE DEF PriceInv, TransferInv
  <1>1. UNCHANGED <<balance, ledger, holder>>
    BY DEF Begin
  <1>2. \A q \in Workers : q # p => tx'[q] = tx[q]
    BY DEF Begin, IInv, StockInv, StockTypeOK
  <1>3. tx'[p].seen = NoRow
    BY DEF Begin, IInv, StockInv, StockTypeOK
  <1>4. \A w \in Warehouses : holder[w] # p
    BY StockAssumption DEF Begin, IInv, StockInv, StockTypeOK
  <1>5. Priced(p)'
    <2>1. ~(NoRow.onHand > 0)
      BY NoRowPriced
    <2> QED
      BY <1>1, <1>3, <1>4, <2>1, NoRowPriced DEF Priced
  <1>6. \A q \in Workers : tx'[q].step = "running" => Priced(q)'
    BY <1>1, <1>2, <1>5, SameRaised, OthersPriced DEF PricesOK
  <1> QED
    BY <1>1, <1>6, SamePrices DEF PricesOK

LEMMA PriceDiscard ==
  ASSUME PriceInv, TransferInv', NEW p \in Workers, Discard(p)
  PROVE  PriceInv'
  <1> SUFFICES ASSUME PricesOK PROVE PricesOK'
    BY DEF PriceInv
  <1> USE DEF PriceInv, TransferInv
  <1>1. \A q \in Workers : tx'[q] = IF q = p THEN Idle ELSE tx[q]
    BY DEF Discard, IInv, StockInv, StockTypeOK
  <1>2. \A w \in Warehouses, q \in Workers : q # p => (holder'[w] = q <=> holder[w] = q)
    BY StockAssumption DEF Discard
  <1>3. UNCHANGED <<balance, ledger>>
    BY DEF Discard
  <1>4. \A q \in Workers : tx'[q].step = "running" => Priced(q)'
    BY <1>1, <1>2, <1>3, IdleFact, SameRaised, OthersPriced DEF PricesOK
  <1> QED
    BY <1>3, <1>4, SamePrices DEF PricesOK

LEMMA PriceRead ==
  ASSUME PriceInv, TransferInv', NEW p \in Workers, ReadBalance(p)
  PROVE  PriceInv'
  <1> SUFFICES ASSUME PricesOK PROVE PricesOK'
    BY DEF PriceInv
  <1> USE DEF PriceInv, TransferInv
  <1> DEFINE w == Current(p).wh  row == View(p, w)
  <1>1. UNCHANGED <<balance, ledger, holder>>
    BY DEF ReadBalance
  <1>2. \A q \in Workers : q # p => tx'[q] = tx[q]
    BY DEF ReadBalance, IInv, StockInv, StockTypeOK
  <1>3. /\ tx[p].step = "running"
        /\ tx'[p].op = tx[p].op /\ tx'[p].own = tx[p].own /\ tx'[p].log = tx[p].log
        /\ tx'[p].seen = row
    BY DEF ReadBalance, InMovement, Seen, IInv, StockInv, StockTypeOK
  <1>4. w \in Warehouses
    <2>1. Current(p) \in Movement
      BY CurrentFact DEF ReadBalance, IInv
    <2> QED
      BY <2>1, MovementFact
  <1>5. Priced(p)
    BY <1>3 DEF PricesOK
  <1>6. High(row.cost) /\ (row.onHand > 0 => LowFor(p, row.cost))
    BY <1>4, <1>5 DEF View, Priced, PricesOK, LowFor
  <1>7. \A c : LowFor(p, c) => LowFor(p, c)'
    BY <1>1, <1>3 DEF LowFor, Raised, RaisedBy
  <1>8. Priced(p)'
    <2> HIDE DEF w, row
    <2> QED
      BY <1>1, <1>3, <1>5, <1>6, <1>7 DEF Priced
  <1>9. \A q \in Workers : tx'[q].step = "running" => Priced(q)'
    BY <1>1, <1>2, <1>8, SameRaised, OthersPriced DEF PricesOK
  <1> QED
    BY <1>1, <1>9, SamePrices DEF PricesOK

(* The cost a movement writes, from the costs it has seen.                 *)
LEMMA NewCost ==
  ASSUME PreventNegative, PriceInv, NEW p \in Workers, WriteBalance(p),
         Current(p).dir \in {"in", "out", "adjust"}
  PROVE  LET m == Current(p)
             row == NewRow(p, m, tx[p].seen, View(p, m.wh))
         IN  /\ High(row.cost)
             /\ \/ m.dir # "adjust" /\ (row.onHand > 0 \/ tx[p].op = "transfer")
                \/ tx[p].seen.onHand > 0
                => LowFor(p, row.cost)
  <1> USE DEF PriceInv, TransferInv
  <1> DEFINE m == Current(p)
             seen == tx[p].seen
             row == NewRow(p, m, seen, View(p, m.wh))
  <1>1. InMovement(p) /\ tx[p].step = "running" /\ tx[p].read /\ m.dir \in {"in", "out", "adjust"}
    BY DEF WriteBalance, InMovement
  <1>2. m \in Movement /\ seen \in Row /\ row \in Row /\ m.wh \in Warehouses
    BY WriteFact DEF IInv
  <1>3. /\ m.qty \in Int /\ m.qty >= 0 /\ m.cost \in Int /\ m.src \in Warehouses
        /\ seen.onHand \in Int /\ seen.cost \in Int /\ row.onHand \in Int
    BY <1>2, MovementFact DEF Row
  <1>4. seen.onHand >= 0
    BY <1>1 DEF IInv, StockInv, RowsNonNegative
  <1>5. Priced(p) /\ Scripted(p)
    BY <1>1 DEF PricesOK, ScriptsOK
  <1>6. High(seen.cost) /\ (seen.onHand > 0 => LowFor(p, seen.cost))
    BY <1>5 DEF Priced
  <1>7. CASE m.dir = "adjust"
    <2>1. row.cost = seen.cost
      BY <1>7 DEF NewRow
    <2> HIDE DEF m, seen, row
    <2> QED
      BY <1>6, <1>7, <2>1 DEF m, seen, row
  <1>8. CASE m.dir = "out"
    <2>1. row.cost = seen.cost
      BY <1>8 DEF NewRow
    <2>2. ~Blocked(m, seen)
      BY <1>1 DEF IInv, StockInv, Approved
    <2>3. seen.onHand >= m.qty
      BY <1>3, <1>8, <2>2 DEF Blocked
    <2>4. m.qty > 0
      <3>1. CASE tx[p].op = "transfer"
        <4>1. TransferScript(p, transfers[tx[p].doc]) /\ tx[p].doc \in Transfers
          BY <1>5, <3>1 DEF Scripted
        <4> DEFINE tr == transfers[tx[p].doc]
        <4>2. tr.qty \in 1..MaxQty
          BY <4>1 DEF IInv, TypeOK, Transfer
        <4> HIDE DEF tr
        <4>3. tx[p].todo = <<OutOf(tr), Into(tr)>> \/ tx[p].todo = <<Into(tr)>>
          BY <1>1, <4>1 DEF TransferScript, InMovement, tr
        <4>4. m = OutOf(tr) \/ m = Into(tr)
          BY <4>3 DEF Current
        <4>5. m.qty = tr.qty
          BY <4>4 DEF OutOf, Into, Move
        <4> QED
          BY <4>2, <4>5, QtyFact
      <3>2. CASE tx[p].op # "transfer"
        BY <1>1, <1>8, <3>2, CurrentOfScript DEF Plain
      <3> QED
        BY <3>1, <3>2
    <2> HIDE DEF m, seen, row
    <2>5. seen.onHand > 0
      BY <1>3, <2>3, <2>4
    <2> QED
      BY <1>6, <2>1, <2>5 DEF m, seen, row
  <1>9. CASE m.dir = "in"
    <2> DEFINE unit == UnitCost(p, m)
    <2>1. row.cost = MovingAverage(seen.onHand, seen.cost, m.qty, unit)
      BY <1>9 DEF NewRow
    <2>2. m.qty > 0 /\ unit \in Int /\ High(unit) /\ LowFor(p, unit)
      <3>1. CASE tx[p].op = "transfer"
        <4>1. TransferScript(p, transfers[tx[p].doc]) /\ tx[p].doc \in Transfers
          BY <1>5, <3>1 DEF Scripted
        <4> DEFINE tr == transfers[tx[p].doc]
        <4>2. /\ tr.qty \in 1..MaxQty /\ tr.from # tr.to /\ tr.from \in Warehouses
              /\ OutOf(tr).dir = "out"
          BY <4>1 DEF IInv, TypeOK, Transfer, TransfersOK, TransferKept, TransferScript, OutOf, Move
        <4> HIDE DEF tr
        <4>3. /\ tx[p].todo = <<OutOf(tr), Into(tr)>>
                 \/ (tx[p].todo = <<Into(tr)>> /\ holder[tr.from] = p)
          BY <1>1, <4>1 DEF TransferScript, InMovement, tr
        <4>4. m = Into(tr) /\ holder[tr.from] = p
          BY <1>9, <4>2, <4>3 DEF Current
        <4>5. m.qty = tr.qty /\ m.wh = tr.to /\ m.src = tr.from
          BY <4>4 DEF Into
        <4>6. unit = tx[p].own[tr.from].cost
          BY <4>2, <4>4, <4>5 DEF UnitCost, View
        <4>7. High(unit) /\ LowFor(p, unit)
          BY <1>5, <3>1, <4>2, <4>4, <4>6 DEF Priced
        <4>8. unit \in Int
          <5>1. View(p, tr.from) \in Row
            BY <1>1, <4>2, ViewFact DEF IInv
          <5> QED
            BY <4>2, <4>5, <5>1 DEF UnitCost, Row
        <4> QED
          BY <4>2, <4>5, <4>7, <4>8, QtyFact
      <3>2. CASE tx[p].op # "transfer"
        <4>1. m.qty > 0 /\ m.src = m.wh
          BY <1>1, <1>9, <3>2, CurrentOfScript DEF Plain
        <4>2. unit = m.cost /\ m.cost \in Costs
          BY <1>2, <4>1 DEF UnitCost, Movement
        <4> QED
          BY <1>3, <4>1, <4>2 DEF High, LowFor, Low
      <3> QED
        BY <3>1, <3>2
    <2> HIDE DEF m, seen, row, unit
    <2>3. High(row.cost)
      <3>1. PICK k \in Costs : k \in Int /\ seen.cost <= k /\ unit <= k
        BY <1>3, <1>6, <2>2, HighBoth
      <3>2. row.cost <= k
        BY <1>3, <1>4, <2>1, <2>2, <3>1, AverageBetween
      <3> QED
        BY <3>2 DEF High
    <2>4. LowFor(p, row.cost)
      <3>1. CASE Raised \/ RaisedBy(p)
        BY <3>1 DEF LowFor
      <3>2. CASE ~(Raised \/ RaisedBy(p))
        <4>1. Low(unit) /\ (seen.onHand > 0 => Low(seen.cost))
          BY <1>6, <2>2, <3>2 DEF LowFor
        <4>2. PICK k \in Costs : k \in Int /\ k <= unit /\ (seen.onHand = 0 \/ k <= seen.cost)
          <5>1. CASE seen.onHand > 0
            BY <1>3, <2>2, <4>1, <5>1, LowBoth
          <5>2. CASE seen.onHand = 0
            <6>1. PICK k \in Costs : k <= unit
              BY <4>1 DEF Low
            <6> QED
              BY <5>2, <6>1, StockAssumption
          <5> QED
            BY <1>3, <1>4, <5>1, <5>2
        <4>3. (seen.onHand = 0 \/ k <= seen.cost) /\ k <= unit
                => k <= MovingAverage(seen.onHand, seen.cost, m.qty, unit)
          BY <1>3, <1>4, <2>2, <4>2, AverageBetween
        <4>4. k <= row.cost
          BY <2>1, <4>2, <4>3
        <4> QED
          BY <4>4 DEF LowFor, Low
      <3> QED
        BY <3>1, <3>2
    <2> QED
      BY <2>3, <2>4 DEF m, seen, row
  <1> QED
    BY <1>1, <1>7, <1>8, <1>9

LEMMA PriceWrite ==
  ASSUME PriceInv, TransferInv', NEW p \in Workers, WriteBalance(p)
  PROVE  PriceInv'
  <1> SUFFICES ASSUME PreventNegative, PricesOK PROVE PricesOK'
    BY DEF PriceInv
  <1> USE DEF PriceInv, TransferInv
  <1> DEFINE m == Current(p)
             seen == tx[p].seen
             row == NewRow(p, m, seen, View(p, m.wh))
             change == row.onHand - seen.onHand
  <1>1. InMovement(p) /\ tx[p].step = "running"
    BY DEF WriteBalance, InMovement
  <1>2. Scripted(p) /\ m.dir \in {"in", "out", "adjust"}
    BY <1>1, CurrentOfScript
  <1>3. /\ m.wh \in Warehouses /\ row \in Row /\ seen \in Row /\ m \in Movement
        /\ tx[p].read /\ tx[p] \in Running
        /\ \A q \in Workers : q # p => tx'[q] = tx[q]
        /\ tx'[p].op = tx[p].op /\ tx'[p].seen = NoRow
        /\ tx'[p].own = [tx[p].own EXCEPT ![m.wh] = row]
        /\ holder[m.wh] \in {p, NoWorker} /\ holder' = [holder EXCEPT ![m.wh] = p]
        /\ UNCHANGED <<balance, ledger>>
    BY <1>2, WriteFact DEF IInv
  <1>4. PICK e \in Entry : /\ tx'[p].log = [tx[p].log EXCEPT ![m.wh] = @ \o <<e>>]
                           /\ e.doc = tx[p].doc /\ e.change = change
    BY <1>2, WriteFact DEF IInv
  <1>5. Priced(p)
    BY <1>1 DEF PricesOK
  <1>6. /\ High(row.cost)
        /\ m.dir # "adjust" /\ (row.onHand > 0 \/ tx[p].op = "transfer") => LowFor(p, row.cost)
        /\ seen.onHand > 0 => LowFor(p, row.cost)
    BY <1>2, NewCost
  <1>7. m.dir = "adjust" => tx[p].op = "approveCount" /\ tx[p].doc \in Sessions
    <2>1. CASE tx[p].op = "transfer"
      <3>1. TransferScript(p, transfers[tx[p].doc])
        BY <1>2, <2>1 DEF Scripted
      <3> DEFINE tr == transfers[tx[p].doc]
      <3>2. tx[p].todo = <<OutOf(tr), Into(tr)>> \/ tx[p].todo = <<Into(tr)>>
        BY <1>1, <3>1 DEF TransferScript, InMovement
      <3> HIDE DEF tr
      <3>3. m = OutOf(tr) \/ m = Into(tr)
        BY <3>2 DEF Current
      <3> QED
        BY <3>3 DEF OutOf, Into, Move
    <2>2. CASE tx[p].op # "transfer"
      BY <1>1, <2>2, CurrentOfScript DEF Plain
    <2> QED
      BY <2>1, <2>2
  <1>8. row.onHand \in Int /\ seen.onHand \in Int /\ seen.onHand >= 0
    BY <1>1, <1>3 DEF Row, IInv, StockInv, RowsNonNegative
  <1> HIDE DEF m, seen, row, change
  <1>9. \A w \in Warehouses :
          tx'[p].log[w] = IF w = m.wh THEN tx[p].log[w] \o <<e>> ELSE tx[p].log[w]
    BY <1>3, <1>4 DEF Running
  <1>10. \A w \in Warehouses : tx[p].log[w] \in Seq(Entry)
    BY <1>3 DEF Running
  <1>11. RaisedBy(p) => RaisedBy(p)'
    <2>1. \A w \in Warehouses : \A i \in 1..Len(tx[p].log[w]) :
            i \in 1..Len(tx'[p].log[w]) /\ tx'[p].log[w][i] = tx[p].log[w][i]
      <3> SUFFICES ASSUME NEW w \in Warehouses, NEW i \in 1..Len(tx[p].log[w])
                   PROVE  i \in 1..Len(tx'[p].log[w]) /\ tx'[p].log[w][i] = tx[p].log[w][i]
        OBVIOUS
      <3> DEFINE log == tx[p].log[w]
      <3>1. log \in Seq(Entry) /\ i \in 1..Len(log)
        BY <1>10
      <3> HIDE DEF log
      <3>2. i \in 1..Len(log \o <<e>>) /\ (log \o <<e>>)[i] = log[i]
        BY <3>1
      <3> QED
        BY <1>9, <3>2 DEF log
    <2> QED
      BY <2>1 DEF RaisedBy
  <1>12. ASSUME row.onHand > 0 \/ tx[p].op = "transfer"
         PROVE  Low(row.cost) \/ Raised' \/ RaisedBy(p)'
    <2>1. CASE m.dir # "adjust" \/ seen.onHand > 0
      BY <1>3, <1>6, <1>11, <1>12, <2>1, SameRaised DEF LowFor
    <2>2. CASE m.dir = "adjust" /\ ~(seen.onHand > 0)
      <3>1. change > 0 /\ tx[p].doc \in Sessions
        BY <1>7, <1>8, <1>12, <2>2 DEF change
      <3>2. Raises(e)
        BY <1>4, <3>1 DEF Raises
      <3> DEFINE log == tx[p].log[m.wh]
      <3>3. log \in Seq(Entry) /\ tx'[p].log[m.wh] = log \o <<e>>
        BY <1>3, <1>9, <1>10
      <3> HIDE DEF log
      <3>4. Len(log) + 1 \in 1..Len(log \o <<e>>) /\ (log \o <<e>>)[Len(log) + 1] = e
        BY <3>3
      <3>5. RaisedBy(p)'
        BY <1>3, <3>2, <3>3, <3>4 DEF RaisedBy
      <3> QED
        BY <3>5
    <2> QED
      BY <2>1, <2>2
  <1>13. Priced(p)'
    <2>1. High(NoRow.cost) /\ ~(NoRow.onHand > 0)
      BY NoRowPriced
    <2>2. ASSUME NEW w \in Warehouses, holder'[w] = p
          PROVE  /\ High(tx'[p].own[w].cost)
                 /\ tx'[p].own[w].onHand > 0 \/ tx[p].op = "transfer"
                      => Low(tx'[p].own[w].cost) \/ Raised' \/ RaisedBy(p)'
      <3>1. CASE w = m.wh
        <4>1. tx'[p].own[w] = row
          BY <1>3, <3>1 DEF Running
        <4> QED
          BY <1>6, <1>12, <4>1
      <3>2. CASE w # m.wh
        <4>1. tx'[p].own[w] = tx[p].own[w] /\ holder[w] = p
          BY <1>3, <2>2, <3>2 DEF Running, IInv, StockInv, StockTypeOK
        <4> QED
          BY <1>3, <1>5, <1>11, <4>1, SameRaised DEF Priced, LowFor
      <3> QED
        BY <3>1, <3>2
    <2> QED
      BY <1>3, <2>1, <2>2 DEF Priced, High, LowFor, Low
  <1>14. \A w \in Warehouses, q \in Workers : q # p => (holder'[w] = q <=> holder[w] = q)
    BY <1>3, StockAssumption DEF IInv, StockInv, StockTypeOK
  <1>15. \A q \in Workers : tx'[q].step = "running" => Priced(q)'
    BY <1>3, <1>13, <1>14, SameRaised, OthersPriced DEF PricesOK
  <1> QED
    BY <1>3, <1>15, SamePrices DEF PricesOK

LEMMA PriceCommit ==
  ASSUME PriceInv, TransferInv', NEW p \in Workers, Commit(p)
  PROVE  PriceInv'
  <1> SUFFICES ASSUME PricesOK PROVE PricesOK'
    BY DEF PriceInv
  <1> USE DEF PriceInv, TransferInv
  <1>1. /\ tx[p].step = "running"
        /\ \A q \in Workers : tx'[q] = IF q = p THEN Idle ELSE tx[q]
        /\ \A w \in Warehouses : ledger'[w] = ledger[w] \o tx[p].log[w]
        /\ \A w \in Warehouses : balance'[w] = View(p, w)
    BY DEF Commit, CommitStock, IInv, StockInv, StockTypeOK
  <1>2. \A w \in Warehouses, q \in Workers : q # p => (holder'[w] = q <=> holder[w] = q)
    BY StockAssumption DEF Commit, CommitStock
  <1>3. Priced(p) /\ tx[p] \in Running
    BY <1>1, RunningTx DEF PricesOK, IInv, StockInv
  <1>4. ASSUME NEW w \in Warehouses
        PROVE  /\ \A i \in 1..Len(ledger[w]) :
                    i \in 1..Len(ledger'[w]) /\ ledger'[w][i] = ledger[w][i]
               /\ \A i \in 1..Len(tx[p].log[w]) :
                    \E j \in 1..Len(ledger'[w]) : ledger'[w][j] = tx[p].log[w][i]
    <2> DEFINE s == ledger[w]  u == tx[p].log[w]
    <2>1. s \in Seq(Entry) /\ u \in Seq(Entry) /\ ledger'[w] = s \o u
      BY <1>1, <1>3 DEF Running, IInv, StockInv, StockTypeOK
    <2> HIDE DEF s, u
    <2>2. \A i \in 1..Len(s) : i \in 1..Len(s \o u) /\ (s \o u)[i] = s[i]
      BY <2>1
    <2>3. \A i \in 1..Len(u) : Len(s) + i \in 1..Len(s \o u) /\ (s \o u)[Len(s) + i] = u[i]
      BY <2>1
    <2> QED
      BY <2>1, <2>2, <2>3 DEF s, u
  <1>5. Raised => Raised'
    BY <1>4 DEF Raised
  <1>6. RaisedBy(p) => Raised'
    <2> SUFFICES ASSUME NEW w \in Warehouses, NEW i \in 1..Len(tx[p].log[w]),
                        Raises(tx[p].log[w][i])
                 PROVE  Raised'
      BY DEF RaisedBy
    <2>1. PICK j \in 1..Len(ledger'[w]) : ledger'[w][j] = tx[p].log[w][i]
      BY <1>4
    <2> QED
      BY <2>1 DEF Raised
  <1>7. ASSUME NEW w \in Warehouses
        PROVE  /\ High(balance'[w].cost)
               /\ balance'[w].onHand > 0 => Low(balance'[w].cost) \/ Raised'
    <2>1. CASE holder[w] = p
      BY <1>1, <1>3, <1>5, <1>6, <2>1 DEF View, Priced, LowFor
    <2>2. CASE holder[w] # p
      BY <1>1, <1>5, <2>2 DEF View, PricesOK
    <2> QED
      BY <2>1, <2>2
  <1>8. \A q \in Workers : tx'[q].step = "running" => Priced(q)'
    BY <1>1, <1>2, <1>5, IdleFact, OthersPriced DEF PricesOK
  <1> QED
    BY <1>7, <1>8 DEF PricesOK, High, Low

-----------------------------------------------------------------------------
LEMMA PriceInit == Init => PriceInv
  <1> SUFFICES ASSUME Init PROVE PriceInv
    OBVIOUS
  <1>1. TransferInv
    BY InitInv, TransferInit
  <1>2. PricesOK
    <2>1. ~(NoRow.onHand > 0)
      BY NoRowPriced
    <2> QED
      BY <2>1, NoRowPriced, IdleFact DEF Init, StockInit, PricesOK
  <1> QED
    BY <1>1, <1>2 DEF PriceInv

(* A handler that begins anything but a transfer. *)
LEMMA PlainStart ==
  ASSUME PriceInv, IInv', NEW p \in Workers, NEW op \in Ops \ {"transfer"},
         NEW doc \in Docs \ Transfers, NEW script, Begin(p, op, doc, script), UNCHANGED transfers,
         script = <<>> \/ \E m \in Movement : script = <<m>> /\ Plain(op, doc, m)
  PROVE  PriceInv'
  <1>1. script \in Seq(Movement)
    BY Script1, EmptySeq
  <1>2. TransferInv'
    BY <1>1, TransferStart DEF PriceInv
  <1> QED
    BY <1>2, PriceStart

LEMMA PriceNext == PriceInv /\ [Next]_vars => PriceInv'
  <1> SUFFICES ASSUME PriceInv, [Next]_vars PROVE PriceInv'
    OBVIOUS
  <1>1. IInv /\ IInv'
    BY NextInv DEF PriceInv, TransferInv
  <1> USE InventoryAssumption
  <1>2. CASE \E p \in Workers : Receive(p)
    <2>1. PICK p \in Workers, w \in Warehouses, q \in 1..MaxQty, c \in Costs :
            Begin(p, "receive", Purchase, <<Move("in", w, q, c)>>) /\ UNCHANGED transfers
      BY <1>2 DEF Receive
    <2> DEFINE m == Move("in", w, q, c)
    <2>2. q \in 0..MaxQty /\ q > 0
      BY QtyFact
    <2>3. m \in Movement /\ Plain("receive", Purchase, m)
      BY <2>2, MoveFact DEF Plain, Move
    <2> HIDE DEF m
    <2> QED
      BY <1>1, <2>1, <2>3, PlainStart DEF m
  <1>3. CASE \E p \in Workers : Issue(p)
    <2>1. PICK p \in Workers, w \in Warehouses, q \in 1..MaxQty :
            Begin(p, "issue", Sale, <<Move("out", w, q, AnyCost)>>) /\ UNCHANGED transfers
      BY <1>3 DEF Issue
    <2> DEFINE m == Move("out", w, q, AnyCost)
    <2>2. q \in 0..MaxQty /\ q > 0
      BY QtyFact
    <2>3. m \in Movement /\ Plain("issue", Sale, m)
      BY <2>2, MoveFact, AnyCostFact DEF Plain, Move
    <2> HIDE DEF m
    <2> QED
      BY <1>1, <2>1, <2>3, PlainStart DEF m
  <1>4. CASE \E p \in Workers : Commit(p)
    BY <1>1, <1>4, TransferCommit, PriceCommit DEF PriceInv
  <1>5. CASE \E p \in Workers : StockStep(p)
    <2>1. PICK p \in Workers : StockStep(p)
      BY <1>5
    <2>2. UNCHANGED transfers
      BY <2>1 DEF StockStep
    <2>3. CASE ReadBalance(p)
      BY <1>1, <2>2, <2>3, TransferRead, PriceRead DEF PriceInv
    <2>4. CASE WriteBalance(p)
      BY <1>1, <2>2, <2>4, TransferWrite, PriceWrite DEF PriceInv
    <2>5. CASE Discard(p)
      BY <1>1, <2>2, <2>5, TransferDiscard, PriceDiscard DEF PriceInv
    <2> QED
      BY <2>1, <2>3, <2>4, <2>5
         DEF StockStep, RejectMovement, CreateCollides, DeadlockVictim, Rollback
  <1>6. CASE \E p \in Workers, t \in Transfers : ApproveTransfer(p, t)
    <2>1. PICK p \in Workers, t \in Transfers : ApproveTransfer(p, t)
      BY <1>6
    <2> DEFINE script == <<OutOf(transfers[t]), Into(transfers[t])>>
    <2>2. Begin(p, "transfer", t, script) /\ UNCHANGED transfers /\ transfers[t].status # "none"
      BY <2>1 DEF ApproveTransfer, OutOf, Into
    <2>3. script \in Seq(Movement)
      <3>1. transfers[t] \in Transfer
        BY <1>1 DEF IInv, TypeOK
      <3>2. /\ transfers[t].from \in Warehouses /\ transfers[t].to \in Warehouses
            /\ transfers[t].qty \in 1..MaxQty
        BY <3>1 DEF Transfer
      <3>3. transfers[t].qty \in 0..MaxQty
        BY <3>2
      <3>4. OutOf(transfers[t]) \in Movement /\ Into(transfers[t]) \in Movement
        BY <3>2, <3>3, MoveFact, AnyCostFact DEF OutOf, Into
      <3> QED
        BY <3>4, Script2
    <2> HIDE DEF script
    <2>4. TransferInv'
      BY <1>1, <2>2, <2>3, TransferStart DEF PriceInv, script
    <2> QED
      BY <2>2, <2>4, PriceStart
  <1>7. CASE \E p \in Workers, s \in Sessions :
               OpenSession(p, s) \/ StartCount(p, s) \/ ApproveCount(p, s)
    <2>1. PICK p \in Workers, s \in Sessions :
            OpenSession(p, s) \/ StartCount(p, s) \/ ApproveCount(p, s)
      BY <1>7
    <2> DEFINE m == Move("adjust", SessionWarehouse[s], sessions[s].counted, AnyCost)
    <2>2. m \in Movement
      <3>1. sessions[s].counted \in 0..MaxCount /\ SessionWarehouse[s] \in Warehouses
        BY <1>1 DEF IInv, TypeOK, Session
      <3>2. sessions[s].counted \in 0..MaxQty
        BY <3>1, StockAssumption
      <3> QED
        BY <3>1, <3>2, MoveFact, AnyCostFact
    <2>3. Plain("approveCount", s, m)
      BY DEF Plain, Move
    <2>4. PICK op \in {"openSession", "count", "approveCount"}, script \in {<<>>, <<m>>} :
            /\ Begin(p, op, s, script) /\ UNCHANGED transfers
            /\ script = <<>> \/ op = "approveCount"
      BY <2>1 DEF OpenSession, StartCount, ApproveCount
    <2> HIDE DEF m
    <2>5. op \in Ops \ {"transfer"} /\ s \in Docs \ Transfers
      OBVIOUS
    <2>6. script = <<>> \/ \E n \in Movement : script = <<n>> /\ Plain(op, s, n)
      BY <2>2, <2>3, <2>4
    <2> QED
      BY <1>1, <2>4, <2>5, <2>6, PlainStart
  <1>8. CASE \E t \in Transfers : CreateTransfer(t)
    <2>1. PICK t \in Transfers : CreateTransfer(t)
      BY <1>8
    <2>2. TransferInv'
      BY <1>1, <2>1, TransferCreate DEF PriceInv
    <2>3. UNCHANGED <<balance, ledger, holder, tx>>
      BY <2>1 DEF CreateTransfer, stockVars
    <2>4. PricesOK => PricesOK'
      BY <2>3, SameRaised, OthersPriced, SamePrices DEF PricesOK
    <2> QED
      BY <2>2, <2>4 DEF PriceInv
  <1>9. CASE UNCHANGED vars
    <2>1. UNCHANGED <<balance, ledger, holder, tx, transfers>>
      BY <1>9 DEF vars, stockVars
    <2>2. ScriptsOK'
      BY <2>1, SameLineKept, OthersScripted DEF PriceInv, TransferInv, ScriptsOK, IInv, TypeOK
    <2>3. TransferInv'
      BY <1>1, <2>1, <2>2, SameLedger DEF PriceInv, TransferInv
    <2>4. PricesOK => PricesOK'
      BY <2>1, SameRaised, OthersPriced, SamePrices DEF PricesOK
    <2> QED
      BY <2>3, <2>4 DEF PriceInv
  <1> QED
    BY <1>2, <1>3, <1>4, <1>5, <1>6, <1>7, <1>8, <1>9 DEF Next

LEMMA PriceInvariance == Spec => []PriceInv
  BY PriceInit, PriceNext, PTL DEF Spec

LEMMA Invariance == Spec => []IInv
  BY InitInv, NextInv, PTL DEF Spec

-----------------------------------------------------------------------------
(* Balances, ledger, locks, transactions and documents keep their types.   *)
THEOREM TypeCorrect == Spec => []TypeOK
  <1>1. IInv => TypeOK
    BY DEF IInv
  <1> QED
    BY <1>1, Invariance, PTL

(* With the policy on, no interleaving of receipts, sales, transfers and   *)
(* counts brings a committed balance below zero.                           *)
THEOREM StockStaysNonNegative == Spec => []NonNegative
  <1>1. IInv => NonNegative
    BY DEF IInv, StockInv
  <1> QED
    BY <1>1, Invariance, PTL

(* The balance of a warehouse is the balanceAfter of its last ledger entry *)
(* whatever commits between the SELECT and the UPDATE of a movement.       *)
THEOREM BalanceFollowsLedger == Spec => []BalanceIsLastEntry
  <1>1. IInv => BalanceIsLastEntry
    BY DEF IInv, StockInv
  <1> QED
    BY <1>1, Invariance, PTL

(* A transfer moves all it moves or nothing, whatever crash, rejection,    *)
(* deadlock or second approval comes between its two movements: the ledger *)
(* takes out of the source what it puts into the destination.              *)
THEOREM TransfersAreAtomic == Spec => []TransferAllOrNothing
  <1>1. PriceInv => TransferAllOrNothing
    <2> SUFFICES ASSUME PriceInv, NEW t \in Transfers
                 PROVE  LET tr == transfers[t]
                        IN  /\ MovedBy(t, tr.from) + MovedBy(t, tr.to) = 0
                            /\ tr.status = "received" => MovedBy(t, tr.to) >= tr.qty
                            /\ tr.status = "draft" => MovedBy(t, tr.to) = 0
      BY DEF TransferAllOrNothing
    <2> DEFINE tr == transfers[t]
    <2>1. TransferKept(t, tr) /\ tr.from \in Warehouses /\ tr.to \in Warehouses
      BY DEF PriceInv, TransferInv, TransfersOK, IInv, TypeOK, Transfer
    <2> HIDE DEF tr
    <2>2. CASE tr.status = "none"
      <3>1. MovedBy(t, tr.from) = 0 /\ MovedBy(t, tr.to) = 0
        BY <2>1, <2>2 DEF TransferKept
      <3> QED
        BY <2>2, <3>1 DEF tr
    <2>3. CASE tr.status # "none"
      BY <2>1, <2>3 DEF TransferKept, tr
    <2> QED
      BY <2>2, <2>3
  <1> QED
    BY <1>1, PriceInvariance, PTL

(* The average cost of a stock row in use stays between the lowest and the *)
(* highest unit cost, through rounding, transfers and counts, until a      *)
(* count puts stock where there was less.                                  *)
THEOREM AverageStaysBounded == Spec => []AverageCostBounded
  <1>1. PriceInv => AverageCostBounded
    BY DEF PriceInv, PricesOK, AverageCostBounded, High, Low, Raised, Raises
  <1> QED
    BY <1>1, PriceInvariance, PTL

=============================================================================
