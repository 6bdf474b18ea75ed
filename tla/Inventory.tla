------------------------------- MODULE Inventory -------------------------------
(***************************************************************************)
(* The documents that move stock in                                        *)
(* apps/api/src/modules/inventory/inventory.service.ts: stock transfers    *)
(* between warehouses and stocktaking sessions, next to the receipts and   *)
(* sales of the other modules, which call move inside a transaction of     *)
(* theirs.  Each handler reads the status of its document before it opens  *)
(* the transaction.                                                        *)
(***************************************************************************)
EXTENDS StockMovement, SequencesExt

CONSTANTS
  Transfers, Sessions,   \* documents, subsets of Docs
  Purchase, Sale,        \* documents of receipts and of sales, in Docs
  SessionWarehouse,      \* the warehouse each session counts
  MaxCount,              \* bound: the largest quantity counted
  MaxEntries             \* bound: entries of a warehouse when a receipt or sale starts

ASSUME InventoryAssumption ==
  /\ Ops = {"receive", "issue", "transfer", "openSession", "count", "approveCount"}
  /\ Warehouses # {}
  /\ Transfers \cup Sessions \cup {Purchase, Sale} \subseteq Docs
  /\ Transfers \cap Sessions = {}
  /\ {Purchase, Sale} \cap (Transfers \cup Sessions) = {}
  /\ SessionWarehouse \in [Sessions -> Warehouses]
  /\ MaxCount \in 0..MaxQty

VARIABLES
  transfers,  \* stock_transfers: status, warehouses and quantity of the line
  sessions    \* stocktaking_sessions with the line of the variant

vars == <<stockVars, transfers, sessions>>

Transfer == [status : {"none", "draft", "received"},
             from : Warehouses, to : Warehouses, qty : 1..MaxQty]
NoTransfer == CHOOSE t \in Transfer : t.status = "none"

Session == [status : {"none", "draft", "counted", "approved"},
            counted : 0..MaxCount, system : Int]
NoSession == [status |-> "none", counted |-> 0, system |-> 0]

Open(s) == sessions[s].status \in {"draft", "counted"}

Move(dir, w, q, c) == [dir |-> dir, wh |-> w, qty |-> q, cost |-> c, src |-> w]
AnyCost == CHOOSE c \in Costs : TRUE

Init ==
  /\ StockInit
  /\ transfers = [t \in Transfers |-> NoTransfer]
  /\ sessions = [s \in Sessions |-> NoSession]

-----------------------------------------------------------------------------
(* A goods receipt or a customer return: one inbound movement. *)
Receive(p) ==
  /\ \E w \in Warehouses, q \in 1..MaxQty, c \in Costs :
       /\ Len(ledger[w]) < MaxEntries
       /\ Begin(p, "receive", Purchase, <<Move("in", w, q, c)>>)
  /\ UNCHANGED <<transfers, sessions>>

(* A POS receipt, an invoice or a delivery: one outbound movement. *)
Issue(p) ==
  /\ \E w \in Warehouses, q \in 1..MaxQty :
       /\ Len(ledger[w]) < MaxEntries
       /\ Begin(p, "issue", Sale, <<Move("out", w, q, AnyCost)>>)
  /\ UNCHANGED <<transfers, sessions>>

CreateTransfer(t) ==
  /\ transfers[t].status = "none"
  /\ \E from, to \in Warehouses, q \in 1..MaxQty :
       /\ from # to
       /\ transfers' = [transfers EXCEPT ![t] =
                          [status |-> "draft", from |-> from, to |-> to, qty |-> q]]
  /\ UNCHANGED <<stockVars, sessions>>

(* approveTransfer finds the draft, then moves the line out of the source  *)
(* and into the destination at the source's average cost.                  *)
ApproveTransfer(p, t) ==
  LET tr == transfers[t]
      in == [dir |-> "in", wh |-> tr.to, qty |-> tr.qty, cost |-> AnyCost, src |-> tr.from]
  IN  /\ tr.status = "draft"
      /\ Begin(p, "transfer", t, <<Move("out", tr.from, tr.qty, AnyCost), in>>)
      /\ UNCHANGED <<transfers, sessions>>

(* createStocktakingSession finds no open session of the warehouse; its    *)
(* INSERT is the commit.  Each call makes a session of its own.            *)
OpenSession(p, s) ==
  /\ sessions[s].status = "none"
  /\ ~\E o \in Sessions : SessionWarehouse[o] = SessionWarehouse[s] /\ Open(o)
  /\ \A q \in Workers : tx[q].step = "running" => tx[q].doc # s
  /\ Begin(p, "openSession", s, <<>>)
  /\ UNCHANGED <<transfers, sessions>>

(* submitStocktakingCount finds the session not yet counted. *)
StartCount(p, s) ==
  /\ sessions[s].status = "draft"
  /\ Begin(p, "count", s, <<>>)
  /\ UNCHANGED <<transfers, sessions>>

(* approveStocktaking finds the counted session with its line; a line      *)
(* without variance is skipped.                                            *)
ApproveCount(p, s) ==
  LET se == sessions[s]
  IN  /\ se.status = "counted"
      /\ Begin(p, "approveCount", s,
               IF se.counted = se.system THEN <<>>
               ELSE <<Move("adjust", SessionWarehouse[s], se.counted, AnyCost)>>)
      /\ UNCHANGED <<transfers, sessions>>

(* The last writes of each transaction, its document's, and the commit.    *)
(* The count is written against the system's quantity of the moment.       *)
Commit(p) ==
  LET d == tx[p].doc
  IN  /\ CommitStock(p)
      /\ transfers' = IF tx[p].op = "transfer"
                        THEN [transfers EXCEPT ![d].status = "received"]
                        ELSE transfers
      /\ CASE tx[p].op = "openSession" ->
                sessions' = [sessions EXCEPT ![d].status = "draft"]
           [] tx[p].op = "count" ->
                \E c \in 0..MaxCount :
                  sessions' = [sessions EXCEPT ![d] =
                    [status |-> "counted", counted |-> c,
                     system |-> balance[SessionWarehouse[d]].onHand]]
           [] tx[p].op = "approveCount" ->
                sessions' = [sessions EXCEPT ![d].status = "approved"]
           [] OTHER -> sessions' = sessions

StockStep(p) ==
  /\ \/ ReadBalance(p) \/ WriteBalance(p)
     \/ RejectMovement(p) \/ CreateCollides(p) \/ DeadlockVictim(p) \/ Rollback(p)
  /\ UNCHANGED <<transfers, sessions>>

Next ==
  \/ \E p \in Workers :
       \/ Receive(p) \/ Issue(p) \/ Commit(p) \/ StockStep(p)
       \/ \E t \in Transfers : ApproveTransfer(p, t)
       \/ \E s \in Sessions : OpenSession(p, s) \/ StartCount(p, s) \/ ApproveCount(p, s)
  \/ \E t \in Transfers : CreateTransfer(t)

Spec == Init /\ [][Next]_vars

(* A handler goes on while it is not waiting; PostgreSQL queues the waits  *)
(* for a row, so a writer gets it in the end, and resolves deadlocks.      *)
(* Nobody has to call a handler, and nothing has to fail.                  *)
Fairness ==
  \A p \in Workers :
    /\ WF_vars(ReadBalance(p) /\ UNCHANGED <<transfers, sessions>>)
    /\ SF_vars(WriteBalance(p) /\ UNCHANGED <<transfers, sessions>>)
    /\ WF_vars(RejectMovement(p) /\ UNCHANGED <<transfers, sessions>>)
    /\ SF_vars(CreateCollides(p) /\ UNCHANGED <<transfers, sessions>>)
    /\ WF_vars(DeadlockVictim(p) /\ UNCHANGED <<transfers, sessions>>)
    /\ WF_vars(Commit(p))

FairSpec == Spec /\ Fairness

-----------------------------------------------------------------------------
(* Stock and documents keep their types. *)
TypeOK ==
  /\ StockTypeOK
  /\ transfers \in [Transfers -> Transfer]
  /\ sessions \in [Sessions -> Session]

(* The quantity document d moved, by the entries of a warehouse.           *)
MovedIn(d, entries) ==
  SumFunction([i \in 1..Len(entries) |->
                 IF entries[i].doc = d THEN entries[i].change ELSE 0])

MovedBy(d, w) == MovedIn(d, ledger[w])

(* A transfer moves all it moves or nothing: no crash, rejection or        *)
(* deadlock leaves goods taken from the source and not put in the          *)
(* destination, and a received transfer has moved its quantity.            *)
TransferAllOrNothing ==
  \A t \in Transfers :
    LET tr == transfers[t]
    IN  /\ MovedBy(t, tr.from) + MovedBy(t, tr.to) = 0
        /\ tr.status = "received" => MovedBy(t, tr.to) >= tr.qty
        /\ tr.status = "draft" => MovedBy(t, tr.to) = 0

(* The average cost of a stock row stays between the lowest and the        *)
(* highest unit cost received, through rounding, transfers and counts; it  *)
(* may fall below the lowest only once a count put stock where there was   *)
(* none, at cost 0.                                                        *)
AverageCostBounded ==
  PreventNegative =>
    \A w \in Warehouses : balance[w].onHand > 0 =>
      /\ \E c \in Costs : balance[w].cost <= c
      /\ \/ \E c \in Costs : c <= balance[w].cost
         \/ \E u \in Warehouses : \E i \in 1..Len(ledger[u]) :
              ledger[u][i].doc \in Sessions /\ ledger[u][i].change > 0

(* Every transaction ends: transfers in opposite directions that wait for  *)
(* each other's rows included.                                             *)
RequestsEnd ==
  \A p \in Workers : tx[p].step = "running" ~> tx[p].step = "idle"

(* The balance is a projection of the ledger: the sum of its changes (the  *)
(* F3 invariant of stock-ledger-balance.e2e-spec.ts).                      *)
BalanceIsLedgerSum ==
  \A w \in Warehouses :
    balance[w].onHand = FoldLeft(LAMBDA sum, e : sum + e.change, 0, ledger[w])
=============================================================================
