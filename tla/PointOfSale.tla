------------------------------ MODULE PointOfSale ------------------------------
(***************************************************************************)
(* The point of sale, apps/api/src/modules/pos: shifts of one device,      *)
(* receipts sold on line or synchronised from an offline batch, voids,     *)
(* holds and cash movements, on top of InventoryService.move and           *)
(* PostingService.reverseEntry.                                            *)
(*                                                                         *)
(* A receipt is named by the ULID its device gave it: the same receipt is  *)
(* sent again whenever an answer is lost.  A sale, a void and a close read *)
(* what they decide on, then write in a transaction.  The reversal of a    *)
(* void is a transaction of its own, on its own connection: it stays when  *)
(* the void rolls back, and goes on when the void times out.               *)
(*                                                                         *)
(* Numbers are left out: a sale whose number is taken fails like one       *)
(* rolled back.  So are the conflict log, which nothing here reads, and    *)
(* the 24 hours a receipt may be voided in: a void may always be refused.  *)
(***************************************************************************)
EXTENDS StockMovement, FiniteSets, Functions

CONSTANTS
  Ulids,        \* receipts, a subset of Docs
  Opening,      \* the document of goods coming in, in Docs
  Shifts,       \* shifts of the device
  Store,        \* the warehouse of the device
  ShiftOf,      \* the shift of each receipt
  Cash,         \* the cash each receipt is paid with, 0 if by card
  OpeningCash,  \* the cash counted when a shift opens
  MaxCash,      \* bound: cash movements of a shift
  MaxEntries    \* bound: ledger entries when goods come in

ASSUME PosAssumption ==
  /\ Ops = {"receive", "sell", "void"}
  /\ Ulids \cup {Opening} \subseteq Docs
  /\ Opening \notin Ulids
  /\ IsFiniteSet(Ulids)
  /\ Store \in Warehouses
  /\ ShiftOf \in [Ulids -> Shifts]
  /\ Cash \in [Ulids -> Nat]
  /\ {OpeningCash, MaxCash} \subseteq Nat

VARIABLES
  shifts,    \* shifts: status and the cash expected at the close
  receipts,  \* pos_receipts: the status of each receipt
  journal,   \* the entry of each receipt
  reversal,  \* reversal[p]: the entry worker p is reversing for a void
  call,      \* call[p]: a call of p that runs no stock transaction
  cashIn,    \* cash_movements: deposits into the drawer of a shift
  cashOut    \* cash_movements: withdrawals, pickups, petty cash

posVars == <<shifts, receipts, journal, reversal, call, cashIn, cashOut>>
vars == <<stockVars, posVars>>

Shift == [status : {"none", "open", "closed"}, expected : Int]

Status == {"none", "completed", "held", "voided"}

NoReversal == [step |-> "none"]
Reversal == {NoReversal} \cup [step : {"read", "done"}, u : Ulids]

(* next: the sum a close reads next, of four; sum: what it has summed up.  *)
NoCall == [op |-> "idle"]
Call == {NoCall} \cup [op : {"hold", "recall"}, u : Ulids]
                 \cup [op : {"close"}, s : Shifts, next : 1..5, sum : Int]

Free(p) == tx[p].step = "idle" /\ call[p] = NoCall /\ reversal[p] = NoReversal

OpenShifts == {s \in Shifts : shifts[s].status = "open"}

Move(dir, q) ==
  [dir |-> dir, wh |-> Store, qty |-> q, cost |-> CHOOSE c \in Costs : TRUE, src |-> Store]

Init ==
  /\ StockInit
  /\ shifts = [s \in Shifts |-> [status |-> "none", expected |-> 0]]
  /\ receipts = [u \in Ulids |-> "none"]
  /\ journal = [u \in Ulids |-> "none"]
  /\ reversal = [p \in Workers |-> NoReversal]
  /\ call = [p \in Workers |-> NoCall]
  /\ cashIn = [s \in Shifts |-> 0]
  /\ cashOut = [s \in Shifts |-> 0]

-----------------------------------------------------------------------------
(* Goods come in. *)
Receive(p) ==
  /\ Free(p)
  /\ Len(ledger[Store]) < MaxEntries
  /\ \E q \in 1..MaxQty : Begin(p, "receive", Opening, <<Move("in", q)>>)
  /\ UNCHANGED posVars

(* openShift: the partial unique index shifts_one_open_per_device refuses  *)
(* a second open shift.                                                    *)
OpenShift(s) ==
  /\ shifts[s].status = "none"
  /\ OpenShifts = {}
  /\ shifts' = [shifts EXCEPT ![s].status = "open"]
  /\ UNCHANGED <<stockVars, receipts, journal, reversal, call, cashIn, cashOut>>

(* createReceipt, directly or from a batch, of a receipt not there yet (one *)
(* that is there is returned): the shift is open, the goods move out.      *)
Sell(p, u) ==
  /\ Free(p)
  /\ receipts[u] = "none"
  /\ ShiftOf[u] \in OpenShifts
  /\ Begin(p, "sell", u, <<Move("out", 1)>>)
  /\ UNCHANGED posVars

(* Mutant: no unique index on clientUlid. *)
UlidTaken_NoIndex(u) == FALSE

(* The unique index on clientUlid: a second INSERT waits for the first and *)
(* fails once that is committed.                                           *)
UlidTaken(u) == receipts[u] # "none"

DuplicateRejected(p) ==
  /\ tx[p].step = "running"
  /\ tx[p].op = "sell"
  /\ UlidTaken(tx[p].doc)
  /\ Discard(p)
  /\ UNCHANGED posVars

(* Mutant: the status of the shift is not looked at. *)
Void_AnyShift(p, u) ==
  /\ Free(p)
  /\ receipts[u] = "completed"
  /\ Begin(p, "void", u, <<Move("in", 1)>>)
  /\ UNCHANGED posVars

(* voidReceipt finds the receipt completed and its shift open. *)
Void(p, u) ==
  /\ Free(p)
  /\ receipts[u] = "completed"
  /\ ShiftOf[u] \in OpenShifts
  /\ Begin(p, "void", u, <<Move("in", 1)>>)
  /\ UNCHANGED posVars

(* The goods are back, the entry comes next. *)
AtReversal(p) ==
  /\ tx[p].step = "running"
  /\ tx[p].op = "void"
  /\ tx[p].todo = <<>>
  /\ reversal[p] = NoReversal

(* Mutant: an entry already reversed is reversed again. *)
StartReversal_Again(p) ==
  /\ AtReversal(p)
  /\ reversal' = [reversal EXCEPT ![p] = [step |-> "read", u |-> tx[p].doc]]
  /\ UNCHANGED <<stockVars, shifts, receipts, journal, call, cashIn, cashOut>>

(* reverse finds the entry posted ... *)
StartReversal(p) ==
  /\ AtReversal(p)
  /\ journal[tx[p].doc] = "posted"
  /\ reversal' = [reversal EXCEPT ![p] = [step |-> "read", u |-> tx[p].doc]]
  /\ UNCHANGED <<stockVars, shifts, receipts, journal, call, cashIn, cashOut>>

(* ... or reversed, and the void fails. *)
ReversalRefused(p) ==
  /\ AtReversal(p)
  /\ journal[tx[p].doc] = "reversed"
  /\ Discard(p)
  /\ UNCHANGED posVars

(* The transaction of the reversal commits.  If the void is gone, its      *)
(* handler ends here.                                                      *)
FinishReversal(p) ==
  /\ reversal[p].step = "read"
  /\ journal' = [journal EXCEPT ![reversal[p].u] = "reversed"]
  /\ reversal' = [reversal EXCEPT ![p] =
                    IF tx[p].step = "running" THEN [@ EXCEPT !.step = "done"] ELSE NoReversal]
  /\ UNCHANGED <<stockVars, shifts, receipts, call, cashIn, cashOut>>

(* It fails: a number taken, a closed period, a lost connection. *)
FailReversal(p) ==
  /\ reversal[p].step = "read"
  /\ reversal' = [reversal EXCEPT ![p] = NoReversal]
  /\ IF tx[p].step = "running" THEN Discard(p) ELSE UNCHANGED stockVars
  /\ UNCHANGED <<shifts, receipts, journal, call, cashIn, cashOut>>

(* The last writes of a sale and of a void, and the commit. *)
Commit(p) ==
  LET u == tx[p].doc
  IN  /\ CommitStock(p)
      /\ tx[p].op = "sell" => ~UlidTaken(u)
      /\ tx[p].op = "void" => reversal[p].step = "done"
      /\ receipts' = CASE tx[p].op = "sell" -> [receipts EXCEPT ![u] = "completed"]
                       [] tx[p].op = "void" -> [receipts EXCEPT ![u] = "voided"]
                       [] OTHER -> receipts
      /\ journal' = IF tx[p].op = "sell" THEN [journal EXCEPT ![u] = "posted"] ELSE journal
      /\ reversal' = [reversal EXCEPT ![p] = NoReversal]
      /\ UNCHANGED <<shifts, call, cashIn, cashOut>>

(* The transaction ends early; a reversal under way does not. *)
Abort(p) ==
  /\ Rollback(p)
  /\ reversal' = [reversal EXCEPT ![p] = IF @.step = "read" THEN @ ELSE NoReversal]
  /\ UNCHANGED <<shifts, receipts, journal, call, cashIn, cashOut>>

(* No transaction here writes two rows, so none deadlocks. *)
StockStep(p) ==
  /\ ReadBalance(p) \/ WriteBalance(p) \/ RejectMovement(p) \/ CreateCollides(p)
  /\ UNCHANGED posVars

-----------------------------------------------------------------------------
Enter(p, c) ==
  /\ Free(p)
  /\ call' = [call EXCEPT ![p] = c]
  /\ UNCHANGED <<stockVars, shifts, receipts, journal, reversal, cashIn, cashOut>>

Leave(p) == call' = [call EXCEPT ![p] = NoCall]

(* holdReceipt of a completed receipt without cash; recallReceipt. *)
Hold(p, u) ==
  /\ receipts[u] = "completed"
  /\ Cash[u] = 0
  /\ Enter(p, [op |-> "hold", u |-> u])

Recall(p, u) ==
  /\ receipts[u] = "held"
  /\ Enter(p, [op |-> "recall", u |-> u])

(* They write the status whatever it has become. *)
FinishHold(p) ==
  /\ call[p].op \in {"hold", "recall"}
  /\ receipts' = [receipts EXCEPT ![call[p].u] =
                    IF call[p].op = "hold" THEN "held" ELSE "completed"]
  /\ Leave(p)
  /\ UNCHANGED <<stockVars, shifts, journal, reversal, cashIn, cashOut>>

(* closeShift finds the shift open. *)
Close(p, s) ==
  /\ s \in OpenShifts
  /\ Enter(p, [op |-> "close", s |-> s, next |-> 1, sum |-> OpeningCash])

(* The cash payments of the receipts of shift s with a status. *)
Payments(s, status) ==
  SumFunctionOnSet(Cash, {u \in Ulids : ShiftOf[u] = s /\ receipts[u] = status})

(* The four sums: cash of completed receipts, of voided ones, deposits,    *)
(* withdrawals.                                                            *)
Sum(s, n) ==
  CASE n = 1 -> Payments(s, "completed")
    [] n = 2 -> - Payments(s, "voided")
    [] n = 3 -> cashIn[s]
    [] n = 4 -> - cashOut[s]

SumCash(p) ==
  /\ call[p].op = "close"
  /\ call[p].next <= 4
  /\ call' = [call EXCEPT ![p].next = @ + 1,
                          ![p].sum = @ + Sum(call[p].s, call[p].next)]
  /\ UNCHANGED <<stockVars, shifts, receipts, journal, reversal, cashIn, cashOut>>

(* The cash is counted, a manager asked where the difference is large, and *)
(* the shift written closed whatever it has become.                        *)
FinishClose(p) ==
  /\ call[p].op = "close"
  /\ call[p].next = 5
  /\ shifts' = [shifts EXCEPT ![call[p].s] =
                  [status |-> "closed", expected |-> call[p].sum]]
  /\ Leave(p)
  /\ UNCHANGED <<stockVars, receipts, journal, reversal, cashIn, cashOut>>

(* A close refused for its difference, or a handler that dies. *)
DropCall(p) ==
  /\ call[p] # NoCall
  /\ Leave(p)
  /\ UNCHANGED <<stockVars, shifts, receipts, journal, reversal, cashIn, cashOut>>

(* deposit, withdrawal, pettyCash: the status of the shift is not asked.   *)
(* An interimPickup, of an open shift, is a withdrawal.                    *)
Deposit(s) ==
  /\ shifts[s].status # "none"
  /\ cashIn[s] + cashOut[s] < MaxCash
  /\ cashIn' = [cashIn EXCEPT ![s] = @ + 1]
  /\ UNCHANGED <<stockVars, shifts, receipts, journal, reversal, call, cashOut>>

Withdraw(s) ==
  /\ shifts[s].status # "none"
  /\ cashIn[s] + cashOut[s] < MaxCash
  /\ cashOut' = [cashOut EXCEPT ![s] = @ + 1]
  /\ UNCHANGED <<stockVars, shifts, receipts, journal, reversal, call, cashIn>>

Next ==
  \/ \E p \in Workers :
       \/ Receive(p) \/ StockStep(p) \/ DuplicateRejected(p) \/ Commit(p) \/ Abort(p)
       \/ StartReversal(p) \/ ReversalRefused(p) \/ FinishReversal(p) \/ FailReversal(p)
       \/ FinishHold(p) \/ SumCash(p) \/ FinishClose(p) \/ DropCall(p)
       \/ \E u \in Ulids : Sell(p, u) \/ Void(p, u) \/ Hold(p, u) \/ Recall(p, u)
       \/ \E s \in Shifts : Close(p, s)
  \/ \E s \in Shifts : OpenShift(s) \/ Deposit(s) \/ Withdraw(s)

Spec == Init /\ [][Next]_vars

-----------------------------------------------------------------------------
(* Stock, shifts, receipts and calls keep their types, and a reversal that *)
(* is done belongs to a void still running.                                *)
TypeOK ==
  /\ StockTypeOK
  /\ shifts \in [Shifts -> Shift]
  /\ receipts \in [Ulids -> Status]
  /\ journal \in [Ulids -> {"none", "posted", "reversed"}]
  /\ reversal \in [Workers -> Reversal]
  /\ call \in [Workers -> Call]
  /\ cashIn \in [Shifts -> 0..MaxCash] /\ cashOut \in [Shifts -> 0..MaxCash]
  /\ \A p \in Workers : reversal[p].step = "done" =>
       tx[p].step = "running" /\ tx[p].doc = reversal[p].u

(* The ledger entries that took the goods of receipt u, and brought them   *)
(* back.                                                                   *)
Taken(u) == {i \in DOMAIN ledger[Store] : ledger[Store][i].doc = u /\ ledger[Store][i].change < 0}
Returned(u) == {i \in DOMAIN ledger[Store] : ledger[Store][i].doc = u /\ ledger[Store][i].change > 0}

(* However often a receipt is sent, from two devices or again after a lost *)
(* answer, its goods leave the store once if there is a receipt, and never *)
(* if there is none.                                                       *)
SoldOnce ==
  \A u \in Ulids :
    Cardinality(Taken(u)) = IF receipts[u] = "none" THEN 0 ELSE 1

(* The goods of a receipt come back at most once, and only with its entry  *)
(* reversed: overlapping voids, a void that times out while its reversal   *)
(* goes on, a hold or recall in between change nothing in that.  What      *)
(* keeps a second void out is the row of the balance it has to wait for.   *)
RestoredOnce ==
  \A u \in Ulids :
    /\ Cardinality(Returned(u)) <= 1
    /\ Returned(u) # {} => journal[u] = "reversed"
    /\ receipts[u] = "voided" => Returned(u) # {}

(* Closed, and every call that found it open is over. *)
Sealed(s) ==
  /\ shifts[s].status = "closed"
  /\ \A p \in Workers :
       /\ tx[p].step = "running" /\ tx[p].op \in {"sell", "void"} => ShiftOf[tx[p].doc] # s
       /\ reversal[p] # NoReversal => ShiftOf[reversal[p].u] # s
       /\ call[p].op = "close" => call[p].s # s

(* A sealed shift stays as it was closed: no later call sells or voids in  *)
(* it, reverses an entry of it, opens or closes it again.                  *)
ShiftSealed ==
  [][\A s \in Shifts : Sealed(s) =>
       /\ Sealed(s)'
       /\ shifts'[s] = shifts[s]
       /\ \A u \in Ulids : ShiftOf[u] = s =>
            /\ receipts[u] = "none" <=> receipts'[u] = "none"
            /\ journal'[u] = journal[u]
            /\ Taken(u)' = Taken(u) /\ Returned(u)' = Returned(u)]_vars

(* The cash in the drawer: that of a voided receipt is handed back.  It is *)
(* also what the X and Z reports of the shift expect.                      *)
Drawer(s) == OpeningCash + Payments(s, "completed") + cashIn[s] - cashOut[s]

(* The cash a close expects is the cash in the drawer: the difference it   *)
(* books is cash over or cash missing.  Said of one caller, without races. *)
ExpectedIsDrawer ==
  [][\A s \in Shifts :
       s \in OpenShifts /\ shifts'[s].status = "closed"
         => shifts'[s].expected = Drawer(s)]_shifts
=============================================================================
