-------------------------------- MODULE Payables --------------------------------
(***************************************************************************)
(* The invoices of suppliers:                                              *)
(* apps/api/src/modules/purchases/invoices/vendor-invoices.service.ts.     *)
(*                                                                         *)
(* post and recordPayment read the invoice before their transaction and    *)
(* write what follows from that reading; the balance of the supplier is    *)
(* incremented and decremented where it stands.  balanceIqd is the total   *)
(* less paidIqd at every write.                                            *)
(*                                                                         *)
(* Two operations never commit.  threeWayMatch stores the discrepancies,   *)
(* an object, in the text column matchDiscrepancy, which Prisma refuses;   *)
(* so no invoice is ever matched or on_hold.  reverse posts an entry with  *)
(* no lines, which post refuses: its amount is zero.                       *)
(*                                                                         *)
(* As built, create asks nextNumber with a sequenceCode and no prefix,     *)
(* which the NOT NULL column document_sequences.prefix refuses: the bills  *)
(* below are those put into the table, or created once a number is drawn.  *)
(***************************************************************************)
EXTENDS Requests, Sequences, Functions

CONSTANTS
  Bills,       \* the references of a supplier's invoices
  BillTotal,   \* totalIqd
  MaxPayments  \* bound: payments of an invoice

ASSUME PayablesAssumption == BillTotal \in Nat \ {0} /\ MaxPayments \in Nat

VARIABLES
  bill,      \* vendor_invoices
  payments,  \* payments[b]: the amounts of its vendor_invoice_payments
  owed       \* the balance of the supplier

payablesTables == <<bill, payments, owed>>
payablesVars == <<payablesTables, call>>

BillRow == [status : {"none", "draft", "posted", "partially_paid", "paid"}, paid : 0..BillTotal]

PayablesCall ==
  [op : {"post"}, doc : Bills]
  \cup [op : {"pay"}, doc : Bills, amount : 1..BillTotal, paid : 0..BillTotal]

PayablesInit ==
  /\ bill = [b \in Bills |-> [status |-> "none", paid |-> 0]]
  /\ payments = [b \in Bills |-> <<>>]
  /\ owed = 0
  /\ CallsInit

-----------------------------------------------------------------------------
(* create: the unique index on supplier and reference admits one, also of  *)
(* two that found none.                                                    *)
CreateBill(b) ==
  /\ bill[b].status = "none"
  /\ bill' = [bill EXCEPT ![b].status = "draft"]
  /\ UNCHANGED <<payments, owed, call>>

StartPostBill(u, b) ==
  /\ bill[b].status = "draft"
  /\ Enter(u, [op |-> "post", doc |-> b])
  /\ UNCHANGED payablesTables

(* The entry, the status, and the supplier's balance. *)
FinishPostBill(u) ==
  /\ call[u].op = "post"
  /\ bill' = [bill EXCEPT ![call[u].doc].status = "posted"]
  /\ owed' = owed + BillTotal
  /\ Leave(u)
  /\ UNCHANGED payments

(* recordPayment of no more than the balance it reads. *)
StartPayment(u, b) ==
  /\ bill[b].status \in {"posted", "partially_paid"}
  /\ \E amount \in 1..(BillTotal - bill[b].paid) :
       Enter(u, [op |-> "pay", doc |-> b, amount |-> amount, paid |-> bill[b].paid])
  /\ UNCHANGED payablesTables

(* Mutant: the amount is added to what is paid by now, not to what the     *)
(* handler checked it against.                                             *)
FinishPayment_Increments(u) ==
  LET b == call[u].doc
      paid == bill[b].paid + call[u].amount
  IN  /\ call[u].op = "pay"
      /\ Len(payments[b]) < MaxPayments
      /\ payments' = [payments EXCEPT ![b] = Append(@, call[u].amount)]
      /\ bill' = [bill EXCEPT ![b] =
                    [status |-> IF paid >= BillTotal THEN "paid" ELSE "partially_paid",
                     paid |-> paid]]
      /\ owed' = owed - call[u].amount
      /\ Leave(u)

(* Mutant: a payment settles the invoice. *)
FinishPayment_Settles(u) ==
  LET b == call[u].doc
  IN  /\ call[u].op = "pay"
      /\ Len(payments[b]) < MaxPayments
      /\ payments' = [payments EXCEPT ![b] = Append(@, call[u].amount)]
      /\ bill' = [bill EXCEPT ![b] = [status |-> "paid", paid |-> BillTotal]]
      /\ owed' = owed - call[u].amount
      /\ Leave(u)

(* The entry, the payment, the invoice and the supplier's balance. *)
FinishPayment(u) ==
  LET b == call[u].doc
      paid == call[u].paid + call[u].amount
  IN  /\ call[u].op = "pay"
      /\ Len(payments[b]) < MaxPayments
      /\ payments' = [payments EXCEPT ![b] = Append(@, call[u].amount)]
      /\ bill' = [bill EXCEPT ![b] =
                    [status |-> IF paid >= BillTotal THEN "paid" ELSE "partially_paid",
                     paid |-> paid]]
      /\ owed' = owed - call[u].amount
      /\ Leave(u)

PayablesFails(u) == Fails(u) /\ UNCHANGED payablesTables

PayablesNext ==
  \/ \E b \in Bills : CreateBill(b)
  \/ \E u \in Users, b \in Bills : StartPostBill(u, b) \/ StartPayment(u, b)
  \/ \E u \in Users : FinishPostBill(u) \/ FinishPayment(u) \/ PayablesFails(u)

PayablesSpec == PayablesInit /\ [][PayablesNext]_payablesVars

-----------------------------------------------------------------------------
(* The tables and the calls keep their types; in particular an invoice is  *)
(* never paid beyond its total, however payments overlap.                  *)
PayablesTypeOK ==
  /\ bill \in [Bills -> BillRow]
  /\ payments \in [Bills -> Seq(1..BillTotal)]
  /\ owed \in Int
  /\ call \in [Users -> PayablesCall \cup {NoCall}]

(* What an invoice counts as paid, its payments cover: overlapping calls   *)
(* may lose the count of a payment, never count one that was not made.     *)
BillPaidIsCovered == \A b \in Bills : bill[b].paid <= SumFunction(payments[b])
=============================================================================
