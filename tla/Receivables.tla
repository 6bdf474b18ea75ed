------------------------------ MODULE Receivables ------------------------------
(***************************************************************************)
(* The invoices of a customer and the receipts that pay them:              *)
(* modules/sales/invoices/sales-invoices.service.ts and                    *)
(* modules/finance/ar/payment-receipts.service.ts of apps/api/src.         *)
(*                                                                         *)
(* What recordPayment, reverse, create (of a receipt), applyToInvoice and  *)
(* refundOverpayment have read, before their transaction or in it, they    *)
(* write back as an absolute value.  No lock holds an invoice or a receipt *)
(* between the reading and the writing.                                    *)
(*                                                                         *)
(* The database keeps balanceIqd at totalIqd - paidIqd by a CHECK, so a    *)
(* balance is read off what is paid, and a write that says otherwise is    *)
(* refused: reverse, which writes a balance of 0, whatever was paid.       *)
(*                                                                         *)
(* Invoices are on credit: a cash one differs in the accounts of its entry *)
(* and in leaving the customer's balance alone.  Returns cannot be created *)
(* (see the README), so an invoice has none.                               *)
(***************************************************************************)
EXTENDS Requests

CONSTANTS
  SalesInvoices,
  InvoiceTotal,    \* totalIqd
  PaymentReceipts,
  ReceiptAmount,   \* amountIqd
  Amounts,         \* that a caller asks to apply; none but create asks for its sign
  MaxReceived,     \* bound: what an invoice, or by refunds a receipt, gets in all
  MaxTaken         \* bound: what negative amounts take from an invoice, or add to a receipt

ASSUME ReceivablesAssumption ==
  /\ InvoiceTotal \in Nat \ {0}
  /\ ReceiptAmount \in Nat \ {0}
  /\ Amounts \subseteq Int
  /\ MaxReceived \in Nat
  /\ MaxTaken \in Nat

VARIABLES
  invoice,   \* sales_invoices; out: how often its goods went out less how often they came in
  receipt,   \* payment_receipts; refunded: the entries of its refunds
  credit,    \* creditBalanceIqd of the customer
  given      \* given[i]: what the payments and applications of invoice i that committed gave it

receivablesTables == <<invoice, receipt, credit, given>>
receivablesVars == <<receivablesTables, call>>

InvoiceRow == [status : {"none", "draft", "posted", "partially_paid", "paid", "reversed"},
               paid : Int, out : Int]
ReceiptRow == [created : BOOLEAN, unapplied : Int, refunded : Nat]

ReceivablesCall ==
  [op : {"post"}, doc : SalesInvoices, read : {"draft"}]
  \cup [op : {"pay"}, doc : SalesInvoices, amount : Nat, paid : Int,
        read : {"posted", "partially_paid"}]
  \cup [op : {"reverse"}, doc : SalesInvoices, balance : Int,
        read : {"posted", "partially_paid", "paid"}]
  \cup [op : {"receive"}, doc : PaymentReceipts, credit : Int]
  \cup [op : {"applyTo"}, doc : PaymentReceipts, to : SalesInvoices, amount : Int,
        unapplied : Int]
  \cup [op : {"applying", "apply"}, doc : PaymentReceipts, to : SalesInvoices,
        amount : Int, unapplied : Int, paid : Int, credit : Int]
  \cup [op : {"refund", "refunded"}, doc : PaymentReceipts, amount : Nat, unapplied : Int]

ReceivablesInit ==
  /\ invoice = [i \in SalesInvoices |-> [status |-> "none", paid |-> 0, out |-> 0]]
  /\ receipt = [r \in PaymentReceipts |-> [created |-> FALSE, unapplied |-> 0, refunded |-> 0]]
  /\ credit = 0
  /\ given = [i \in SalesInvoices |-> 0]
  /\ CallsInit

Balance(i) == InvoiceTotal - invoice[i].paid

-----------------------------------------------------------------------------
(* createFromOrder and createStandalone. *)
CreateInvoice(i) ==
  /\ invoice[i].status = "none"
  /\ invoice' = [invoice EXCEPT ![i].status = "draft"]
  /\ UNCHANGED <<receipt, credit, given, call>>

(* post, recordPayment and reverse read the invoice. *)
StartPostInvoice(u, i) ==
  /\ invoice[i].status = "draft"
  /\ Enter(u, [op |-> "post", doc |-> i, read |-> invoice[i].status])
  /\ UNCHANGED receivablesTables

StartRecordPayment(u, i) ==
  /\ invoice[i].status \in {"posted", "partially_paid"}
  /\ \E amount \in 1..Balance(i) :
       Enter(u, [op |-> "pay", doc |-> i, amount |-> amount, paid |-> invoice[i].paid,
                 read |-> invoice[i].status])
  /\ UNCHANGED receivablesTables

StartReverseInvoice(u, i) ==
  /\ invoice[i].status \in {"posted", "partially_paid", "paid"}
  /\ Enter(u, [op |-> "reverse", doc |-> i, balance |-> Balance(i),
              read |-> invoice[i].status])
  /\ UNCHANGED receivablesTables

(* The goods leave and the customer owes the total. *)
FinishPostInvoice(u) ==
  LET i == call[u].doc
  IN  /\ call[u].op = "post"
      /\ invoice' = [invoice EXCEPT ![i].status = "posted", ![i].out = @ + 1]
      /\ credit' = credit + InvoiceTotal
      /\ Leave(u)
      /\ UNCHANGED <<receipt, given>>

(* The invoice takes the amount on top of what was paid when it was read.  *)
FinishRecordPayment(u) ==
  LET i == call[u].doc
      paid == call[u].paid + call[u].amount
  IN  /\ call[u].op = "pay"
      /\ given[i] + call[u].amount <= MaxReceived
      /\ given' = [given EXCEPT ![i] = @ + call[u].amount]
      /\ invoice' = [invoice EXCEPT ![i].paid = paid,
                       ![i].status = IF paid = InvoiceTotal THEN "paid" ELSE "partially_paid"]
      /\ credit' = credit - call[u].amount
      /\ Leave(u)
      /\ UNCHANGED receipt

(* The goods come back and the customer owes less by the balance read.     *)
(* The CHECK admits the balance of 0 of an invoice that is paid by now.    *)
FinishReverseInvoice(u) ==
  LET i == call[u].doc
  IN  /\ call[u].op = "reverse"
      /\ Balance(i) = 0
      /\ invoice' = [invoice EXCEPT ![i].status = "reversed", ![i].out = @ - 1]
      /\ credit' = credit - call[u].balance
      /\ Leave(u)
      /\ UNCHANGED <<receipt, given>>

-----------------------------------------------------------------------------
(* create of a receipt reads the balance of the customer. *)
StartReceive(u, r) ==
  /\ ~receipt[r].created
  /\ Enter(u, [op |-> "receive", doc |-> r, credit |-> credit])
  /\ UNCHANGED receivablesTables

(* Nothing is applied: the customer's balance is the one read, less the amount. *)
FinishReceive(u) ==
  LET r == call[u].doc
  IN  /\ call[u].op = "receive"
      /\ ~receipt[r].created
      /\ receipt' = [receipt EXCEPT ![r].created = TRUE, ![r].unapplied = ReceiptAmount]
      /\ credit' = call[u].credit - ReceiptAmount
      /\ Leave(u)
      /\ UNCHANGED <<invoice, given>>

(* A part is applied, of any sign: in the transaction the invoice is read, *)
(* in any status and whatever its balance.                                 *)
ReceiveApplied(u, i) ==
  /\ call[u].op = "receive"
  /\ invoice[i].status # "none"
  /\ \E amount \in {a \in Amounts : a <= ReceiptAmount} :
       Proceed(u, [op |-> "applying", doc |-> call[u].doc, to |-> i, amount |-> amount,
                   unapplied |-> ReceiptAmount, paid |-> invoice[i].paid,
                   credit |-> call[u].credit])
  /\ UNCHANGED receivablesTables

(* applyToInvoice reads the receipt, which must have the amount left ...   *)
StartApply(u, r, i) ==
  /\ receipt[r].created
  /\ \E amount \in {a \in Amounts : a <= receipt[r].unapplied} :
       Enter(u, [op |-> "applyTo", doc |-> r, to |-> i, amount |-> amount,
                 unapplied |-> receipt[r].unapplied])
  /\ UNCHANGED receivablesTables

(* ... and then the invoice.                                               *)
ReadInvoice(u) ==
  LET c == call[u]
  IN  /\ c.op = "applyTo"
      /\ invoice[c.to].status # "none"
      /\ Proceed(u, [op |-> "apply", doc |-> c.doc, to |-> c.to, amount |-> c.amount,
                     unapplied |-> c.unapplied, paid |-> invoice[c.to].paid, credit |-> 0])
      /\ UNCHANGED receivablesTables

(* What an application of an amount gives the invoice. *)
Gives(amount) == IF amount > 0 THEN amount ELSE 0

(* The bounds on what an application may add up to. *)
WithinBounds(i, paid, unapplied, amount) ==
  /\ given[i] + Gives(amount) <= MaxReceived
  /\ paid >= -MaxTaken
  /\ unapplied <= ReceiptAmount + MaxTaken

(* Mutant: the part is taken from the receipt, the whole is counted as paid. *)
FinishApply_CountsWhole(u) ==
  LET c == call[u]
      paid == c.paid + c.unapplied
      unapplied == c.unapplied - c.amount
  IN  /\ c.op \in {"applying", "apply"}
      /\ c.op = "applying" => ~receipt[c.doc].created
      /\ WithinBounds(c.to, paid, unapplied, c.amount)
      /\ given' = [given EXCEPT ![c.to] = @ + Gives(c.amount)]
      /\ invoice' = [invoice EXCEPT ![c.to].paid = paid]
      /\ receipt' = [receipt EXCEPT ![c.doc].created = TRUE, ![c.doc].unapplied = unapplied]
      /\ credit' = IF c.op = "applying" THEN c.credit - ReceiptAmount ELSE credit
      /\ Leave(u)

(* The invoice and the receipt are written from what was read of them; the *)
(* status of the invoice stays.                                            *)
FinishApply(u) ==
  LET c == call[u]
      paid == c.paid + c.amount
      unapplied == c.unapplied - c.amount
  IN  /\ c.op \in {"applying", "apply"}
      /\ c.op = "applying" => ~receipt[c.doc].created
      /\ WithinBounds(c.to, paid, unapplied, c.amount)
      /\ given' = [given EXCEPT ![c.to] = @ + Gives(c.amount)]
      /\ invoice' = [invoice EXCEPT ![c.to].paid = paid]
      /\ receipt' = [receipt EXCEPT ![c.doc].created = TRUE, ![c.doc].unapplied = unapplied]
      /\ credit' = IF c.op = "applying" THEN c.credit - ReceiptAmount ELSE credit
      /\ Leave(u)

(* refundOverpayment: the entry, which is refused unless the amount is     *)
(* positive, commits, then the receipt is written.                         *)
StartRefund(u, r) ==
  /\ receipt[r].created
  /\ \E amount \in 1..receipt[r].unapplied :
       Enter(u, [op |-> "refund", doc |-> r, amount |-> amount,
                 unapplied |-> receipt[r].unapplied])
  /\ UNCHANGED receivablesTables

PostRefund(u) ==
  /\ call[u].op = "refund"
  /\ receipt[call[u].doc].refunded + call[u].amount <= MaxReceived
  /\ receipt' = [receipt EXCEPT ![call[u].doc].refunded = @ + call[u].amount]
  /\ Proceed(u, [call[u] EXCEPT !.op = "refunded"])
  /\ UNCHANGED <<invoice, credit, given>>

FinishRefund(u) ==
  /\ call[u].op = "refunded"
  /\ receipt' = [receipt EXCEPT ![call[u].doc].unapplied = call[u].unapplied - call[u].amount]
  /\ Leave(u)
  /\ UNCHANGED <<invoice, credit, given>>

ReceivablesFails(u) == Fails(u) /\ UNCHANGED receivablesTables

ReceivablesNext ==
  \/ \E i \in SalesInvoices : CreateInvoice(i)
  \/ \E u \in Users, i \in SalesInvoices :
       \/ StartPostInvoice(u, i) \/ StartRecordPayment(u, i) \/ StartReverseInvoice(u, i)
       \/ ReceiveApplied(u, i)
       \/ \E r \in PaymentReceipts : StartApply(u, r, i)
  \/ \E u \in Users, r \in PaymentReceipts : StartReceive(u, r) \/ StartRefund(u, r)
  \/ \E u \in Users :
       \/ ReadInvoice(u) \/ FinishPostInvoice(u) \/ FinishRecordPayment(u)
       \/ FinishReverseInvoice(u) \/ FinishReceive(u) \/ FinishApply(u) \/ PostRefund(u) \/ FinishRefund(u)
       \/ ReceivablesFails(u)

ReceivablesSpec == ReceivablesInit /\ [][ReceivablesNext]_receivablesVars

-----------------------------------------------------------------------------
ReceivablesTypeOK ==
  /\ invoice \in [SalesInvoices -> InvoiceRow]
  /\ receipt \in [PaymentReceipts -> ReceiptRow]
  /\ credit \in Int
  /\ given \in [SalesInvoices -> 0..MaxReceived]
  /\ call \in [Users -> ReceivablesCall \cup {NoCall}]

(* What an invoice counts as paid is covered by the payments and the       *)
(* applications made of it, by one that spends a receipt already spent     *)
(* too: of those that overlap, each writing the sum it has read and added  *)
(* to, some are lost from the count and none is in it twice.               *)
InvoicePaidIsCovered == \A i \in SalesInvoices : invoice[i].paid <= given[i]

(* A reversed invoice stays reversed, whatever receipts are applied to it: *)
(* only a call that had read it before can overwrite its status.           *)
InvoiceSealed ==
  [][\A i \in SalesInvoices :
       /\ invoice[i].status = "reversed"
       /\ Fresh(i, invoice[i].status)
       => invoice'[i].status = "reversed"]_receivablesVars
=============================================================================
