----------------------------- MODULE Business_proofs -----------------------------
(***************************************************************************)
(* Proofs about requests that overlap on the documents of the business:    *)
(* sales, deliveries, purchases, assets, staff and accounts.  A handler    *)
(* writes what it has read before, reads in one place what another changes *)
(* elsewhere; each fact is for any users, documents and amounts.           *)
(*                                                                         *)
(* Of each component the invariant that its steps keep, what the reading   *)
(* calls have read, and the theorems about its own specification.          *)
(* Documents_proofs has the other components and the composition.          *)
(***************************************************************************)
EXTENDS Receivables, Delivery, Purchasing, Payables, FixedAssets, HumanResources, Hiring,
        Quotations, JobOrders, GeneralLedger, Budgets, BankReconciliation, Sums

-----------------------------------------------------------------------------
(* The calls of a component, after one of them was written.                *)
LEMMA CallWritten ==
  ASSUME NEW Calls, call \in [Users -> Calls], NEW u \in Users, NEW c \in Calls,
         call' = [call EXCEPT ![u] = c]
  PROVE  /\ call' \in [Users -> Calls]
         /\ \A v \in Users : call'[v] = IF v = u THEN c ELSE call[v]
  OBVIOUS

-----------------------------------------------------------------------------
(* Receivables.                                                            *)

(* What a call has read as paid was given by then.                         *)
Covered(c, gave) ==
  /\ c.op = "pay" => c.paid <= gave[c.doc]
  /\ c.op \in {"applying", "apply"} => c.paid <= gave[c.to]

ReceivablesRowsOK ==
  /\ invoice \in [SalesInvoices -> InvoiceRow]
  /\ receipt \in [PaymentReceipts -> ReceiptRow]
  /\ credit \in Int
  /\ given \in [SalesInvoices -> 0..MaxReceived]

ReceivablesCallsOK ==
  /\ call \in [Users -> ReceivablesCall \cup {NoCall}]
  /\ \A u \in Users : Covered(call[u], given)

ReceivablesInv == ReceivablesRowsOK /\ ReceivablesCallsOK /\ InvoicePaidIsCovered

(* What the handlers write of an invoice and of a receipt fits their rows. *)
LEMMA RowsWritten ==
  ASSUME NEW stands \in {"draft", "paid", "partially_paid"}, NEW paid \in Int,
         NEW unapplied \in Int
  PROVE  /\ \A row \in InvoiceRow :
              /\ [row EXCEPT !.status = stands] \in InvoiceRow
              /\ [row EXCEPT !.paid = paid] \in InvoiceRow
              /\ [row EXCEPT !.paid = paid, !.status = stands] \in InvoiceRow
         /\ \A row \in ReceiptRow :
              [row EXCEPT !.created = TRUE, !.unapplied = unapplied] \in ReceiptRow
  <1>1. ASSUME NEW row \in InvoiceRow
        PROVE  /\ [row EXCEPT !.status = stands] \in InvoiceRow
               /\ [row EXCEPT !.paid = paid] \in InvoiceRow
    BY DEF InvoiceRow
  <1>2. ASSUME NEW row \in InvoiceRow
        PROVE  [row EXCEPT !.paid = paid, !.status = stands] \in InvoiceRow
    BY DEF InvoiceRow
  <1>3. ASSUME NEW row \in ReceiptRow
        PROVE  [row EXCEPT !.created = TRUE, !.unapplied = unapplied] \in ReceiptRow
    BY DEF ReceiptRow
  <1> QED  BY Zenon, <1>1, <1>2, <1>3

(* What was given is not taken back, so what a call has read stays covered *)
(* while others write.                                                     *)
LEMMA ReceivablesCallsKept ==
  ASSUME ReceivablesRowsOK, ReceivablesCallsOK, ReceivablesRowsOK',
         NEW u \in Users, NEW c \in ReceivablesCall \cup {NoCall}, Covered(c, given'),
         call' = [call EXCEPT ![u] = c],
         \A i \in SalesInvoices : given[i] <= given'[i]
  PROVE  ReceivablesCallsOK'
  <1>1. call' \in [Users -> ReceivablesCall \cup {NoCall}]
    BY DEF ReceivablesCallsOK
  <1>2. ASSUME NEW v \in Users  PROVE Covered(call'[v], given')
    <2>1. CASE v = u  BY <2>1 DEF ReceivablesCallsOK
    <2>2. CASE v # u
      <3>1. call'[v] = call[v] /\ call[v] \in ReceivablesCall \cup {NoCall} /\ Covered(call[v], given)
        BY <2>2 DEF ReceivablesCallsOK
      <3> DEFINE d == call[v]
      <3>2. d.op = "pay" => d.doc \in SalesInvoices /\ d.paid \in Int
        BY <3>1 DEF ReceivablesCall, NoCall
      <3>3. d.op \in {"applying", "apply"} => d.to \in SalesInvoices /\ d.paid \in Int
        BY <3>1 DEF ReceivablesCall, NoCall
      <3>4. \A i \in SalesInvoices : given[i] \in Int /\ given'[i] \in Int
        BY DEF ReceivablesRowsOK
      <3> HIDE DEF d
      <3>5. Covered(d, given) => Covered(d, given')  BY <3>2, <3>3, <3>4 DEF Covered
      <3> QED  BY <3>1, <3>5 DEF d
    <2> QED  BY <2>1, <2>2
  <1> QED  BY <1>1, <1>2 DEF ReceivablesCallsOK

LEMMA ReceivablesReads ==
  ASSUME ReceivablesInv, NEW u \in Users, NEW c,
         c \in ReceivablesCall \cup {NoCall}, Covered(c, given), call' = [call EXCEPT ![u] = c],
         UNCHANGED receivablesTables
  PROVE  ReceivablesInv'
  <1>1. ReceivablesRowsOK' /\ InvoicePaidIsCovered'
    BY DEF ReceivablesInv, ReceivablesRowsOK, InvoicePaidIsCovered, receivablesTables
  <1>2. Covered(c, given')  BY DEF Covered, receivablesTables
  <1>3. \A i \in SalesInvoices : given[i] <= given'[i]
    BY DEF ReceivablesInv, ReceivablesRowsOK, receivablesTables
  <1> QED  BY <1>1, <1>2, <1>3, ReceivablesCallsKept DEF ReceivablesInv

LEMMA ReceivablesInductive ==
  ASSUME ReceivablesInv, [ReceivablesNext]_receivablesVars
  PROVE  ReceivablesInv'
  <1> USE ReceivablesAssumption DEF ReceivablesAssumption
  <1>0. /\ \A u \in Users : call[u] \in ReceivablesCall \cup {NoCall}
        /\ \A i \in SalesInvoices : /\ invoice[i] \in InvoiceRow /\ given[i] \in 0..MaxReceived
                                    /\ invoice[i].paid <= given[i]
        /\ \A r \in PaymentReceipts : receipt[r] \in ReceiptRow
        /\ NoCall \in ReceivablesCall \cup {NoCall} /\ Covered(NoCall, given) /\ Covered(NoCall, given')
    BY DEF ReceivablesInv, ReceivablesRowsOK, ReceivablesCallsOK, InvoicePaidIsCovered, Covered,
           NoCall
  <1>1. ASSUME NEW i \in SalesInvoices, CreateInvoice(i)
        PROVE  ReceivablesInv'
    <2> DEFINE row == [invoice[i] EXCEPT !.status = "draft"]
    <2>4. row \in InvoiceRow  BY <1>0 DEF InvoiceRow
    <2>5. invoice' = [invoice EXCEPT ![i] = row]  BY <1>1 DEF CreateInvoice
    <2> HIDE DEF row
    <2>1. ReceivablesRowsOK'
      BY <1>1, <2>4, <2>5 DEF CreateInvoice, ReceivablesInv, ReceivablesRowsOK
    <2>2. InvoicePaidIsCovered'
      BY <1>1, <1>0
      DEF CreateInvoice, ReceivablesInv, ReceivablesRowsOK, InvoicePaidIsCovered, InvoiceRow
    <2>3. ReceivablesCallsOK'
      BY <1>1 DEF CreateInvoice, ReceivablesInv, ReceivablesCallsOK
    <2> QED  BY <2>1, <2>2, <2>3 DEF ReceivablesInv
  <1>2. ASSUME NEW u \in Users, NEW i \in SalesInvoices,
               StartPostInvoice(u, i) \/ StartReverseInvoice(u, i)
        PROVE  ReceivablesInv'
    <2>1. CASE StartPostInvoice(u, i)
      <3> DEFINE c == [op |-> "post", doc |-> i, read |-> invoice[i].status]
      <3>1. c \in ReceivablesCall /\ Covered(c, given)
        BY <2>1 DEF StartPostInvoice, ReceivablesCall, Covered
      <3> QED  BY <2>1, <3>1, ReceivablesReads DEF StartPostInvoice, Enter
    <2>2. CASE StartReverseInvoice(u, i)
      <3>1. Balance(i) \in Int  BY <1>0 DEF Balance, InvoiceRow
      <3> DEFINE c == [op |-> "reverse", doc |-> i, balance |-> Balance(i),
                       read |-> invoice[i].status]
      <3>2. c \in ReceivablesCall /\ Covered(c, given)
        BY <2>2, <3>1 DEF StartReverseInvoice, ReceivablesCall, Covered
      <3> QED  BY <2>2, <3>2, ReceivablesReads DEF StartReverseInvoice, Enter
    <2> QED  BY <1>2, <2>1, <2>2
  <1>3. ASSUME NEW u \in Users, NEW i \in SalesInvoices, StartRecordPayment(u, i)
        PROVE  ReceivablesInv'
    <2>1. PICK amount \in 1..Balance(i) :
            /\ call' = [call EXCEPT ![u] =
                 [op |-> "pay", doc |-> i, amount |-> amount, paid |-> invoice[i].paid,
                  read |-> invoice[i].status]]
      BY <1>3 DEF StartRecordPayment, Enter
    <2>3. amount \in Nat  OBVIOUS
    <2> DEFINE c == [op |-> "pay", doc |-> i, amount |-> amount, paid |-> invoice[i].paid,
                     read |-> invoice[i].status]
    <2>2. c \in ReceivablesCall /\ Covered(c, given) /\ UNCHANGED receivablesTables
      BY <1>3, <1>0, <2>3 DEF StartRecordPayment, ReceivablesCall, Covered, InvoiceRow
    <2> QED  BY <2>1, <2>2, ReceivablesReads
  <1>4. ASSUME NEW u \in Users, NEW r \in PaymentReceipts, StartReceive(u, r)
        PROVE  ReceivablesInv'
    <2> DEFINE c == [op |-> "receive", doc |-> r, credit |-> credit]
    <2>1. c \in ReceivablesCall /\ Covered(c, given)
      BY DEF ReceivablesInv, ReceivablesRowsOK, ReceivablesCall, Covered
    <2> QED  BY <1>4, <2>1, ReceivablesReads DEF StartReceive, Enter
  <1>5. ASSUME NEW u \in Users, NEW r \in PaymentReceipts, StartRefund(u, r)
        PROVE  ReceivablesInv'
    <2>1. PICK amount \in 1..receipt[r].unapplied :
            call' = [call EXCEPT ![u] =
              [op |-> "refund", doc |-> r, amount |-> amount, unapplied |-> receipt[r].unapplied]]
      BY <1>5 DEF StartRefund, Enter
    <2> DEFINE c == [op |-> "refund", doc |-> r, amount |-> amount,
                     unapplied |-> receipt[r].unapplied]
    <2>2. c \in ReceivablesCall /\ Covered(c, given) /\ UNCHANGED receivablesTables
      BY <1>5, <1>0 DEF StartRefund, ReceivablesCall, Covered, ReceiptRow
    <2> QED  BY <2>1, <2>2, ReceivablesReads
  <1>6. ASSUME NEW u \in Users, NEW r \in PaymentReceipts, NEW i \in SalesInvoices,
               StartApply(u, r, i)
        PROVE  ReceivablesInv'
    <2>1. PICK amount \in {a \in Amounts : a <= receipt[r].unapplied} :
            call' = [call EXCEPT ![u] =
              [op |-> "applyTo", doc |-> r, to |-> i, amount |-> amount,
               unapplied |-> receipt[r].unapplied]]
      BY <1>6 DEF StartApply, Enter
    <2> DEFINE c == [op |-> "applyTo", doc |-> r, to |-> i, amount |-> amount,
                     unapplied |-> receipt[r].unapplied]
    <2>2. amount \in Int /\ receipt[r].unapplied \in Int  BY <1>0 DEF ReceiptRow
    <2>3. c \in ReceivablesCall /\ Covered(c, given) /\ UNCHANGED receivablesTables
      BY <1>6, <2>2 DEF StartApply, ReceivablesCall, Covered
    <2> QED  BY <2>1, <2>3, ReceivablesReads
  <1>7. ASSUME NEW u \in Users, NEW op \in {"applying", "apply"}, NEW r \in PaymentReceipts,
               NEW i \in SalesInvoices, NEW a \in Int, NEW unapplied \in Int, NEW was \in Int,
               call' = [call EXCEPT ![u] =
                 [op |-> op, doc |-> r, to |-> i, amount |-> a, unapplied |-> unapplied,
                  paid |-> invoice[i].paid, credit |-> was]],
               UNCHANGED receivablesTables
        PROVE  ReceivablesInv'
    <2> DEFINE c == [op |-> op, doc |-> r, to |-> i, amount |-> a, unapplied |-> unapplied,
                     paid |-> invoice[i].paid, credit |-> was]
    <2>1. c \in ReceivablesCall  BY <1>0 DEF ReceivablesCall, InvoiceRow
    <2>2. Covered(c, given)  BY <1>0 DEF Covered
    <2> QED  BY <1>7, <2>1, <2>2, ReceivablesReads
  <1>8. ASSUME NEW u \in Users, NEW i \in SalesInvoices, ReceiveApplied(u, i)
        PROVE  ReceivablesInv'
    <2>1. call[u].doc \in PaymentReceipts /\ call[u].credit \in Int
      BY <1>8, <1>0 DEF ReceiveApplied, ReceivablesCall, NoCall
    <2>2. PICK a \in {b \in Amounts : b <= ReceiptAmount} :
            call' = [call EXCEPT ![u] =
              [op |-> "applying", doc |-> call[u].doc, to |-> i, amount |-> a,
               unapplied |-> ReceiptAmount, paid |-> invoice[i].paid, credit |-> call[u].credit]]
      BY <1>8 DEF ReceiveApplied, Proceed
    <2>3. a \in Int /\ ReceiptAmount \in Int /\ UNCHANGED receivablesTables
      BY <1>8 DEF ReceiveApplied
    <2> QED  BY <2>1, <2>2, <2>3, <1>7
  <1>9. ASSUME NEW u \in Users, ReadInvoice(u)
        PROVE  ReceivablesInv'
    <2>1. PICK r \in PaymentReceipts, i \in SalesInvoices, a \in Int, n \in Int :
            /\ r = call[u].doc /\ i = call[u].to /\ a = call[u].amount /\ n = call[u].unapplied
      BY <1>9, <1>0 DEF ReadInvoice, ReceivablesCall, NoCall
    <2>2. /\ call' = [call EXCEPT ![u] =
                [op |-> "apply", doc |-> r, to |-> i, amount |-> a, unapplied |-> n,
                 paid |-> invoice[i].paid, credit |-> 0]]
          /\ UNCHANGED receivablesTables /\ "apply" \in {"applying", "apply"} /\ 0 \in Int
      BY <1>9, <2>1 DEF ReadInvoice, Proceed
    <2> QED  BY Zenon, <2>2, <1>7
  <1>10. ASSUME NEW u \in Users, FinishPostInvoice(u) \/ FinishReverseInvoice(u)
        PROVE  ReceivablesInv'
    <2>1. /\ call[u].doc \in SalesInvoices
          /\ call[u].op = "reverse" => call[u].balance \in Int
      BY <1>10, <1>0
      DEF FinishPostInvoice, FinishReverseInvoice, ReceivablesCall, NoCall
    <2>2. ReceivablesRowsOK' /\ InvoicePaidIsCovered'
      BY <1>10, <2>1, <1>0
      DEF FinishPostInvoice, FinishReverseInvoice, ReceivablesInv, ReceivablesRowsOK, InvoiceRow,
          InvoicePaidIsCovered
    <2>3. given' = given  BY <1>10 DEF FinishPostInvoice, FinishReverseInvoice
    <2>4. call' = [call EXCEPT ![u] = NoCall]
      BY <1>10 DEF FinishPostInvoice, FinishReverseInvoice, Leave
    <2>5. \A i \in SalesInvoices : given[i] <= given'[i]  BY <2>3, <1>0
    <2> QED  BY <2>2, <2>4, <2>5, <1>0, ReceivablesCallsKept DEF ReceivablesInv
  <1>11. ASSUME NEW u \in Users, FinishRecordPayment(u)
         PROVE  ReceivablesInv'
    <2> DEFINE i == call[u].doc  a == call[u].amount  paid == call[u].paid
    <2>1. i \in SalesInvoices /\ a \in Nat /\ paid \in Int /\ paid <= given[i]
      <3>1. call[u] \in ReceivablesCall /\ call[u].op = "pay"
        BY <1>11, <1>0 DEF FinishRecordPayment, NoCall
      <3>2. Covered(call[u], given)  BY DEF ReceivablesInv, ReceivablesCallsOK
      <3> QED  BY <3>1, <3>2 DEF ReceivablesCall, Covered
    <2>2. /\ given[i] + a <= MaxReceived
          /\ given' = [given EXCEPT ![i] = @ + a]
          /\ invoice' = [invoice EXCEPT ![i].paid = paid + a,
                           ![i].status = IF paid + a = InvoiceTotal THEN "paid" ELSE "partially_paid"]
          /\ credit' = credit - a
          /\ call' = [call EXCEPT ![u] = NoCall]
          /\ receipt' = receipt
      BY <1>11 DEF FinishRecordPayment, Leave
    <2> HIDE DEF i, a, paid
    <2>5. invoice \in [SalesInvoices -> InvoiceRow] /\ given \in [SalesInvoices -> 0..MaxReceived]
      BY DEF ReceivablesInv, ReceivablesRowsOK
    <2>6. given' \in [SalesInvoices -> 0..MaxReceived]
      BY <2>1, <2>2, <2>5
    <2>7. invoice' \in [SalesInvoices -> InvoiceRow]
      <3> DEFINE stands == IF paid + a = InvoiceTotal THEN "paid" ELSE "partially_paid"
                 row == [invoice[i] EXCEPT !.paid = paid + a, !.status = stands]
      <3>1. stands \in {"draft", "paid", "partially_paid"} /\ paid + a \in Int
        BY <2>1
      <3>2. invoice' = [invoice EXCEPT ![i] = row]  BY Zenon, <2>2
      <3> HIDE DEF stands
      <3>3. row \in InvoiceRow  BY Zenon, <2>1, <1>0, <3>1, RowsWritten
      <3> HIDE DEF row
      <3> QED  BY <2>5, <3>2, <3>3
    <2>8. credit' \in Int  BY <2>1, <2>2 DEF ReceivablesInv, ReceivablesRowsOK
    <2>9. InvoicePaidIsCovered'
      BY <2>1, <2>2, <2>5, <1>0 DEF InvoiceRow, InvoicePaidIsCovered
    <2>3. ReceivablesRowsOK' /\ InvoicePaidIsCovered'
      BY <2>2, <2>6, <2>7, <2>8, <2>9 DEF ReceivablesInv, ReceivablesRowsOK
    <2>4. \A j \in SalesInvoices : given[j] <= given'[j]
      BY <2>1, <2>2, <1>0 DEF ReceivablesInv, ReceivablesRowsOK
    <2> QED  BY <2>2, <2>3, <2>4, <1>0, ReceivablesCallsKept DEF ReceivablesInv
  <1>12. ASSUME NEW u \in Users, FinishReceive(u)
         PROVE  ReceivablesInv'
    <2>1. call[u].doc \in PaymentReceipts /\ call[u].credit \in Int
      BY <1>12, <1>0 DEF FinishReceive, ReceivablesCall, NoCall
    <2>5. receipt' \in [PaymentReceipts -> ReceiptRow]
      <3> DEFINE r == call[u].doc
                 row == [receipt[r] EXCEPT !.created = TRUE, !.unapplied = ReceiptAmount]
      <3>1. ReceiptAmount \in Int  OBVIOUS
      <3>2. row \in ReceiptRow  BY Zenon, <2>1, <1>0, <3>1, RowsWritten
      <3>3. receipt' = [receipt EXCEPT ![r] = row]  BY <1>12 DEF FinishReceive
      <3> HIDE DEF row
      <3> QED  BY <3>2, <3>3 DEF ReceivablesInv, ReceivablesRowsOK
    <2>6. credit' \in Int  BY <1>12, <2>1 DEF FinishReceive
    <2>2. ReceivablesRowsOK' /\ InvoicePaidIsCovered'
      BY <1>12, <2>5, <2>6
      DEF FinishReceive, ReceivablesInv, ReceivablesRowsOK, InvoicePaidIsCovered
    <2>3. \A i \in SalesInvoices : given[i] <= given'[i]  BY <1>12, <1>0 DEF FinishReceive
    <2>4. call' = [call EXCEPT ![u] = NoCall]  BY <1>12 DEF FinishReceive, Leave
    <2> QED  BY <2>2, <2>3, <2>4, <1>0, ReceivablesCallsKept DEF ReceivablesInv
  <1>13. ASSUME NEW u \in Users, FinishApply(u)
         PROVE  ReceivablesInv'
    <2> DEFINE i == call[u].to  r == call[u].doc  paid == call[u].paid  gives == Gives(call[u].amount)
               sum == paid + call[u].amount  left == call[u].unapplied - call[u].amount
    <2>1. /\ i \in SalesInvoices /\ r \in PaymentReceipts /\ call[u].amount \in Int
          /\ paid \in Int /\ paid <= given[i] /\ call[u].unapplied \in Int
          /\ call[u].credit \in Int
      <3>1. call[u] \in ReceivablesCall /\ call[u].op \in {"applying", "apply"}
        BY <1>13, <1>0 DEF FinishApply, NoCall
      <3>2. Covered(call[u], given)  BY DEF ReceivablesInv, ReceivablesCallsOK
      <3> QED  BY <3>1, <3>2 DEF ReceivablesCall, Covered
    <2>2. /\ given[i] + gives <= MaxReceived
          /\ given' = [given EXCEPT ![i] = @ + gives]
          /\ invoice' = [invoice EXCEPT ![i].paid = sum]
          /\ receipt' = [receipt EXCEPT ![r].created = TRUE, ![r].unapplied = left]
          /\ credit' = IF call[u].op = "applying" THEN call[u].credit - ReceiptAmount ELSE credit
          /\ call' = [call EXCEPT ![u] = NoCall]
      BY <1>13 DEF FinishApply, WithinBounds, Leave
    <2>3. credit' \in Int  BY <2>1, <2>2 DEF ReceivablesInv, ReceivablesRowsOK
    <2>4. gives \in Nat /\ sum \in Int /\ left \in Int /\ sum <= given[i] + gives
      BY <2>1, <1>0 DEF Gives
    <2> HIDE DEF i, r, paid, gives, sum, left
    <2>6. /\ invoice \in [SalesInvoices -> InvoiceRow] /\ receipt \in [PaymentReceipts -> ReceiptRow]
          /\ given \in [SalesInvoices -> 0..MaxReceived]
      BY DEF ReceivablesInv, ReceivablesRowsOK
    <2>7. given' \in [SalesInvoices -> 0..MaxReceived]  BY <2>1, <2>2, <2>4, <2>6
    <2>8. invoice' \in [SalesInvoices -> InvoiceRow]
      <3> DEFINE row == [invoice[i] EXCEPT !.paid = sum]
      <3>2. row \in InvoiceRow  BY Zenon, <2>1, <1>0, <2>4, RowsWritten
      <3>3. invoice' = [invoice EXCEPT ![i] = row]  BY <2>2
      <3> HIDE DEF row
      <3> QED  BY <2>6, <3>2, <3>3
    <2>9. receipt' \in [PaymentReceipts -> ReceiptRow]
      <3> DEFINE row == [receipt[r] EXCEPT !.created = TRUE, !.unapplied = left]
      <3>1. row \in ReceiptRow  BY Zenon, <2>1, <1>0, <2>4, RowsWritten
      <3>2. receipt' = [receipt EXCEPT ![r] = row]  BY <2>2
      <3> HIDE DEF row
      <3> QED  BY <2>6, <3>1, <3>2
    <2>10. InvoicePaidIsCovered'
      BY <2>1, <2>2, <2>4, <2>6, <1>0 DEF InvoiceRow, InvoicePaidIsCovered
    <2>11. ReceivablesRowsOK' /\ InvoicePaidIsCovered'
      BY <2>3, <2>7, <2>8, <2>9, <2>10 DEF ReceivablesRowsOK
    <2>5. \A j \in SalesInvoices : given[j] <= given'[j]
      BY <2>1, <2>2, <2>4, <1>0 DEF ReceivablesInv, ReceivablesRowsOK
    <2> QED  BY <2>2, <2>11, <2>5, <1>0, ReceivablesCallsKept DEF ReceivablesInv
  <1>14. ASSUME NEW u \in Users, PostRefund(u) \/ FinishRefund(u)
         PROVE  ReceivablesInv'
    <2> DEFINE c == call[u]
    <2>1. c \in [op : {"refund", "refunded"}, doc : PaymentReceipts, amount : Nat, unapplied : Int]
      BY <1>14, <1>0 DEF PostRefund, FinishRefund, NoCall, ReceivablesCall
    <2>5. PICK row \in ReceiptRow : receipt' = [receipt EXCEPT ![c.doc] = row]
      <3>1. CASE PostRefund(u)
        <4> DEFINE row == [receipt[c.doc] EXCEPT !.refunded = @ + c.amount]
        <4>1. row \in ReceiptRow  BY <2>1, <1>0 DEF ReceiptRow
        <4>2. receipt' = [receipt EXCEPT ![c.doc] = row]  BY <3>1 DEF PostRefund
        <4> QED  BY <4>1, <4>2
      <3>2. CASE FinishRefund(u)
        <4> DEFINE row == [receipt[c.doc] EXCEPT !.unapplied = c.unapplied - c.amount]
        <4>1. row \in ReceiptRow  BY <2>1, <1>0 DEF ReceiptRow
        <4>2. receipt' = [receipt EXCEPT ![c.doc] = row]  BY <3>2 DEF FinishRefund
        <4> QED  BY <4>1, <4>2
      <3> QED  BY <1>14, <3>1, <3>2
    <2>6. UNCHANGED <<invoice, credit, given>>  BY <1>14 DEF PostRefund, FinishRefund
    <2>2. ReceivablesRowsOK' /\ InvoicePaidIsCovered'
      BY <2>5, <2>6 DEF ReceivablesInv, ReceivablesRowsOK, InvoicePaidIsCovered
    <2>3. \A j \in SalesInvoices : given[j] <= given'[j]
      BY <1>14, <1>0 DEF PostRefund, FinishRefund
    <2>4. PICK d \in ReceivablesCall \cup {NoCall} :
            Covered(d, given') /\ call' = [call EXCEPT ![u] = d]
      <3>1. CASE PostRefund(u)
        <4> DEFINE e == [c EXCEPT !.op = "refunded"]
        <4>1. e \in ReceivablesCall /\ Covered(e, given')  BY <2>1 DEF ReceivablesCall, Covered
        <4> QED  BY <3>1, <4>1 DEF PostRefund, Proceed
      <3>2. CASE FinishRefund(u)  BY <3>2, <1>0 DEF FinishRefund, Leave
      <3> QED  BY <1>14, <3>1, <3>2
    <2> QED  BY <2>2, <2>3, <2>4, ReceivablesCallsKept DEF ReceivablesInv
  <1>15. ASSUME NEW u \in Users, ReceivablesFails(u)
         PROVE  ReceivablesInv'
    BY <1>15, <1>0, ReceivablesReads DEF ReceivablesFails, Fails, Leave
  <1>16. CASE UNCHANGED receivablesVars
    BY <1>16
    DEF receivablesVars, receivablesTables, ReceivablesInv, ReceivablesRowsOK, ReceivablesCallsOK,
        Covered, InvoicePaidIsCovered
  <1> QED
    BY <1>1, <1>2, <1>3, <1>4, <1>5, <1>6, <1>8, <1>9, <1>10, <1>11, <1>12, <1>13, <1>14, <1>15,
       <1>16
    DEF ReceivablesNext

LEMMA ReceivablesStart == ReceivablesInit => ReceivablesInv
  BY ReceivablesAssumption
  DEF ReceivablesAssumption, ReceivablesInit, CallsInit, ReceivablesInv, ReceivablesRowsOK,
      ReceivablesCallsOK, Covered, InvoicePaidIsCovered, InvoiceRow, ReceiptRow, NoCall

(* No invoice counts as paid more than the payments and applications made  *)
(* of it, however they overlap, for amounts of any sign and receipts spent *)
(* twice, though each writes back a sum on what it read.                   *)
THEOREM PaidIsCovered == ReceivablesSpec => [](ReceivablesTypeOK /\ InvoicePaidIsCovered)
  <1>1. ReceivablesInit => ReceivablesInv  BY ReceivablesStart
  <1>2. ReceivablesInv /\ [ReceivablesNext]_receivablesVars => ReceivablesInv'
    BY ReceivablesInductive
  <1>3. ReceivablesInv => ReceivablesTypeOK /\ InvoicePaidIsCovered
    BY DEF ReceivablesInv, ReceivablesRowsOK, ReceivablesCallsOK, ReceivablesTypeOK
  <1> QED  BY <1>1, <1>2, <1>3, PTL DEF ReceivablesSpec

LEMMA ReversedStays ==
  ASSUME ReceivablesInv, [ReceivablesNext]_receivablesVars, NEW i \in SalesInvoices,
         invoice[i].status = "reversed", Fresh(i, invoice[i].status)
  PROVE  invoice'[i].status = "reversed"
  <1>0. invoice \in [SalesInvoices -> InvoiceRow]
    BY DEF ReceivablesInv, ReceivablesRowsOK
  <1>1. ASSUME NEW u \in Users, call[u].op \in {"post", "pay"}
        PROVE  call[u].doc # i
    <2>1. call[u] \in ReceivablesCall /\ call[u] # NoCall
      BY <1>1 DEF ReceivablesInv, ReceivablesCallsOK, NoCall
    <2>2. call[u].read \in {"draft", "posted", "partially_paid"}
      BY <1>1, <2>1 DEF ReceivablesCall
    <2> QED  BY <2>1, <2>2 DEF Fresh
  <1>2. ASSUME NEW u \in Users, FinishPostInvoice(u) \/ FinishRecordPayment(u)
        PROVE  invoice'[i] = invoice[i]
    BY <1>0, <1>1, <1>2 DEF FinishPostInvoice, FinishRecordPayment
  <1>3. ASSUME NEW u \in Users, FinishReverseInvoice(u)
        PROVE  invoice'[i].status = "reversed"
    <2>1. CASE call[u].doc # i  BY <1>0, <1>3, <2>1 DEF FinishReverseInvoice
    <2>2. CASE call[u].doc = i
      <3>1. invoice' = [invoice EXCEPT ![i].status = "reversed", ![i].out = @ - 1]
        BY <1>3, <2>2 DEF FinishReverseInvoice
      <3> QED  BY <1>0, <3>1 DEF InvoiceRow
    <2> QED  BY <2>1, <2>2
  <1>4. ASSUME NEW u \in Users, FinishApply(u)
        PROVE  invoice'[i].status = "reversed"
    <2>1. PICK m : invoice' = [invoice EXCEPT ![call[u].to].paid = m]
      BY <1>4 DEF FinishApply
    <2> DEFINE row == [invoice[i] EXCEPT !.paid = m]
    <2>2. row.status = invoice[i].status  BY <1>0 DEF InvoiceRow
    <2>3. invoice'[i] = invoice[i] \/ invoice'[i] = row  BY <1>0, <2>1
    <2> HIDE DEF row
    <2> QED  BY <2>2, <2>3
  <1>5. ASSUME NEW j \in SalesInvoices, CreateInvoice(j)
        PROVE  invoice'[i] = invoice[i]
    BY <1>0, <1>5 DEF CreateInvoice
  <1>6. \/ UNCHANGED invoice
        \/ \E j \in SalesInvoices : CreateInvoice(j)
        \/ \E u \in Users : \/ FinishPostInvoice(u) \/ FinishRecordPayment(u)
                            \/ FinishReverseInvoice(u) \/ FinishApply(u)
    BY Zenon DEF ReceivablesNext, receivablesVars, receivablesTables, StartPostInvoice,
       StartRecordPayment, StartReverseInvoice, ReceiveApplied, StartApply, ReadInvoice,
       StartReceive, StartRefund, FinishReceive, PostRefund, FinishRefund, ReceivablesFails
  <1> QED  BY <1>2, <1>3, <1>4, <1>5, <1>6

-----------------------------------------------------------------------------
(* Deliveries and their returns.                                           *)

LEMMA DeliveryRowsWritten ==
  ASSUME NEW row \in DeliveryRow, NEW stands \in OrderStatus, NEW driver \in BOOLEAN,
         NEW collected \in BOOLEAN, NEW s \in Settlements \cup {None}
  PROVE  /\ [row EXCEPT !.status = stands] \in DeliveryRow
         /\ [row EXCEPT !.status = stands, !.driver = driver, !.collected = collected]
              \in DeliveryRow
         /\ [row EXCEPT !.deposited = TRUE] \in DeliveryRow
         /\ [row EXCEPT !.settledBy = s] \in DeliveryRow
  BY DEF DeliveryRow

LEMMA DeliveryInductive ==
  ASSUME DeliveryTypeOK, [DeliveryNext]_deliveryVars
  PROVE  DeliveryTypeOK'
  <1> USE DeliveryAssumption DEF DeliveryAssumption, NoCall
  <1>0. /\ \A u \in Users : call[u] \in DeliveryCall \cup {NoCall}
        /\ \A d \in Orders : delivery[d] \in DeliveryRow /\ restocks[d] \in 0..MaxRestocks
        /\ \A s \in Settlements : settlement[s] \in SettlementRow /\ Window[s] \in SUBSET Orders
    BY DEF DeliveryTypeOK
  <1>1. ASSUME NEW d \in Orders, CreateDelivery(d)
        PROVE  DeliveryTypeOK'
    <2> DEFINE row == [delivery[d] EXCEPT !.status = "pending_dispatch"]
    <2>1. row \in DeliveryRow  BY <1>0 DEF DeliveryRow, OrderStatus
    <2>2. delivery' = [delivery EXCEPT ![d] = row]  BY <1>1 DEF CreateDelivery
    <2> HIDE DEF row
    <2> QED  BY <1>1, <2>1, <2>2 DEF CreateDelivery, DeliveryTypeOK
  <1>2. ASSUME NEW u \in Users, NEW c \in DeliveryCall \cup {NoCall},
               call' = [call EXCEPT ![u] = c], UNCHANGED deliveryTables
        PROVE  DeliveryTypeOK'
    BY <1>2 DEF DeliveryTypeOK, deliveryTables
  <1>3. ASSUME NEW u \in Users, NEW d \in Orders, StartTransition(u, d)
        PROVE  DeliveryTypeOK'
    <2>1. PICK to \in ValidTransitions(delivery[d].status) \ {"pending_dispatch"} :
            call' = [call EXCEPT ![u] = [op |-> to, doc |-> d, read |-> delivery[d].status]]
      BY <1>3 DEF StartTransition, Enter
    <2>2. to \in OrderStatus
      BY DEF ValidTransitions, OrderStatus
    <2>3. delivery[d].status \in OrderStatus  BY <1>0 DEF DeliveryRow
    <2> DEFINE c == [op |-> to, doc |-> d, read |-> delivery[d].status]
    <2>4. c \in DeliveryCall  BY <2>2, <2>3 DEF DeliveryCall
    <2> QED  BY <1>2, <1>3, <2>1, <2>4 DEF StartTransition
  <1>4. ASSUME NEW u \in Users, NEW d \in Orders, StartDeposit(u, d)
        PROVE  DeliveryTypeOK'
    <2> DEFINE c == [op |-> "deposit", doc |-> d, read |-> "delivered"]
    <2>1. c \in DeliveryCall  BY DEF DeliveryCall, OrderStatus
    <2> QED  BY <1>2, <1>4, <2>1 DEF StartDeposit, Enter
  <1>5. ASSUME NEW u \in Users, NEW s \in Settlements, StartPropose(u, s)
        PROVE  DeliveryTypeOK'
    <2> DEFINE found == {d \in Window[s] : /\ delivery[d].status = "delivered"
                                           /\ delivery[d].collected
                                           /\ delivery[d].settledBy = None}
               c == [op |-> "propose", doc |-> s, found |-> found]
    <2>1. found \in SUBSET Orders  BY <1>0
    <2>2. call' = [call EXCEPT ![u] = c] /\ UNCHANGED deliveryTables
      BY <1>5 DEF StartPropose, Enter
    <2> HIDE DEF found
    <2>3. c \in DeliveryCall  BY <2>1 DEF DeliveryCall
    <2> QED  BY <1>2, <2>2, <2>3
  <1>6. ASSUME NEW u \in Users, NEW s \in Settlements, StartSettlementStep(u, s)
        PROVE  DeliveryTypeOK'
    <2>1. PICK op \in {"approve", "pay", "void"} :
            call' = [call EXCEPT ![u] = [op |-> op, doc |-> s]]
      BY <1>6 DEF StartSettlementStep, Enter
    <2> DEFINE c == [op |-> op, doc |-> s]
    <2>2. c \in DeliveryCall  BY DEF DeliveryCall
    <2> QED  BY <1>2, <1>6, <2>1, <2>2 DEF StartSettlementStep
  <1>7. ASSUME NEW u \in Users, DeliveryFails(u)
        PROVE  DeliveryTypeOK'
    BY <1>2, <1>7 DEF DeliveryFails, Fails, Leave
  <1>8. ASSUME NEW u \in Users,
               FinishTransition(u) \/ FinishDeposit(u) \/ FinishPropose(u) \/ FinishSettlementStep(u)
        PROVE  DeliveryTypeOK'
    <2>1. call' = [call EXCEPT ![u] = NoCall]
      BY Zenon, <1>8
      DEF FinishTransition, FinishDeposit, FinishPropose, FinishSettlementStep, Leave
    <2>2. restocks' \in [Orders -> 0..MaxRestocks]
      <3>1. CASE FinishTransition(u)
        <4>1. PICK d \in Orders, n \in 0..MaxRestocks : restocks' = [restocks EXCEPT ![d] = n]
          <5> DEFINE n == IF call[u].op = "returned" THEN restocks[call[u].doc] + 1
                          ELSE restocks[call[u].doc]
          <5>1. call[u].doc \in Orders
            BY <3>1, <1>0 DEF FinishTransition, DeliveryCall, OrderStatus
          <5>2. n \in 0..MaxRestocks
            BY <3>1, <5>1, <1>0 DEF FinishTransition
          <5>3. restocks' = [restocks EXCEPT ![call[u].doc] = n]
            BY <3>1 DEF FinishTransition
          <5> HIDE DEF n
          <5> QED  BY <5>1, <5>2, <5>3
        <4> QED  BY <4>1 DEF DeliveryTypeOK
      <3>2. CASE FinishDeposit(u) \/ FinishPropose(u) \/ FinishSettlementStep(u)
        BY <3>2 DEF FinishDeposit, FinishPropose, FinishSettlementStep, DeliveryTypeOK
      <3> QED  BY <1>8, <3>1, <3>2
    <2>3. delivery' \in [Orders -> DeliveryRow]
      <3>1. CASE FinishTransition(u)
        <4> DEFINE d == call[u].doc  to == call[u].op
        <4>1. PICK cash \in BOOLEAN :
                delivery' = [delivery EXCEPT ![d].status = to,
                                             ![d].driver = @ \/ to = "assigned",
                                             ![d].collected = IF to = "delivered" THEN cash ELSE @]
          BY <3>1 DEF FinishTransition
        <4>2. d \in Orders /\ to \in OrderStatus
          BY <3>1, <1>0 DEF FinishTransition, DeliveryCall, OrderStatus
        <4> DEFINE driver == delivery[d].driver \/ to = "assigned"
                   collected == IF to = "delivered" THEN cash ELSE delivery[d].collected
                   row == [delivery[d] EXCEPT !.status = to, !.driver = driver,
                                              !.collected = collected]
        <4>3. driver \in BOOLEAN /\ delivery[d].collected \in BOOLEAN
          BY <4>2, <1>0 DEF DeliveryRow
        <4>4. collected \in BOOLEAN  BY <4>3
        <4>5. delivery' = [delivery EXCEPT ![d] = row]  BY <4>1
        <4> HIDE DEF driver, collected, d, to
        <4>6. row \in DeliveryRow  BY Zenon, <4>2, <4>3, <4>4, <1>0, DeliveryRowsWritten
        <4> QED  BY <4>5, <4>6 DEF DeliveryTypeOK
      <3>2. CASE FinishDeposit(u)
        <4> DEFINE d == call[u].doc  row == [delivery[d] EXCEPT !.deposited = TRUE]
        <4>1. d \in Orders  BY <3>2, <1>0 DEF FinishDeposit, DeliveryCall, OrderStatus
        <4>2. row \in DeliveryRow
          <5>1. delivery[d] \in DeliveryRow /\ TRUE \in BOOLEAN  BY <4>1, <1>0
          <5> HIDE DEF d
          <5> QED  BY <5>1 DEF DeliveryRow
        <4>3. delivery' = [delivery EXCEPT ![d] = row]  BY <3>2 DEF FinishDeposit
        <4> HIDE DEF row, d
        <4> QED  BY <4>2, <4>3 DEF DeliveryTypeOK
      <3>3. CASE FinishPropose(u) \/ FinishSettlementStep(u)
        <4>1. \A d \in Orders, s \in Settlements \cup {None} :
                [delivery[d] EXCEPT !.settledBy = s] \in DeliveryRow
          BY <1>0 DEF DeliveryRow
        <4>2. FinishPropose(u) => call[u].doc \in Settlements
          BY <1>0 DEF FinishPropose, DeliveryCall, OrderStatus
        <4> QED  BY <3>3, <4>1, <4>2, <1>0 DEF FinishPropose, FinishSettlementStep
      <3> QED  BY <1>8, <3>1, <3>2, <3>3
    <2>4. settlement' \in [Settlements -> SettlementRow]
      <3>1. CASE FinishTransition(u) \/ FinishDeposit(u)
        BY <3>1 DEF FinishTransition, FinishDeposit, DeliveryTypeOK
      <3>2. CASE FinishPropose(u)
        <4>1. call[u].found \in SUBSET Orders
          BY <3>2, <1>0 DEF FinishPropose, DeliveryCall, OrderStatus
        <4> QED  BY <3>2, <4>1 DEF FinishPropose, SettlementRow, DeliveryTypeOK
      <3>3. CASE FinishSettlementStep(u)
        <4>1. \A s \in Settlements, stands \in {"posted", "paid", "cancelled"} :
                [settlement[s] EXCEPT !.status = stands] \in SettlementRow
          BY <1>0 DEF SettlementRow
        <4>2. call[u].doc \in Settlements
          BY <3>3, <1>0 DEF FinishSettlementStep, DeliveryCall, OrderStatus
        <4>3. PICK stands \in {"posted", "paid", "cancelled"} :
                settlement' = [settlement EXCEPT ![call[u].doc].status = stands]
          BY <3>3 DEF FinishSettlementStep
        <4> DEFINE row == [settlement[call[u].doc] EXCEPT !.status = stands]
        <4>4. row \in SettlementRow  BY <4>1, <4>2
        <4>5. settlement' = [settlement EXCEPT ![call[u].doc] = row]  BY <4>3
        <4> HIDE DEF row
        <4> QED  BY <4>4, <4>5 DEF DeliveryTypeOK
      <3> QED  BY <1>8, <3>1, <3>2, <3>3
    <2> QED  BY <2>1, <2>2, <2>3, <2>4 DEF DeliveryTypeOK
  <1>9. CASE UNCHANGED deliveryVars
    BY <1>9 DEF deliveryVars, deliveryTables, DeliveryTypeOK
  <1> QED
    BY <1>1, <1>3, <1>4, <1>5, <1>6, <1>7, <1>8, <1>9 DEF DeliveryNext

LEMMA DeliveryStart == DeliveryInit => DeliveryTypeOK
  BY DeliveryAssumption
  DEF DeliveryAssumption, DeliveryInit, CallsInit, DeliveryTypeOK, DeliveryRow, SettlementRow,
      NewOrder, OrderStatus, NoCall

(* What a transition writes may follow what its call has read.             *)
Follows(c) == c.op \in OrderStatus => c.op \in ValidTransitions(c.read)

TransitionsFollow == \A u \in Users : Follows(call[u])

LEMMA TransitionsFollowStill ==
  ASSUME DeliveryTypeOK, TransitionsFollow, [DeliveryNext]_deliveryVars
  PROVE  TransitionsFollow'
  <1>0. call \in [Users -> DeliveryCall \cup {NoCall}]  BY DEF DeliveryTypeOK
  <1>1. ASSUME NEW u \in Users, NEW c, Follows(c), call' = [call EXCEPT ![u] = c]
        PROVE  TransitionsFollow'
    BY <1>0, <1>1 DEF TransitionsFollow
  <1>2. ASSUME NEW u \in Users, NEW d \in Orders, StartTransition(u, d)
        PROVE  TransitionsFollow'
    <2>1. PICK to \in ValidTransitions(delivery[d].status) :
            call' = [call EXCEPT ![u] = [op |-> to, doc |-> d, read |-> delivery[d].status]]
      BY <1>2 DEF StartTransition, Enter
    <2> DEFINE c == [op |-> to, doc |-> d, read |-> delivery[d].status]
    <2>3. Follows(c)  BY DEF Follows
    <2> QED  BY <1>1, <2>1, <2>3
  <1>4. ASSUME NEW u \in Users, NEW c, call' = [call EXCEPT ![u] = c],
               c.op \in {"deposit", "propose", "approve", "pay", "void", "idle"}
        PROVE  TransitionsFollow'
    BY <1>1, <1>4 DEF Follows, OrderStatus
  <1>5. ASSUME NEW u \in Users, NEW d \in Orders, StartDeposit(u, d)
        PROVE  TransitionsFollow'
    BY <1>4, <1>5 DEF StartDeposit, Enter
  <1>6. ASSUME NEW u \in Users, NEW s \in Settlements, StartPropose(u, s) \/ StartSettlementStep(u, s)
        PROVE  TransitionsFollow'
    BY <1>4, <1>6 DEF StartPropose, StartSettlementStep, Enter
  <1>7. ASSUME NEW u \in Users, Leave(u)
        PROVE  TransitionsFollow'
    BY <1>4, <1>7 DEF Leave, NoCall
  <1>8. UNCHANGED call => TransitionsFollow'
    BY DEF TransitionsFollow
  <1>9. ASSUME NEW u \in Users,
               \/ FinishTransition(u) \/ FinishDeposit(u) \/ FinishPropose(u)
               \/ FinishSettlementStep(u) \/ DeliveryFails(u)
        PROVE  Leave(u)
    BY Zenon, <1>9 DEF FinishTransition, FinishDeposit, FinishPropose, FinishSettlementStep,
       DeliveryFails, Fails
  <1>10. (\E d \in Orders : CreateDelivery(d)) \/ UNCHANGED deliveryVars => UNCHANGED call
    BY DEF CreateDelivery, deliveryVars
  <1> QED
    BY <1>2, <1>5, <1>6, <1>7, <1>8, <1>9, <1>10 DEF DeliveryNext

LEMMA DeliveredStays ==
  ASSUME DeliveryTypeOK, TransitionsFollow, [DeliveryNext]_deliveryVars, NEW d \in Orders,
         delivery[d].status \in {"delivered", "returned", "cancelled"},
         Fresh(d, delivery[d].status)
  PROVE  delivery'[d].status = delivery[d].status /\ restocks'[d] = restocks[d]
  <1>0. delivery \in [Orders -> DeliveryRow] /\ restocks \in [Orders -> 0..MaxRestocks]
    BY DEF DeliveryTypeOK
  <1>1. ASSUME NEW u \in Users, FinishTransition(u)
        PROVE  call[u].doc # d
    <2>1. call[u].op \in OrderStatus /\ call[u].op # "idle"
      BY <1>1 DEF FinishTransition, OrderStatus
    <2>2. ValidTransitions(call[u].read) # {}
      BY <2>1 DEF TransitionsFollow, Follows
    <2>3. call[u].read \notin {"delivered", "returned", "cancelled"}
      BY <2>2 DEF ValidTransitions
    <2> QED  BY <2>1, <2>3 DEF Fresh, NoCall
  <1>2. ASSUME NEW u \in Users, FinishTransition(u)
        PROVE  delivery'[d] = delivery[d] /\ restocks'[d] = restocks[d]
    BY <1>0, <1>1, <1>2 DEF FinishTransition
  <1>3. ASSUME NEW u \in Users, FinishDeposit(u)
        PROVE  delivery'[d].status = delivery[d].status /\ restocks' = restocks
    <2>1. delivery' = [delivery EXCEPT ![call[u].doc].deposited = TRUE] /\ restocks' = restocks
      BY <1>3 DEF FinishDeposit
    <2>2. delivery[d] \in DeliveryRow  BY <1>0
    <2> QED  BY <1>0, <2>1, <2>2 DEF DeliveryRow
  <1>4. ASSUME NEW u \in Users, FinishPropose(u) \/ FinishSettlementStep(u)
        PROVE  delivery'[d].status = delivery[d].status /\ restocks' = restocks
    <2>1. \A s : [delivery[d] EXCEPT !.settledBy = s].status = delivery[d].status
      BY <1>0 DEF DeliveryRow
    <2>2. /\ \/ delivery'[d] = delivery[d]
             \/ \E s : delivery'[d] = [delivery[d] EXCEPT !.settledBy = s]
          /\ restocks' = restocks
      BY <1>4 DEF FinishPropose, FinishSettlementStep
    <2> QED  BY <2>1, <2>2
  <1>5. ASSUME NEW e \in Orders, CreateDelivery(e)
        PROVE  delivery'[d] = delivery[d] /\ restocks' = restocks
    BY <1>0, <1>5 DEF CreateDelivery
  <1>6. \/ UNCHANGED <<delivery, restocks>>
        \/ \E e \in Orders : CreateDelivery(e)
        \/ \E u \in Users : \/ FinishTransition(u) \/ FinishDeposit(u)
                            \/ FinishPropose(u) \/ FinishSettlementStep(u)
    BY Zenon DEF DeliveryNext, deliveryVars, deliveryTables, StartTransition, StartDeposit, StartPropose,
           StartSettlementStep, DeliveryFails
  <1> QED  BY <1>2, <1>3, <1>4, <1>5, <1>6


-----------------------------------------------------------------------------
(* The settlements of carriers.                                            *)

(* Every step leaves an order with the settlement it named, but proposing, *)
(* which names one that no order named, and voiding, which clears its own. *)
LEMMA SettledInductive ==
  ASSUME DeliveryTypeOK, SettledByLiveOne, [DeliveryNext]_deliveryVars
  PROVE  SettledByLiveOne'
  <1> USE DeliveryAssumption DEF DeliveryAssumption
  <1>0. /\ \A u \in Users : call[u] \in DeliveryCall \cup {NoCall}
        /\ delivery \in [Orders -> DeliveryRow] /\ settlement \in [Settlements -> SettlementRow]
        /\ \A d \in Orders : delivery[d].settledBy \in Settlements \cup {None}
        /\ \A d \in Orders : delivery[d].settledBy # None =>
             /\ d \in settlement[delivery[d].settledBy].counted
             /\ settlement[delivery[d].settledBy].status \notin {"none", "cancelled"}
    BY DEF DeliveryTypeOK, SettledByLiveOne, DeliveryRow
  <1>1. ASSUME UNCHANGED settlement, \A d \in Orders : delivery'[d].settledBy = delivery[d].settledBy
        PROVE  SettledByLiveOne'
    BY <1>0, <1>1 DEF SettledByLiveOne
  <1>2. CASE UNCHANGED <<delivery, settlement>>
    BY <1>1, <1>2
  <1>3. ASSUME NEW d \in Orders, CreateDelivery(d)
        PROVE  SettledByLiveOne'
    <2>1. \A k \in Orders : delivery'[k].settledBy = delivery[k].settledBy
      BY <1>0, <1>3 DEF CreateDelivery, DeliveryRow
    <2> QED  BY <1>1, <1>3, <2>1 DEF CreateDelivery
  <1>4. ASSUME NEW u \in Users, FinishTransition(u)
        PROVE  SettledByLiveOne'
    <2>1. PICK cash \in BOOLEAN :
            delivery' = [delivery EXCEPT ![call[u].doc].status = call[u].op,
                           ![call[u].doc].driver = @ \/ call[u].op = "assigned",
                           ![call[u].doc].collected = IF call[u].op = "delivered" THEN cash ELSE @]
      BY <1>4 DEF FinishTransition
    <2>2. \A k \in Orders : delivery'[k].settledBy = delivery[k].settledBy
      <3>1. PICK o, to, driver, collected :
              /\ o = call[u].doc /\ to = call[u].op
              /\ driver = (delivery[o].driver \/ to = "assigned")
              /\ collected = IF to = "delivered" THEN cash ELSE delivery[o].collected
        OBVIOUS
      <3>2. delivery' = [delivery EXCEPT ![o].status = to, ![o].driver = driver, ![o].collected = collected]
        BY <2>1, <3>1
      <3> TAKE k \in Orders
      <3>3. delivery[k] \in DeliveryRow  BY <1>0
      <3>4. CASE k # o  BY <1>0, <3>2, <3>4
      <3>5. CASE k = o
        <4>1. delivery'[k] = [delivery[k] EXCEPT !.status = to, !.driver = driver, !.collected = collected]
          BY <1>0, <3>2, <3>5
        <4> QED  BY <3>3, <4>1 DEF DeliveryRow
      <3> QED  BY <3>4, <3>5
    <2> QED  BY <1>1, <1>4, <2>2 DEF FinishTransition
  <1>5. ASSUME NEW u \in Users, FinishDeposit(u)
        PROVE  SettledByLiveOne'
    <2>1. \A k \in Orders : delivery'[k].settledBy = delivery[k].settledBy
      BY <1>0, <1>5 DEF FinishDeposit, DeliveryRow
    <2> QED  BY <1>1, <1>5, <2>1 DEF FinishDeposit
  <1>6. ASSUME NEW u \in Users, FinishPropose(u)
        PROVE  SettledByLiveOne'
    <2> DEFINE s == call[u].doc  found == call[u].found
    <2>1. s \in Settlements /\ found \in SUBSET Orders
      BY <1>0, <1>6 DEF FinishPropose, DeliveryCall, OrderStatus, NoCall
    <2>2. /\ settlement[s].status = "none"
          /\ settlement' = [settlement EXCEPT ![s] = [status |-> "proposed", counted |-> found]]
          /\ delivery' = [d \in Orders |-> IF d \in found THEN [delivery[d] EXCEPT !.settledBy = s]
                                           ELSE delivery[d]]
      BY <1>6 DEF FinishPropose
    <2> HIDE DEF s, found
    <2>3. /\ settlement'[s] = [status |-> "proposed", counted |-> found]
          /\ \A t \in Settlements : t # s => settlement'[t] = settlement[t]
      BY <1>0, <2>1, <2>2
    <2> SUFFICES ASSUME NEW d \in Orders, delivery'[d].settledBy # None
                 PROVE  /\ d \in settlement'[delivery'[d].settledBy].counted
                        /\ settlement'[delivery'[d].settledBy].status \notin {"none", "cancelled"}
      BY DEF SettledByLiveOne
    <2>4. CASE d \in found
      <3>1. delivery'[d].settledBy = s  BY <1>0, <2>2, <2>4 DEF DeliveryRow
      <3> QED  BY <2>3, <2>4, <3>1
    <2>5. CASE d \notin found
      <3>1. delivery'[d] = delivery[d]  BY <2>2, <2>5
      <3>2. delivery[d].settledBy # s  BY <1>0, <2>2, <3>1
      <3> QED  BY <1>0, <2>3, <3>1, <3>2
    <2> QED  BY <2>4, <2>5
  <1>7. ASSUME NEW u \in Users, FinishSettlementStep(u)
        PROVE  SettledByLiveOne'
    <2> DEFINE s == call[u].doc  op == call[u].op
    <2>1. s \in Settlements /\ op \in {"approve", "pay", "void"}
      BY <1>0, <1>7 DEF FinishSettlementStep, DeliveryCall, OrderStatus, NoCall
    <2>2. PICK stands \in {"posted", "paid", "cancelled"} :
            /\ stands = CASE op = "approve" -> "posted" [] op = "pay" -> "paid"
                          [] op = "void" -> "cancelled"
            /\ settlement' = [settlement EXCEPT ![s].status = stands]
      BY <1>7, <2>1 DEF FinishSettlementStep
    <2>3. delivery' = [d \in Orders |-> IF op = "void" /\ delivery[d].settledBy = s
                                         THEN [delivery[d] EXCEPT !.settledBy = None]
                                         ELSE delivery[d]]
      BY <1>7 DEF FinishSettlementStep
    <2>4. op # "void" => stands # "cancelled"  BY <2>1, <2>2
    <2> HIDE DEF s, op
    <2>5. /\ settlement'[s].status = stands /\ settlement'[s].counted = settlement[s].counted
          /\ \A t \in Settlements : t # s => settlement'[t] = settlement[t]
      BY <1>0, <2>1, <2>2 DEF SettlementRow
    <2> SUFFICES ASSUME NEW d \in Orders, delivery'[d].settledBy # None
                 PROVE  /\ d \in settlement'[delivery'[d].settledBy].counted
                        /\ settlement'[delivery'[d].settledBy].status \notin {"none", "cancelled"}
      BY DEF SettledByLiveOne
    <2>6. delivery'[d] = delivery[d] /\ (delivery[d].settledBy = s => op # "void")
      BY <1>0, <2>3 DEF DeliveryRow
    <2>7. CASE delivery[d].settledBy = s  BY <1>0, <2>2, <2>4, <2>5, <2>6, <2>7
    <2>8. CASE delivery[d].settledBy # s  BY <1>0, <2>5, <2>6, <2>8
    <2> QED  BY <2>7, <2>8
  <1>8. ASSUME NEW u \in Users,
               \/ \E d \in Orders : StartTransition(u, d) \/ StartDeposit(u, d)
               \/ \E s \in Settlements : StartPropose(u, s) \/ StartSettlementStep(u, s)
               \/ DeliveryFails(u)
        PROVE  SettledByLiveOne'
    <2>1. UNCHANGED <<delivery, settlement>>
      BY <1>8
      DEF StartTransition, StartDeposit, StartPropose, StartSettlementStep, DeliveryFails,
          deliveryTables
    <2> QED  BY <1>2, <2>1
  <1>9. CASE UNCHANGED deliveryVars
    BY <1>2, <1>9 DEF deliveryVars, deliveryTables
  <1> QED
    BY <1>3, <1>4, <1>5, <1>6, <1>7, <1>8, <1>9 DEF DeliveryNext

-----------------------------------------------------------------------------
(* Purchase orders and what came in.                                       *)

(* A receipt at work names lines of its order alone.                       *)
Brings(c) ==
  c.op \in {"receive", "booking"} =>
    \A l \in Lines : c.brought[l] > 0 => LineOf[l] = OrderOf[c.doc]

CallsBring == \A u \in Users : Brings(call[u])

(* submit, approve and cancel had read an order that was still open.       *)
ReadOpen(c) == c.op \in {"submit", "approve", "cancel"} => c.read \notin {"received", "cancelled"}

EditsReadOpen == \A u \in Users : ReadOpen(call[u])

PurchasingCallsOK == CallsBring /\ EditsReadOpen

ReceivingCall ==
  [op : {"receive", "booking"}, doc : Receipts, brought : Quantities, refused : BOOLEAN,
   revision : 0..MaxRevisions, read : PoStatus]

LEMMA PurchasingCallIs ==
  ASSUME NEW c \in PurchasingCall \cup {NoCall}
  PROVE  /\ c.op \in {"receive", "booking"} => c \in ReceivingCall
         /\ c.op \in {"update", "submit", "approve", "cancel"} => c.doc \in PurchaseOrders
         /\ c.op \in {"approveQuality", "reject"} => c.doc \in Receipts
  <1>1. CASE c \in [op : {"update", "submit", "approve", "cancel"}, doc : PurchaseOrders,
                    read : {"draft", "submitted", "approved", "partially_received", "received"}]
    <2>1. c.op \in {"update", "submit", "approve", "cancel"} /\ c.doc \in PurchaseOrders  BY <1>1
    <2> QED  BY <2>1
  <1>2. CASE c \in ReceivingCall
    <2>1. c.op \in {"receive", "booking"}  BY <1>2 DEF ReceivingCall
    <2> QED  BY <1>2, <2>1
  <1>3. CASE c \in [op : {"approveQuality", "reject"}, doc : Receipts]
    <2>1. c.op \in {"approveQuality", "reject"} /\ c.doc \in Receipts  BY <1>3
    <2> QED  BY <2>1
  <1>4. CASE c = NoCall
    <2>1. c.op = "idle"  BY <1>4 DEF NoCall
    <2> QED  BY <2>1
  <1> QED  BY Zenon, <1>1, <1>2, <1>3, <1>4 DEF PurchasingCall, ReceivingCall

LEMMA ReceivingCallFields ==
  ASSUME NEW c \in ReceivingCall
  PROVE  /\ c.doc \in Receipts /\ c.brought \in Quantities /\ c.refused \in BOOLEAN
         /\ c.revision \in 0..MaxRevisions /\ c.read \in PoStatus
         /\ \A read \in PoStatus :
              LET d == [c EXCEPT !.op = "booking", !.read = read]
              IN  /\ d \in PurchasingCall /\ d.op = "booking" /\ d.doc = c.doc
                  /\ d.brought = c.brought
  <1>1. /\ c.doc \in Receipts /\ c.brought \in Quantities /\ c.refused \in BOOLEAN
        /\ c.revision \in 0..MaxRevisions /\ c.read \in PoStatus
    BY DEF ReceivingCall
  <1>2. ASSUME NEW read \in PoStatus
        PROVE  LET d == [c EXCEPT !.op = "booking", !.read = read]
               IN  /\ d \in PurchasingCall /\ d.op = "booking" /\ d.doc = c.doc
                   /\ d.brought = c.brought
    <2> DEFINE d == [c EXCEPT !.op = "booking", !.read = read]
    <2>1. d \in ReceivingCall /\ d.op = "booking" /\ d.doc = c.doc /\ d.brought = c.brought
      BY DEF ReceivingCall
    <2> HIDE DEF d
    <2>2. d \in PurchasingCall  BY Zenon, <2>1 DEF ReceivingCall, PurchasingCall
    <2> QED  BY Zenon, <2>1, <2>2 DEF d
  <1> QED  BY Zenon, <1>1, <1>2

PurchasingInv == PurchasingTypeOK /\ PurchasingCallsOK

(* Another call is written, and the calls are as they should be.           *)
LEMMA PurchasingCallsKept ==
  ASSUME PurchasingInv, NEW u \in Users, NEW c \in PurchasingCall \cup {NoCall},
         Brings(c), ReadOpen(c), call' = [call EXCEPT ![u] = c]
  PROVE  call' \in [Users -> PurchasingCall \cup {NoCall}] /\ PurchasingCallsOK'
  <1>1. /\ call' \in [Users -> PurchasingCall \cup {NoCall}]
        /\ \A v \in Users : call'[v] = IF v = u THEN c ELSE call[v]
    BY DEF PurchasingInv, PurchasingTypeOK
  <1>2. \A v \in Users : Brings(call'[v]) /\ ReadOpen(call'[v])
    BY Zenon, <1>1 DEF PurchasingInv, PurchasingCallsOK, CallsBring, EditsReadOpen
  <1> QED  BY <1>1, <1>2 DEF PurchasingCallsOK, CallsBring, EditsReadOpen

LEMMA NoCallBrings == Brings(NoCall) /\ ReadOpen(NoCall)
  BY DEF Brings, ReadOpen, NoCall

LEMMA PurchasingReads ==
  ASSUME PurchasingInv, NEW u \in Users, NEW c \in PurchasingCall \cup {NoCall},
         Brings(c), ReadOpen(c), call' = [call EXCEPT ![u] = c], UNCHANGED purchasingTables
  PROVE  PurchasingInv'
  <1>1. call' \in [Users -> PurchasingCall \cup {NoCall}] /\ PurchasingCallsOK'
    BY PurchasingCallsKept
  <1> QED  BY <1>1 DEF PurchasingInv, PurchasingTypeOK, purchasingTables

LEMMA PurchasingInductive ==
  ASSUME PurchasingInv, [PurchasingNext]_purchasingVars
  PROVE  PurchasingInv'
  <1> USE PurchasingAssumption DEF PurchasingAssumption
  <1>0. /\ \A u \in Users : call[u] \in PurchasingCall \cup {NoCall}
        /\ \A p \in PurchaseOrders : po[p] \in PoRow
        /\ received \in [Lines -> Int]
        /\ \A g \in Receipts : grn[g] \in GrnRow /\ OrderOf[g] \in PurchaseOrders
    BY DEF PurchasingInv, PurchasingTypeOK
  <1>20. ASSUME NEW u \in Users, Leave(u)
         PROVE  call' \in [Users -> PurchasingCall \cup {NoCall}] /\ PurchasingCallsOK'
    BY <1>20, NoCallBrings, PurchasingCallsKept DEF Leave
  <1>1. ASSUME NEW p \in PurchaseOrders, CreateOrder(p)
        PROVE  PurchasingInv'
    <2> DEFINE row == [po[p] EXCEPT !.status = "draft"]
    <2>1. row \in PoRow  BY <1>0 DEF PoRow, PoStatus
    <2>2. po' = [po EXCEPT ![p] = row]  BY <1>1 DEF CreateOrder
    <2> HIDE DEF row
    <2>3. PurchasingTypeOK'
      BY <1>1, <2>1, <2>2 DEF CreateOrder, PurchasingInv, PurchasingTypeOK
    <2>4. PurchasingCallsOK'
      BY <1>1 DEF CreateOrder, PurchasingInv, PurchasingCallsOK, CallsBring, EditsReadOpen
    <2> QED  BY <2>3, <2>4 DEF PurchasingInv
  <1>3. ASSUME NEW u \in Users, NEW p \in PurchaseOrders, StartOrderEdit(u, p)
        PROVE  PurchasingInv'
    <2>1. PICK op \in {"update", "submit", "approve", "cancel"} :
            /\ CASE op \in {"update", "submit"} -> po[p].status = "draft"
                 [] op = "approve" -> po[p].status = "submitted"
                 [] op = "cancel" -> po[p].status \notin {"none", "received", "cancelled"}
            /\ call' = [call EXCEPT ![u] = [op |-> op, doc |-> p, read |-> po[p].status]]
      BY <1>3 DEF StartOrderEdit, Enter
    <2> DEFINE c == [op |-> op, doc |-> p, read |-> po[p].status]
    <2>2. po[p].status \in {"draft", "submitted", "approved", "partially_received"}
      BY <2>1, <1>0 DEF PoRow, PoStatus
    <2>3. c \in PurchasingCall  BY <2>2 DEF PurchasingCall
    <2>4. Brings(c) /\ ReadOpen(c)  BY <2>2 DEF Brings, ReadOpen
    <2> QED  BY <1>3, <2>1, <2>3, <2>4, PurchasingReads DEF StartOrderEdit
  <1>4. ASSUME NEW u \in Users, NEW g \in Receipts, StartReceipt(u, g)
        PROVE  PurchasingInv'
    <2>1. PICK brought \in Quantities, refused \in BOOLEAN :
            /\ \A l \in Lines : brought[l] > 0 => LineOf[l] = OrderOf[g]
            /\ call' = [call EXCEPT ![u] =
                 [op |-> "receive", doc |-> g, brought |-> brought, refused |-> refused,
                  revision |-> po[OrderOf[g]].revision, read |-> po[OrderOf[g]].status]]
      BY <1>4 DEF StartReceipt, Enter
    <2> DEFINE c == [op |-> "receive", doc |-> g, brought |-> brought, refused |-> refused,
                     revision |-> po[OrderOf[g]].revision, read |-> po[OrderOf[g]].status]
    <2>2. po[OrderOf[g]].revision \in 0..MaxRevisions /\ po[OrderOf[g]].status \in PoStatus
      BY <1>0 DEF PoRow
    <2>3. c \in PurchasingCall  BY <2>2 DEF PurchasingCall
    <2>4. Brings(c) /\ ReadOpen(c)  BY <2>1 DEF Brings, ReadOpen
    <2> QED  BY <1>4, <2>1, <2>3, <2>4, PurchasingReads DEF StartReceipt
  <1>5. ASSUME NEW u \in Users, NEW g \in Receipts, StartInspection(u, g)
        PROVE  PurchasingInv'
    <2>1. PICK op \in {"approveQuality", "reject"} :
            call' = [call EXCEPT ![u] = [op |-> op, doc |-> g]]
      BY <1>5 DEF StartInspection, Enter
    <2> DEFINE c == [op |-> op, doc |-> g]
    <2>2. c \in PurchasingCall /\ Brings(c) /\ ReadOpen(c)
      BY DEF PurchasingCall, Brings, ReadOpen
    <2> QED  BY <1>5, <2>1, <2>2, PurchasingReads DEF StartInspection
  <1>6. ASSUME NEW u \in Users, FinishOrderEdit(u)
        PROVE  PurchasingInv'
    <2>1. PICK p \in PurchaseOrders, stands \in {"submitted", "approved", "cancelled"} :
            po' = [po EXCEPT ![p].status = stands]
      <3>1. call[u].doc \in PurchaseOrders
        BY <1>0, <1>6, PurchasingCallIs DEF FinishOrderEdit
      <3> QED  BY <1>6, <3>1 DEF FinishOrderEdit
    <2> DEFINE row == [po[p] EXCEPT !.status = stands]
    <2>2. row \in PoRow  BY <1>0 DEF PoRow, PoStatus
    <2>3. po' = [po EXCEPT ![p] = row]  BY <2>1
    <2> HIDE DEF row
    <2>4. po' \in [PurchaseOrders -> PoRow]
      BY <2>2, <2>3 DEF PurchasingInv, PurchasingTypeOK
    <2> QED  BY <1>6, <1>20, <2>4 DEF FinishOrderEdit, PurchasingInv, PurchasingTypeOK
  <1>7. ASSUME NEW u \in Users, ReplaceLines(u)
        PROVE  PurchasingInv'
    <2>1. PICK p \in PurchaseOrders :
            /\ po[p].revision < MaxRevisions
            /\ po' = [po EXCEPT ![p].revision = @ + 1]
            /\ received' = [l \in Lines |-> IF LineOf[l] = p THEN 0 ELSE received[l]]
      <3>1. call[u].doc \in PurchaseOrders
        BY <1>0, <1>7, PurchasingCallIs DEF ReplaceLines
      <3> QED  BY <1>7, <3>1 DEF ReplaceLines
    <2>2. PICK r \in 0..MaxRevisions : r = po[p].revision + 1
      BY <1>0, <2>1 DEF PoRow
    <2> DEFINE row == [po[p] EXCEPT !.revision = r]
    <2>3. row \in PoRow  BY <1>0 DEF PoRow
    <2>4. po' = [po EXCEPT ![p] = row]  BY <2>1, <2>2
    <2> HIDE DEF row
    <2>5. po' \in [PurchaseOrders -> PoRow]
      BY <2>3, <2>4 DEF PurchasingInv, PurchasingTypeOK
    <2>6. received' \in [Lines -> Int]  BY <1>0, <2>1
    <2> QED  BY <1>7, <1>20, <2>5, <2>6 DEF ReplaceLines, PurchasingInv, PurchasingTypeOK
  <1>8. ASSUME NEW u \in Users, TakeLines(u)
        PROVE  PurchasingInv'
    <2>1. PICK c : c = call[u]  OBVIOUS
    <2>2. PICK read : read = StatusAfter(OrderOf[c.doc], c.brought, c.read)  OBVIOUS
    <2>3. /\ c.op = "receive" /\ UNCHANGED purchasingTables
          /\ call' = [call EXCEPT ![u] = [c EXCEPT !.op = "booking", !.read = read]]
      BY <1>8, <2>1, <2>2 DEF TakeLines, Proceed
    <2>4. c \in ReceivingCall  BY <1>0, <2>1, <2>3, PurchasingCallIs
    <2>5. read \in PoStatus
      BY <2>2, <2>4, ReceivingCallFields DEF StatusAfter, PoStatus
    <2> DEFINE d == [c EXCEPT !.op = "booking", !.read = read]
    <2>6. d \in PurchasingCall /\ d.op = "booking" /\ d.doc = c.doc /\ d.brought = c.brought
      BY Zenon, <2>4, <2>5, ReceivingCallFields
    <2> HIDE DEF d
    <2>7. Brings(c)  BY <2>1 DEF PurchasingInv, PurchasingCallsOK, CallsBring
    <2>8. Brings(d) /\ ReadOpen(d)  BY <2>3, <2>6, <2>7 DEF Brings, ReadOpen
    <2> QED  BY Zenon, <2>3, <2>6, <2>8, PurchasingReads DEF d
  <1>9. ASSUME NEW u \in Users, FinishReceipt(u)
        PROVE  PurchasingInv'
    <2>1. PICK c : c = call[u]  OBVIOUS
    <2>2. c \in ReceivingCall
      BY <1>0, <1>9, <2>1, PurchasingCallIs DEF FinishReceipt
    <2>3. PICK p \in PurchaseOrders : p = OrderOf[c.doc]  BY <1>0, <2>2, ReceivingCallFields
    <2> DEFINE entered == [status |-> IF c.refused THEN "quality_check" ELSE "accepted",
                           brought |-> c.brought, moved |-> 1, revision |-> po[p].revision]
               row == [po[p] EXCEPT !.status = c.read]
    <2>4. /\ po' = [po EXCEPT ![p] = row] /\ grn' = [grn EXCEPT ![c.doc] = entered]
          /\ received' = [l \in Lines |-> received[l] + c.brought[l]]
      BY Zenon, <1>9, <2>1, <2>3 DEF FinishReceipt
    <2>5. row \in PoRow
      <3>1. c.read \in PoStatus /\ po[p] \in PoRow  BY Zenon, <1>0, <2>2, ReceivingCallFields
      <3> QED  BY <3>1 DEF PoRow
    <2>6. entered \in GrnRow
      <3>1. po[p].revision \in 0..MaxRevisions  BY <1>0 DEF PoRow
      <3>2. c.refused \in BOOLEAN /\ c.brought \in Quantities  BY Zenon, <2>2, ReceivingCallFields
      <3> QED  BY <3>1, <3>2 DEF GrnRow
    <2>7. received' \in [Lines -> Int]
      <3>1. c.brought \in Quantities  BY Zenon, <2>2, ReceivingCallFields
      <3>2. \A l \in Lines : c.brought[l] \in Int  BY <3>1 DEF Quantities
      <3> QED  BY <1>0, <2>4, <3>2
    <2> HIDE DEF row, entered
    <2>8. po' \in [PurchaseOrders -> PoRow] /\ grn' \in [Receipts -> GrnRow]
      BY <2>4, <2>5, <2>6 DEF PurchasingInv, PurchasingTypeOK
    <2> QED  BY <1>9, <1>20, <2>7, <2>8 DEF FinishReceipt, PurchasingInv, PurchasingTypeOK
  <1>10. ASSUME NEW u \in Users, ApproveQuality(u)
         PROVE  PurchasingInv'
    <2>1. PICK g \in Receipts : g = call[u].doc
      BY <1>0, <1>10, PurchasingCallIs DEF ApproveQuality
    <2> DEFINE row == [grn[g] EXCEPT !.status = "accepted"]
    <2>2. row \in GrnRow  BY <1>0 DEF GrnRow
    <2>3. grn' = [grn EXCEPT ![g] = row]  BY <1>10, <2>1 DEF ApproveQuality
    <2> HIDE DEF row
    <2>4. grn' \in [Receipts -> GrnRow]  BY <2>2, <2>3 DEF PurchasingInv, PurchasingTypeOK
    <2> QED  BY <1>10, <1>20, <2>4 DEF ApproveQuality, PurchasingInv, PurchasingTypeOK
  <1>11. ASSUME NEW u \in Users, RejectReceipt(u)
         PROVE  PurchasingInv'
    <2>1. PICK g \in Receipts : g = call[u].doc
      BY <1>0, <1>11, PurchasingCallIs DEF RejectReceipt
    <2>2. PICK n \in Int : n = grn[g].moved - 1  BY <1>0 DEF GrnRow
    <2> DEFINE row == [grn[g] EXCEPT !.status = "rejected", !.moved = n]
    <2>3. row \in GrnRow  BY <1>0 DEF GrnRow
    <2>4. /\ grn' = [grn EXCEPT ![g] = row]
          /\ received' = [l \in Lines |-> received[l] - grn[g].brought[l]]
      BY <1>11, <2>1, <2>2 DEF RejectReceipt
    <2> HIDE DEF row
    <2>5. grn' \in [Receipts -> GrnRow]  BY <2>3, <2>4 DEF PurchasingInv, PurchasingTypeOK
    <2>6. received' \in [Lines -> Int]
      <3>1. \A l \in Lines : grn[g].brought[l] \in Int  BY <1>0 DEF GrnRow, Quantities
      <3> QED  BY <1>0, <2>4, <3>1
    <2> QED  BY <1>11, <1>20, <2>5, <2>6 DEF RejectReceipt, PurchasingInv, PurchasingTypeOK
  <1>12. ASSUME NEW u \in Users, PurchasingFails(u)
         PROVE  PurchasingInv'
    BY <1>12, NoCallBrings, PurchasingReads DEF PurchasingFails, Fails, Leave
  <1>13. CASE UNCHANGED purchasingVars
    BY <1>13
    DEF purchasingVars, purchasingTables, PurchasingInv, PurchasingTypeOK, PurchasingCallsOK,
        CallsBring, EditsReadOpen
  <1> QED
    BY <1>1, <1>3, <1>4, <1>5, <1>6, <1>7, <1>8, <1>9, <1>10, <1>11, <1>12, <1>13
    DEF PurchasingNext

LEMMA PurchasingStart == PurchasingInit => PurchasingInv
  <1> SUFFICES ASSUME PurchasingInit PROVE PurchasingInv
    OBVIOUS
  <1>1. PurchasingTypeOK
    BY PurchasingAssumption
    DEF PurchasingAssumption, PurchasingInit, CallsInit, PurchasingTypeOK, PoRow, PoStatus, GrnRow,
        Quantities
  <1>2. PurchasingCallsOK
    BY NoCallBrings DEF PurchasingInit, CallsInit, PurchasingCallsOK, CallsBring, EditsReadOpen
  <1> QED  BY <1>1, <1>2 DEF PurchasingInv

LEMMA ClosedOrderStays ==
  ASSUME PurchasingInv, [PurchasingNext]_purchasingVars, NEW p \in PurchaseOrders,
         po[p].status \in {"received", "cancelled"}, Fresh(p, po[p].status),
         \A u \in Users : call[u].op \in {"receive", "booking"} => OrderOf[call[u].doc] # p
  PROVE  po'[p].status = po[p].status
  <1>0. po \in [PurchaseOrders -> PoRow]  BY DEF PurchasingInv, PurchasingTypeOK
  <1>1. ASSUME NEW q \in PurchaseOrders, CreateOrder(q)
        PROVE  po'[p] = po[p]
    BY <1>0, <1>1 DEF CreateOrder
  <1>2. ASSUME NEW u \in Users, FinishReceipt(u)
        PROVE  po'[p] = po[p]
    BY <1>0, <1>2 DEF FinishReceipt
  <1>3. ASSUME NEW u \in Users, FinishOrderEdit(u)
        PROVE  po'[p] = po[p]
    <2>1. ReadOpen(call[u]) /\ call[u] # NoCall
      BY <1>3 DEF FinishOrderEdit, NoCall, PurchasingInv, PurchasingCallsOK, EditsReadOpen
    <2>2. call[u].doc # p  BY <1>3, <2>1 DEF FinishOrderEdit, ReadOpen, Fresh
    <2> QED  BY <1>0, <1>3, <2>2 DEF FinishOrderEdit
  <1>4. ASSUME NEW u \in Users, ReplaceLines(u)
        PROVE  po'[p].status = po[p].status
    <2>1. PICK o, r : po' = [po EXCEPT ![o].revision = r]  BY <1>4 DEF ReplaceLines
    <2> DEFINE row == [po[p] EXCEPT !.revision = r]
    <2>2. row.status = po[p].status  BY <1>0 DEF PoRow
    <2>3. po'[p] = po[p] \/ po'[p] = row  BY <1>0, <2>1
    <2> HIDE DEF row
    <2> QED  BY <2>2, <2>3
  <1>5. \/ UNCHANGED po
        \/ \E q \in PurchaseOrders : CreateOrder(q)
        \/ \E u \in Users : FinishOrderEdit(u) \/ ReplaceLines(u) \/ FinishReceipt(u)
    BY Zenon DEF PurchasingNext, purchasingVars, purchasingTables, StartOrderEdit, StartReceipt,
       StartInspection, TakeLines, ApproveQuality, RejectReceipt, PurchasingFails
  <1> QED  BY <1>1, <1>2, <1>3, <1>4, <1>5

-----------------------------------------------------------------------------
(* What receipts bring, and send back.                                     *)

Brought(rows, l) == [g \in Receipts |-> rows[g].brought[l]]
Live(rows, p, revision) ==
  {g \in Receipts : OrderOf[g] = p /\ rows[g].status \notin {"none", "rejected"}
                     /\ rows[g].revision = revision}

(* The goods of a receipt went in once at most.                            *)
SentBackInv ==
  /\ \A l \in Lines :
       received[l] <= SumOf(Brought(grn, l), Live(grn, LineOf[l], po[LineOf[l]].revision))
  /\ \A g \in Receipts : /\ grn[g].moved <= 1
                         /\ grn[g].status = "rejected" => grn[g].moved <= 0

LEMMA BroughtNat ==
  ASSUME NEW rows \in [Receipts -> GrnRow], NEW l \in Lines, NEW S \in SUBSET Receipts
  PROVE  /\ IsFiniteSet(S) /\ IntOn(Brought(rows, l), S)
         /\ SumOf(Brought(rows, l), S) \in Nat /\ SumOf(Brought(rows, l), S) \in Int
         /\ \A g \in Receipts : /\ Brought(rows, l)[g] = rows[g].brought[l]
                                /\ Brought(rows, l)[g] \in Nat
  <1>1. IsFiniteSet(S)  BY PurchasingAssumption, FS_Subset DEF PurchasingAssumption
  <1>2. \A g \in Receipts : /\ Brought(rows, l)[g] = rows[g].brought[l]
                            /\ Brought(rows, l)[g] \in Nat
    BY PurchasingAssumption DEF PurchasingAssumption, Brought, GrnRow, Quantities
  <1>3. \A g \in S : Brought(rows, l)[g] \in Nat  BY <1>2
  <1>4. SumOf(Brought(rows, l), S) \in Nat  BY <1>1, <1>3, SumNat
  <1> QED  BY <1>1, <1>2, <1>3, <1>4 DEF IntOn

LEMMA SentBackIs ==
  ASSUME grn \in [Receipts -> GrnRow], SentBackInv
  PROVE  SentBackUncounted
  <1>1. ASSUME NEW l \in Lines
        PROVE  received[l] <= SumFunctionOnSet([g \in Receipts |-> grn[g].brought[l]],
                                               LiveReceipts(LineOf[l]))
    <2>1. /\ LiveReceipts(LineOf[l]) = Live(grn, LineOf[l], po[LineOf[l]].revision)
          /\ LiveReceipts(LineOf[l]) \in SUBSET Receipts
      BY DEF LiveReceipts, Live
    <2>2. SumFunctionOnSet(Brought(grn, l), LiveReceipts(LineOf[l]))
            = SumOf(Brought(grn, l), LiveReceipts(LineOf[l]))
      BY <2>1, BroughtNat, SumFunctionIs
    <2> QED  BY <2>1, <2>2 DEF SentBackInv, Brought
  <1> QED  BY <1>1 DEF SentBackInv, SentBackUncounted

(* More receipts bring no less.                                            *)
LEMMA MoreBroughtIn ==
  ASSUME NEW rows \in [Receipts -> GrnRow], NEW l \in Lines, NEW T \in SUBSET Receipts,
         NEW S \in SUBSET T
  PROVE  SumOf(Brought(rows, l), S) <= SumOf(Brought(rows, l), T)
  <1>1. S \in SUBSET Receipts /\ T \ S \in SUBSET Receipts  OBVIOUS
  <1>2. SumOf(Brought(rows, l), T) = SumOf(Brought(rows, l), S) + SumOf(Brought(rows, l), T \ S)
    BY BroughtNat, SumSplit
  <1>3. SumOf(Brought(rows, l), S) \in Nat /\ SumOf(Brought(rows, l), T \ S) \in Nat
    BY <1>1, BroughtNat
  <1> QED  BY <1>2, <1>3

(* Receipts that are as they were bring what they brought.                 *)
LEMMA SameBrought ==
  ASSUME NEW rows \in [Receipts -> GrnRow], NEW after \in [Receipts -> GrnRow],
         NEW l \in Lines, NEW S \in SUBSET Receipts,
         \A g \in S : after[g].brought[l] = rows[g].brought[l]
  PROVE  SumOf(Brought(after, l), S) = SumOf(Brought(rows, l), S)
  <1>1. \A g \in S : Brought(rows, l)[g] = Brought(after, l)[g]  BY BroughtNat
  <1>2. IsFiniteSet(S) /\ IntOn(Brought(rows, l), S)  BY BroughtNat
  <1> QED  BY <1>1, <1>2, SumAgree

LEMMA GrnFields ==
  ASSUME NEW row \in GrnRow, NEW n \in Int
  PROVE  LET after == [row EXCEPT !.status = "rejected", !.moved = n]
         IN  /\ after.status = "rejected" /\ after.moved = n /\ after.brought = row.brought
             /\ after.revision = row.revision
  BY DEF GrnRow

LEMMA SentBackInductive ==
  ASSUME PurchasingInv, SentBackInv, PurchasingInv', [PurchasingNext]_purchasingVars
  PROVE  SentBackInv'
  <1> USE PurchasingAssumption DEF PurchasingAssumption
  <1>0. /\ \A u \in Users : call[u] \in PurchasingCall \cup {NoCall}
        /\ po \in [PurchaseOrders -> PoRow] /\ grn \in [Receipts -> GrnRow]
        /\ po' \in [PurchaseOrders -> PoRow] /\ grn' \in [Receipts -> GrnRow]
        /\ received \in [Lines -> Int] /\ received' \in [Lines -> Int]
        /\ \A l \in Lines :
             received[l] <= SumOf(Brought(grn, l), Live(grn, LineOf[l], po[LineOf[l]].revision))
        /\ \A g \in Receipts : /\ grn[g] \in GrnRow /\ OrderOf[g] \in PurchaseOrders
                               /\ grn[g].moved <= 1
                               /\ grn[g].status = "rejected" => grn[g].moved <= 0
    BY DEF PurchasingInv, PurchasingTypeOK, SentBackInv
  <1>20. ASSUME NEW rows, NEW p, NEW r PROVE Live(rows, p, r) \in SUBSET Receipts
    BY DEF Live
  <1>1. ASSUME UNCHANGED <<grn, received>>,
               \A p \in PurchaseOrders : po'[p].revision = po[p].revision
        PROVE  SentBackInv'
    BY <1>0, <1>1 DEF SentBackInv
  <1>2. ASSUME NEW p \in PurchaseOrders, NEW stands, po' = [po EXCEPT ![p].status = stands]
        PROVE  \A q \in PurchaseOrders : po'[q].revision = po[q].revision
    BY <1>0, <1>2 DEF PoRow
  <1>3. ASSUME NEW p \in PurchaseOrders, CreateOrder(p)
        PROVE  SentBackInv'
    BY <1>1, <1>2, <1>3 DEF CreateOrder
  <1>4. ASSUME NEW u \in Users, FinishOrderEdit(u)
        PROVE  SentBackInv'
    <2>1. PICK p \in PurchaseOrders : p = call[u].doc
      BY <1>0, <1>4, PurchasingCallIs DEF FinishOrderEdit
    <2>2. PICK stands : po' = [po EXCEPT ![p].status = stands]
      BY <1>4, <2>1 DEF FinishOrderEdit
    <2> QED  BY <1>1, <1>2, <1>4, <2>2 DEF FinishOrderEdit
  <1>5. ASSUME NEW u \in Users, ReplaceLines(u)
        PROVE  SentBackInv'
    <2>10. PICK p \in PurchaseOrders : p = call[u].doc
      BY <1>0, <1>5, PurchasingCallIs DEF ReplaceLines
    <2>1. PICK r :
            /\ po' = [po EXCEPT ![p].revision = r]
            /\ received' = [l \in Lines |-> IF LineOf[l] = p THEN 0 ELSE received[l]]
            /\ grn' = grn
      BY <1>5, <2>10 DEF ReplaceLines
    <2>2. ASSUME NEW l \in Lines
          PROVE  received'[l]
                   <= SumOf(Brought(grn', l), Live(grn', LineOf[l], po'[LineOf[l]].revision))
      <3>1. SumOf(Brought(grn', l), Live(grn', LineOf[l], po'[LineOf[l]].revision)) \in Nat
        BY <1>0, <1>20, BroughtNat
      <3>2. CASE LineOf[l] = p  BY <2>1, <3>1, <3>2
      <3>3. CASE LineOf[l] # p
        <4>1. po'[LineOf[l]] = po[LineOf[l]] /\ received'[l] = received[l]
          BY <1>0, <2>1, <3>3
        <4> QED  BY <1>0, <2>1, <4>1
      <3> QED  BY <3>2, <3>3
    <2> QED  BY <1>0, <2>1, <2>2 DEF SentBackInv
  <1>6. ASSUME NEW u \in Users, FinishReceipt(u)
        PROVE  SentBackInv'
    <2>1. PICK c : c = call[u]  OBVIOUS
    <2>2. c \in ReceivingCall /\ Brings(c)
      BY <1>0, <1>6, <2>1, PurchasingCallIs
      DEF FinishReceipt, PurchasingInv, PurchasingCallsOK, CallsBring
    <2>20. PICK g \in Receipts, p \in PurchaseOrders, brought \in Quantities :
             g = c.doc /\ p = OrderOf[g] /\ brought = c.brought
      BY Zenon, <1>0, <2>2, ReceivingCallFields
    <2>3. PICK revision :
            /\ g = c.doc /\ p = OrderOf[g] /\ brought = c.brought /\ revision = po[p].revision
      BY <2>20
    <2>4. /\ grn[g].status = "none"
          /\ grn' = [grn EXCEPT ![g] =
                       [status |-> IF c.refused THEN "quality_check" ELSE "accepted",
                        brought |-> brought, moved |-> 1, revision |-> revision]]
          /\ received' = [l \in Lines |-> received[l] + brought[l]]
          /\ po' = [po EXCEPT ![p].status = c.read]
      BY Zenon, <1>6, <2>1, <2>3 DEF FinishReceipt
    <2>5. \A q \in PurchaseOrders : po'[q].revision = po[q].revision  BY <1>2, <2>4
    <2>6. /\ grn'[g].brought = brought /\ grn'[g].status \notin {"none", "rejected"}
          /\ grn'[g].moved = 1 /\ grn'[g].revision = revision
          /\ \A h \in Receipts : h # g => grn'[h] = grn[h]
      BY <1>0, <2>4
    <2>7. \A l \in Lines : /\ brought[l] \in Nat
                           /\ brought[l] > 0 => LineOf[l] = p
      <3>1. c.op \in {"receive", "booking"}  BY <1>6, <2>1 DEF FinishReceipt
      <3> QED  BY <2>2, <2>3, <3>1 DEF Brings, Quantities
    <2> DEFINE before(l) == Live(grn, LineOf[l], po[LineOf[l]].revision)
               after(l) == Live(grn', LineOf[l], po'[LineOf[l]].revision)
    <2>8. \A l \in Lines : /\ g \notin before(l) /\ after(l) \ {g} = before(l)
                           /\ (g \in after(l) <=> LineOf[l] = p)
      <3> TAKE l \in Lines
      <3>1. LineOf[l] \in PurchaseOrders  OBVIOUS
      <3>2. po'[LineOf[l]].revision = po[LineOf[l]].revision  BY <2>5, <3>1
      <3> QED  BY ZenonT(40), <2>3, <2>4, <2>6, <3>2 DEF Live
    <2>9. \A l \in Lines : before(l) \in SUBSET Receipts /\ after(l) \in SUBSET Receipts
      BY <1>20
    <2>10. ASSUME NEW l \in Lines
           PROVE  received'[l] <= SumOf(Brought(grn', l), after(l))
      <3>1. /\ received[l] <= SumOf(Brought(grn, l), before(l)) /\ received[l] \in Int
            /\ received'[l] = received[l] + brought[l]
        BY <1>0, <2>4
      <3>3. PICK S, T : S = before(l) /\ T = after(l)  OBVIOUS
      <3>4. S \in SUBSET Receipts /\ T \in SUBSET Receipts /\ T \ {g} = S /\ g \notin S
        BY <2>8, <2>9, <3>3
      <3> HIDE DEF before, after
      <3>2. \A h \in S : grn'[h].brought[l] = grn[h].brought[l]
        BY <2>6, <3>4
      <3>5. /\ SumOf(Brought(grn', l), S) = SumOf(Brought(grn, l), S)
            /\ SumOf(Brought(grn, l), S) \in Int
        <4>1. SumOf(Brought(grn', l), S) = SumOf(Brought(grn, l), S)
          BY <1>0, <3>2, <3>4, SameBrought
        <4>2. SumOf(Brought(grn, l), S) \in Int  BY <1>0, <3>4, BroughtNat
        <4> QED  BY <4>1, <4>2
      <3>6. CASE g \in T
        <4>1. IsFiniteSet(T) /\ IntOn(Brought(grn', l), T) /\ Brought(grn', l)[g] = brought[l]
          BY <1>0, <2>6, <3>4, BroughtNat
        <4>2. SumOf(Brought(grn', l), T) = brought[l] + SumOf(Brought(grn', l), S)
          BY <3>4, <3>6, <4>1, SumTake
        <4> QED  BY <2>7, <3>1, <3>3, <3>5, <4>2
      <3>7. CASE g \notin T
        <4>1. T = S  BY <3>4, <3>7
        <4>2. brought[l] = 0  BY <2>7, <2>8, <3>3, <3>7
        <4> QED  BY <3>1, <3>3, <3>5, <4>1, <4>2
      <3> QED  BY <3>6, <3>7
    <2>11. \A h \in Receipts : /\ grn'[h].moved <= 1
                               /\ grn'[h].status = "rejected" => grn'[h].moved <= 0
      <3> TAKE h \in Receipts
      <3>1. CASE h = g  BY <2>6, <3>1
      <3>2. CASE h # g
        <4>1. grn'[h] = grn[h]  BY <2>6, <3>2
        <4> QED  BY <1>0, <4>1
      <3> QED  BY <3>1, <3>2
    <2> QED  BY <2>10, <2>11 DEF SentBackInv
  <1>7. ASSUME NEW u \in Users, ApproveQuality(u)
        PROVE  SentBackInv'
    <2>1. PICK g : grn' = [grn EXCEPT ![g].status = "accepted"] /\ UNCHANGED <<po, received>>
      BY <1>7 DEF ApproveQuality
    <2>2. \A h \in Receipts : /\ grn'[h].brought = grn[h].brought
                              /\ grn'[h].moved = grn[h].moved /\ grn'[h].revision = grn[h].revision
                              /\ grn'[h].status \in {grn[h].status, "accepted"}
      BY <1>0, <2>1 DEF GrnRow
    <2>3. ASSUME NEW l \in Lines
          PROVE  received'[l]
                   <= SumOf(Brought(grn', l), Live(grn', LineOf[l], po'[LineOf[l]].revision))
      <3>1. PICK S, T : /\ S = Live(grn, LineOf[l], po[LineOf[l]].revision)
                        /\ T = Live(grn', LineOf[l], po'[LineOf[l]].revision)
        OBVIOUS
      <3>2. T \in SUBSET Receipts /\ S \in SUBSET T  BY <2>1, <2>2, <3>1 DEF Live
      <3>3. SumOf(Brought(grn', l), S) = SumOf(Brought(grn, l), S)
        BY <1>0, <2>2, <3>2, SameBrought
      <3>4. SumOf(Brought(grn', l), S) <= SumOf(Brought(grn', l), T)
        BY <1>0, <3>2, MoreBroughtIn
      <3>5. SumOf(Brought(grn', l), S) \in Int /\ SumOf(Brought(grn', l), T) \in Int
        BY <1>0, <3>2, BroughtNat
      <3>6. received[l] <= SumOf(Brought(grn, l), S) /\ received[l] \in Int  BY <1>0, <3>1
      <3> QED  BY <2>1, <3>1, <3>3, <3>4, <3>5, <3>6
    <2>4. \A h \in Receipts : /\ grn'[h].moved <= 1
                              /\ grn'[h].status = "rejected" => grn'[h].moved <= 0
      BY <1>0, <2>2
    <2> QED  BY <2>3, <2>4 DEF SentBackInv
  <1>8. ASSUME NEW u \in Users, RejectReceipt(u)
        PROVE  SentBackInv'
    <2>1. PICK g \in Receipts : g = call[u].doc
      BY <1>0, <1>8, PurchasingCallIs DEF RejectReceipt
    <2>2. PICK n \in Int : n = grn[g].moved - 1  BY <1>0 DEF GrnRow
    <2>3. /\ grn' = [grn EXCEPT ![g].status = "rejected", ![g].moved = n]
          /\ received' = [l \in Lines |-> received[l] - grn[g].brought[l]]
          /\ po' = po
      BY <1>8, <2>1, <2>2 DEF RejectReceipt
    <2>4. /\ grn'[g].status = "rejected" /\ grn'[g].moved = n
          /\ \A h \in Receipts : h # g => grn'[h] = grn[h]
          /\ \A h \in Receipts : grn'[h].brought = grn[h].brought /\ grn'[h].revision = grn[h].revision
      <3>1. /\ grn'[g] = [grn[g] EXCEPT !.status = "rejected", !.moved = n]
            /\ \A h \in Receipts : h # g => grn'[h] = grn[h]
        BY Zenon, <1>0, <2>3
      <3>2. /\ grn'[g].status = "rejected" /\ grn'[g].moved = n
            /\ grn'[g].brought = grn[g].brought /\ grn'[g].revision = grn[g].revision
        BY <1>0, <3>1, GrnFields
      <3> QED  BY <3>1, <3>2
    <2>5. ASSUME NEW l \in Lines
          PROVE  received'[l]
                   <= SumOf(Brought(grn', l), Live(grn', LineOf[l], po'[LineOf[l]].revision))
      <3>1. PICK S, T : /\ S = Live(grn, LineOf[l], po[LineOf[l]].revision)
                        /\ T = Live(grn', LineOf[l], po'[LineOf[l]].revision)
        OBVIOUS
      <3>2. S \in SUBSET Receipts /\ T = S \ {g}
        BY <2>3, <2>4, <3>1 DEF Live
      <3>3. T \in SUBSET Receipts  BY <3>2
      <3>4. SumOf(Brought(grn', l), T) = SumOf(Brought(grn, l), T)
        BY <1>0, <2>4, <3>3, SameBrought
      <3>5. SumOf(Brought(grn, l), T) \in Int /\ SumOf(Brought(grn, l), S) \in Int
        BY <1>0, <3>2, <3>3, BroughtNat
      <3>6. grn[g].brought[l] \in Nat  BY <1>0 DEF GrnRow, Quantities
      <3>7. /\ received[l] <= SumOf(Brought(grn, l), S) /\ received[l] \in Int
            /\ received'[l] = received[l] - grn[g].brought[l]
        BY <1>0, <2>3, <3>1
      <3>8. CASE g \in S
        <4>1. IsFiniteSet(S) /\ IntOn(Brought(grn, l), S)
              /\ Brought(grn, l)[g] = grn[g].brought[l]
          BY <1>0, <3>2, BroughtNat
        <4>2. SumOf(Brought(grn, l), S) = grn[g].brought[l] + SumOf(Brought(grn, l), T)
          BY <3>2, <3>8, <4>1, SumTake
        <4> QED  BY <3>1, <3>4, <3>5, <3>6, <3>7, <4>2
      <3>9. CASE g \notin S
        <4>1. T = S  BY <3>2, <3>9
        <4> QED  BY <3>1, <3>4, <3>5, <3>6, <3>7, <4>1
      <3> QED  BY <3>8, <3>9
    <2>6. \A h \in Receipts : /\ grn'[h].moved <= 1
                              /\ grn'[h].status = "rejected" => grn'[h].moved <= 0
      <3>1. grn[g].moved \in Int /\ grn[g].moved <= 1  BY <1>0 DEF GrnRow
      <3>2. grn'[g].moved <= 0 /\ grn'[g].moved <= 1  BY <2>2, <2>4, <3>1
      <3> QED  BY <1>0, <2>4, <3>2
    <2> QED  BY <2>5, <2>6 DEF SentBackInv
  <1>9. ASSUME NEW u \in Users,
               \/ \E p \in PurchaseOrders : StartOrderEdit(u, p)
               \/ \E g \in Receipts : StartReceipt(u, g) \/ StartInspection(u, g)
               \/ TakeLines(u) \/ PurchasingFails(u)
        PROVE  SentBackInv'
    <2>1. UNCHANGED <<po, received, grn>>
      BY <1>9
      DEF StartOrderEdit, StartReceipt, StartInspection, TakeLines, PurchasingFails, purchasingTables
    <2> QED  BY <1>1, <2>1
  <1>10. CASE UNCHANGED purchasingVars
    BY <1>1, <1>10 DEF purchasingVars, purchasingTables
  <1> QED
    BY <1>3, <1>4, <1>5, <1>6, <1>7, <1>8, <1>9, <1>10 DEF PurchasingNext

LEMMA SentBackStart == PurchasingInit => SentBackInv
  <1> SUFFICES ASSUME PurchasingInit PROVE SentBackInv
    OBVIOUS
  <1>1. grn \in [Receipts -> GrnRow]
    BY PurchasingAssumption DEF PurchasingAssumption, PurchasingInit, GrnRow, Quantities
  <1>2. \A g \in Receipts : grn[g].moved = 0  BY DEF PurchasingInit
  <1>3. ASSUME NEW l \in Lines
        PROVE  received[l] <= SumOf(Brought(grn, l), Live(grn, LineOf[l], po[LineOf[l]].revision))
    <2>1. Live(grn, LineOf[l], po[LineOf[l]].revision) \in SUBSET Receipts  BY DEF Live
    <2>2. SumOf(Brought(grn, l), Live(grn, LineOf[l], po[LineOf[l]].revision)) \in Nat
      BY <1>1, <2>1, BroughtNat
    <2>3. received[l] = 0  BY DEF PurchasingInit
    <2> QED  BY <2>2, <2>3
  <1> QED  BY <1>2, <1>3 DEF SentBackInv

-----------------------------------------------------------------------------
(* The invoices of suppliers and their payments.                           *)

Paid(made, b) == SumFunction(made[b])

(* A payment under way was checked against what payments cover.            *)
PaymentsFollow(made, calls) ==
  /\ calls \in [Users -> PayablesCall \cup {NoCall}]
  /\ \A u \in Users : calls[u].op = "pay" =>
       /\ calls[u].paid + calls[u].amount <= BillTotal
       /\ calls[u].paid <= Paid(made, calls[u].doc)

PayablesInv == PayablesTypeOK /\ BillPaidIsCovered /\ PaymentsFollow(payments, call)

LEMMA PayablesCallIs ==
  ASSUME NEW c \in PayablesCall \cup {NoCall}
  PROVE  /\ c.op \in {"post", "pay"} => c.doc \in Bills
         /\ c.op = "pay" => c.amount \in 1..BillTotal /\ c.paid \in 0..BillTotal
  <1>1. CASE c \in [op : {"post"}, doc : Bills]
    <2>1. c.op = "post" /\ c.doc \in Bills  BY <1>1
    <2> QED  BY <2>1
  <1>2. CASE c \in [op : {"pay"}, doc : Bills, amount : 1..BillTotal, paid : 0..BillTotal]
    <2>1. c.op = "pay" /\ c.doc \in Bills /\ c.amount \in 1..BillTotal /\ c.paid \in 0..BillTotal
      BY <1>2
    <2> QED  BY <2>1
  <1>3. CASE c = NoCall
    <2>1. c.op = "idle"  BY <1>3 DEF NoCall
    <2> QED  BY <2>1
  <1> QED  BY <1>1, <1>2, <1>3 DEF PayablesCall

LEMMA PaidInt ==
  ASSUME NEW made \in [Bills -> Seq(1..BillTotal)], NEW b \in Bills
  PROVE  Paid(made, b) \in Int /\ made[b] \in Seq(Int)
  <1>1. made[b] \in Seq(Int)  BY PayablesAssumption DEF PayablesAssumption
  <1> QED  BY <1>1, SumOfSequence DEF Paid

LEMMA PayablesEntered ==
  ASSUME PayablesInv, NEW u \in Users, NEW c \in PayablesCall \cup {NoCall},
         call' = [call EXCEPT ![u] = c],
         c.op = "pay" => c.paid + c.amount <= BillTotal /\ c.paid <= Paid(payments, c.doc)
  PROVE  PaymentsFollow(payments, call')
  <1>1. call \in [Users -> PayablesCall \cup {NoCall}]  BY DEF PayablesInv, PayablesTypeOK
  <1>2. /\ call' \in [Users -> PayablesCall \cup {NoCall}]
        /\ \A v \in Users : call'[v] = IF v = u THEN c ELSE call[v]
    BY <1>1, CallWritten
  <1> QED  BY <1>2 DEF PayablesInv, PaymentsFollow

LEMMA PayablesLeft ==
  ASSUME PayablesInv, NEW u \in Users, Leave(u)
  PROVE  PaymentsFollow(payments, call')
  <1>1. NoCall.op # "pay"  BY DEF NoCall
  <1> QED  BY <1>1, PayablesEntered DEF Leave

LEMMA PayablesKept ==
  ASSUME PayablesInv, bill' \in [Bills -> BillRow], payments' \in [Bills -> Seq(1..BillTotal)],
         owed' \in Int, \A b \in Bills : bill'[b].paid <= Paid(payments', b),
         PaymentsFollow(payments', call')
  PROVE  PayablesInv'
  <1>1. PayablesTypeOK'  BY DEF PayablesTypeOK, PaymentsFollow
  <1>2. BillPaidIsCovered'  BY DEF BillPaidIsCovered, Paid
  <1>3. PaymentsFollow(payments, call)'  BY DEF PaymentsFollow, Paid
  <1> QED  BY <1>1, <1>2, <1>3 DEF PayablesInv

LEMMA PayablesInductive ==
  ASSUME PayablesInv, [PayablesNext]_payablesVars
  PROVE  PayablesInv'
  <1> USE PayablesAssumption DEF PayablesAssumption
  <1>0. /\ \A u \in Users : call[u] \in PayablesCall \cup {NoCall}
        /\ bill \in [Bills -> BillRow] /\ payments \in [Bills -> Seq(1..BillTotal)] /\ owed \in Int
        /\ \A b \in Bills : bill[b].paid <= Paid(payments, b)
        /\ PaymentsFollow(payments, call)
    BY DEF PayablesInv, PayablesTypeOK, BillPaidIsCovered, Paid
  <1>1. ASSUME UNCHANGED payablesTables, PaymentsFollow(payments, call')
        PROVE  PayablesInv'
    <2>1. bill' = bill /\ payments' = payments /\ owed' = owed  BY <1>1 DEF payablesTables
    <2> QED  BY <1>0, <1>1, <2>1, PayablesKept
  <1>2. ASSUME NEW b \in Bills, NEW s \in {"draft", "posted"}, bill' = [bill EXCEPT ![b].status = s],
               payments' = payments, owed' \in Int, PaymentsFollow(payments, call')
        PROVE  PayablesInv'
    <2> DEFINE row == [bill[b] EXCEPT !.status = s]
    <2>1. row \in BillRow  BY <1>0 DEF BillRow
    <2>2. row.paid = bill[b].paid  BY <1>0 DEF BillRow
    <2>3. bill' = [bill EXCEPT ![b] = row]  BY <1>2
    <2> HIDE DEF row
    <2>4. bill' \in [Bills -> BillRow] /\ \A a \in Bills : bill'[a].paid = bill[a].paid
      BY <1>0, <2>1, <2>2, <2>3
    <2>5. \A a \in Bills : bill'[a].paid <= Paid(payments', a)  BY <1>0, <1>2, <2>4
    <2>6. payments' \in [Bills -> Seq(1..BillTotal)] /\ PaymentsFollow(payments', call')
      BY <1>0, <1>2
    <2> QED  BY <1>2, <2>4, <2>5, <2>6, PayablesKept
  <1>3. ASSUME NEW b \in Bills, CreateBill(b)
        PROVE  PayablesInv'
    <2>1. bill' = [bill EXCEPT ![b].status = "draft"] /\ payments' = payments /\ owed' = owed
          /\ call' = call
      BY <1>3 DEF CreateBill
    <2> QED  BY <1>0, <1>2, <2>1
  <1>4. ASSUME NEW u \in Users, NEW b \in Bills, StartPostBill(u, b)
        PROVE  PayablesInv'
    <2> DEFINE c == [op |-> "post", doc |-> b]
    <2>1. c \in PayablesCall /\ c.op = "post"  BY DEF PayablesCall
    <2>2. call' = [call EXCEPT ![u] = c] /\ UNCHANGED payablesTables
      BY <1>4 DEF StartPostBill, Enter
    <2> HIDE DEF c
    <2>3. PaymentsFollow(payments, call')  BY <2>1, <2>2, PayablesEntered
    <2> QED  BY <1>1, <2>2, <2>3
  <1>5. ASSUME NEW u \in Users, FinishPostBill(u)
        PROVE  PayablesInv'
    <2>1. call[u].doc \in Bills  BY <1>5, <1>0, PayablesCallIs DEF FinishPostBill
    <2>2. PaymentsFollow(payments, call')  BY <1>5, PayablesLeft DEF FinishPostBill
    <2>3. owed' \in Int  BY <1>5, <1>0 DEF FinishPostBill
    <2> QED  BY <1>2, <1>5, <2>1, <2>2, <2>3 DEF FinishPostBill
  <1>6. ASSUME NEW u \in Users, NEW b \in Bills, StartPayment(u, b)
        PROVE  PayablesInv'
    <2>1. PICK paid \in 0..BillTotal : paid = bill[b].paid  BY <1>0 DEF BillRow
    <2>2. PICK amount \in 1..(BillTotal - paid) :
            call' = [call EXCEPT ![u] = [op |-> "pay", doc |-> b, amount |-> amount, paid |-> paid]]
      BY <1>6, <2>1 DEF StartPayment, Enter
    <2> DEFINE c == [op |-> "pay", doc |-> b, amount |-> amount, paid |-> paid]
    <2>3. amount \in 1..BillTotal /\ paid + amount <= BillTotal  BY <2>2
    <2>4. c \in PayablesCall /\ c.paid = paid /\ c.amount = amount /\ c.doc = b
      BY <2>3 DEF PayablesCall
    <2>5. call' = [call EXCEPT ![u] = c]  BY <2>2
    <2> HIDE DEF c
    <2>6. c.paid <= Paid(payments, c.doc)  BY <1>0, <2>1, <2>4
    <2>7. PaymentsFollow(payments, call')  BY <2>3, <2>4, <2>5, <2>6, PayablesEntered
    <2> QED  BY <1>1, <1>6, <2>7 DEF StartPayment
  <1>7. ASSUME NEW u \in Users, FinishPayment(u)
        PROVE  PayablesInv'
    <2>1. PICK b \in Bills, amount \in 1..BillTotal, before \in 0..BillTotal :
            b = call[u].doc /\ amount = call[u].amount /\ before = call[u].paid
      BY <1>7, <1>0, PayablesCallIs DEF FinishPayment
    <2> DEFINE paid == before + amount
               s == IF paid >= BillTotal THEN "paid" ELSE "partially_paid"
               row == [status |-> s, paid |-> paid]
    <2>2. before + amount <= BillTotal /\ before <= Paid(payments, b)
      BY <1>7, <1>0, <2>1 DEF FinishPayment, PaymentsFollow
    <2>3. /\ payments' = [payments EXCEPT ![b] = Append(@, amount)]
          /\ bill' = [bill EXCEPT ![b] = row]
          /\ owed' = owed - amount
      BY <1>7, <2>1 DEF FinishPayment
    <2>4. row \in BillRow /\ row.paid = paid  BY <2>1, <2>2 DEF BillRow
    <2> HIDE DEF row, s
    <2>5. payments' \in [Bills -> Seq(1..BillTotal)]
          /\ payments'[b] = Append(payments[b], amount)
          /\ \A a \in Bills : a # b => payments'[a] = payments[a]
      BY <1>0, <2>3
    <2>6. Paid(payments', b) = Paid(payments, b) + amount
      <3>1. payments[b] \in Seq(Int) /\ amount \in Int  BY <1>0
      <3> QED  BY <2>5, <3>1, SumAppend DEF Paid
    <2>7. \A a \in Bills : Paid(payments, a) <= Paid(payments', a)
      <3>1. ASSUME NEW a \in Bills PROVE Paid(payments, a) <= Paid(payments', a)
        <4>1. Paid(payments, a) \in Int  BY <1>0, PaidInt
        <4>2. CASE a = b  BY <2>6, <4>1, <4>2
        <4>3. CASE a # b
          <5>1. Paid(payments', a) = Paid(payments, a)  BY <2>5, <4>3 DEF Paid
          <5> QED  BY <4>1, <5>1
        <4> QED  BY <4>2, <4>3
      <3> QED  BY <3>1
    <2>8. \A a \in Bills : Paid(payments, a) \in Int /\ Paid(payments', a) \in Int
      BY <1>0, <2>5, PaidInt
    <2>9. ASSUME NEW a \in Bills PROVE bill'[a].paid <= Paid(payments', a)
      <3>1. CASE a = b
        <4>1. bill'[a].paid = before + amount  BY <1>0, <2>3, <2>4, <3>1
        <4> QED  BY <2>2, <2>6, <2>8, <3>1, <4>1
      <3>2. CASE a # b
        <4>1. bill'[a] = bill[a] /\ bill[a].paid \in Int
          BY <1>0, <2>3, <3>2 DEF BillRow
        <4>2. bill[a].paid <= Paid(payments, a) /\ Paid(payments, a) <= Paid(payments', a)
          BY <1>0, <2>7
        <4> QED  BY <2>8, <4>1, <4>2
      <3> QED  BY <3>1, <3>2
    <2>10. PaymentsFollow(payments, call')  BY <1>7, PayablesLeft DEF FinishPayment
    <2>11. ASSUME NEW v \in Users, call'[v].op = "pay"
           PROVE  call'[v].paid <= Paid(payments', call'[v].doc)
      <3>1. call'[v].paid <= Paid(payments, call'[v].doc)  BY <2>10, <2>11 DEF PaymentsFollow
      <3>2. call'[v].doc \in Bills /\ call'[v].paid \in Int
        BY <2>10, <2>11, PayablesCallIs DEF PaymentsFollow
      <3> HIDE <2>11
      <3> QED  BY <2>7, <2>8, <3>1, <3>2
    <2>12. PaymentsFollow(payments', call')  BY <2>10, <2>11 DEF PaymentsFollow
    <2>13. bill' \in [Bills -> BillRow] /\ owed' \in Int  BY <1>0, <2>3, <2>4
    <2> QED  BY <2>5, <2>9, <2>12, <2>13, PayablesKept
  <1>8. ASSUME NEW u \in Users, PayablesFails(u)
        PROVE  PayablesInv'
    <2>1. PaymentsFollow(payments, call')  BY <1>8, PayablesLeft DEF PayablesFails, Fails
    <2> QED  BY <1>1, <1>8, <2>1 DEF PayablesFails
  <1>9. CASE UNCHANGED payablesVars
    BY <1>0, <1>1, <1>9 DEF payablesVars
  <1> QED
    BY <1>3, <1>4, <1>5, <1>6, <1>7, <1>8, <1>9 DEF PayablesNext

LEMMA PayablesStart == PayablesInit => PayablesInv
  <1> USE PayablesAssumption DEF PayablesAssumption
  <1> SUFFICES ASSUME PayablesInit PROVE PayablesInv
    OBVIOUS
  <1>1. bill \in [Bills -> BillRow] /\ \A b \in Bills : bill[b].paid = 0 /\ payments[b] = <<>>
    BY DEF PayablesInit, BillRow
  <1>2. payments \in [Bills -> Seq(1..BillTotal)] /\ owed \in Int
    BY DEF PayablesInit
  <1>3. \A b \in Bills : bill[b].paid <= SumFunction(payments[b])
    BY <1>1, SumOfNothing
  <1>4. call \in [Users -> PayablesCall \cup {NoCall}] /\ \A u \in Users : call[u].op = "idle"
    BY DEF PayablesInit, CallsInit, NoCall
  <1> QED
    BY <1>1, <1>2, <1>3, <1>4 DEF PayablesInv, PayablesTypeOK, BillPaidIsCovered, PaymentsFollow

(* What a bill says was paid has been paid, whatever payments of it        *)
(* overlap: each is written with what it adds up to.                       *)
THEOREM BillsPaidAreCovered == PayablesSpec => [](PayablesTypeOK /\ BillPaidIsCovered)
  <1>1. PayablesInit => PayablesInv  BY PayablesStart
  <1>2. PayablesInv /\ [PayablesNext]_payablesVars => PayablesInv'  BY PayablesInductive
  <1>3. PayablesInv => PayablesTypeOK /\ BillPaidIsCovered  BY DEF PayablesInv
  <1> QED  BY <1>1, <1>2, <1>3, PTL DEF PayablesSpec

-----------------------------------------------------------------------------
(* Fixed assets and their depreciation.                                    *)

AmountsOf(rows, a) == [m \in Months |-> rows[a][m].amount]

AssetsInv == AssetsTypeOK /\ LedgerMatchesSchedule

LEMMA AmountsAdd ==
  ASSUME NEW rows \in [Assets -> [Months -> ChargeRow]], NEW a \in Assets
  PROVE  /\ IsFiniteSet(Months) /\ IntOn(AmountsOf(rows, a), Months)
         /\ SumFunction(AmountsOf(rows, a)) = SumOf(AmountsOf(rows, a), Months)
         /\ SumFunction(AmountsOf(rows, a)) \in Int
  <1>1. IsFiniteSet(Months)  BY AssetsAssumption DEF AssetsAssumption
  <1>2. IntOn(AmountsOf(rows, a), Months) /\ DOMAIN AmountsOf(rows, a) = Months
    BY DEF IntOn, AmountsOf, ChargeRow
  <1>3. SumFunction(AmountsOf(rows, a)) = SumOf(AmountsOf(rows, a), Months)
    BY <1>1, <1>2, SumFunctionIs
  <1> QED  BY <1>1, <1>2, <1>3, SumInt

(* One row of the schedule takes another amount.                           *)
LEMMA AmountChanges ==
  ASSUME NEW rows \in [Assets -> [Months -> ChargeRow]], NEW next \in [Assets -> [Months -> ChargeRow]],
         NEW a \in Assets, NEW m \in Months,
         \A k \in Months \ {m} : next[a][k] = rows[a][k]
  PROVE  SumFunction(AmountsOf(next, a))
           = SumFunction(AmountsOf(rows, a)) + next[a][m].amount - rows[a][m].amount
  <1> DEFINE f == AmountsOf(rows, a)  g == AmountsOf(next, a)
  <1>1. /\ IsFiniteSet(Months) /\ IntOn(f, Months) /\ IntOn(g, Months)
        /\ SumFunction(f) = SumOf(f, Months) /\ SumFunction(g) = SumOf(g, Months)
        /\ SumFunction(f) \in Int /\ SumFunction(g) \in Int
    BY AmountsAdd
  <1>2. (\A k \in Months \ {m} : f[k] = g[k]) /\ f[m] = rows[a][m].amount /\ g[m] = next[a][m].amount
    BY DEF AmountsOf
  <1> HIDE DEF f, g
  <1>3. SumOf(g, Months) - SumOf(f, Months) = g[m] - f[m]  BY <1>1, <1>2, SumChange
  <1>4. g[m] \in Int /\ f[m] \in Int  BY <1>1 DEF IntOn
  <1>5. SumFunction(g) = SumFunction(f) + g[m] - f[m]  BY <1>1, <1>3, <1>4
  <1> QED  BY <1>2, <1>5 DEF f, g

LEMMA AssetsCallIs ==
  ASSUME NEW c \in AssetsCall \cup {NoCall}
  PROVE  /\ c.op \in {"maintain", "dispose"} => c.doc \in Assets /\ c.read \in AssetRow
         /\ c.op = "generate" => /\ c.month \in Months /\ c.read \in [Assets -> AssetRow]
                                 /\ c.todo \in SUBSET Assets
         /\ c.op \in {"reverse", "reversing"} =>
              c.doc \in Assets /\ c.month \in Months /\ c.charge \in ChargeRow
         /\ c.op = "reversing" => c.read \in AssetRow
  <1>1. CASE c \in [op : {"maintain", "dispose"}, doc : Assets, read : AssetRow]
    <2>1. c.op \in {"maintain", "dispose"} /\ c.doc \in Assets /\ c.read \in AssetRow  BY <1>1
    <2> QED  BY <2>1
  <1>2. CASE c \in [op : {"generate"}, month : Months, read : [Assets -> AssetRow], todo : SUBSET Assets]
    <2>1. c.op = "generate" /\ c.month \in Months  BY <1>2
    <2>2. c.read \in [Assets -> AssetRow] /\ c.todo \in SUBSET Assets  BY <1>2
    <2> QED  BY <2>1, <2>2
  <1>3. CASE c \in [op : {"reverse"}, doc : Assets, month : Months, charge : ChargeRow]
    <2>1. c.op = "reverse" /\ c.doc \in Assets /\ c.month \in Months /\ c.charge \in ChargeRow  BY <1>3
    <2> QED  BY <2>1
  <1>4. CASE c \in [op : {"reversing"}, doc : Assets, month : Months, charge : ChargeRow, read : AssetRow]
    <2>1. c.op = "reversing" /\ c.doc \in Assets /\ c.month \in Months /\ c.charge \in ChargeRow
      BY <1>4
    <2>2. c.read \in AssetRow  BY <1>4
    <2> QED  BY <2>1, <2>2
  <1>5. CASE c = NoCall
    <2>1. c.op = "idle"  BY <1>5 DEF NoCall
    <2> QED  BY <2>1
  <1> QED  BY <1>1, <1>2, <1>3, <1>4, <1>5 DEF AssetsCall

(* The run has dealt with an asset.                                        *)
LEMMA GenerateGoesOn ==
  ASSUME NEW c \in AssetsCall \cup {NoCall}, c.op = "generate", NEW a
  PROVE  [c EXCEPT !.todo = @ \ {a}] \in AssetsCall
  <1>1. c \in [op : {"generate"}, month : Months, read : [Assets -> AssetRow], todo : SUBSET Assets]
    <2>1. NoCall.op = "idle"  BY DEF NoCall
    <2> QED  BY <2>1 DEF AssetsCall
  <1>2. c.todo \in SUBSET Assets  BY <1>1
  <1>3. [c EXCEPT !.todo = c.todo \ {a}]
          \in [op : {"generate"}, month : Months, read : [Assets -> AssetRow], todo : SUBSET Assets]
    BY <1>1, <1>2
  <1> QED  BY <1>3 DEF AssetsCall

LEMMA AssetWritten ==
  \A row \in AssetRow, cost \in 0..MaxCost, accum \in Int, book \in Int,
     stands \in {"none", "active", "disposed"} :
    /\ [row EXCEPT !.cost = cost, !.book = book] \in AssetRow
    /\ [row EXCEPT !.status = stands, !.book = book] \in AssetRow
    /\ [row EXCEPT !.accum = accum, !.book = book] \in AssetRow
  <1> SUFFICES ASSUME NEW row \in AssetRow, NEW cost \in 0..MaxCost, NEW accum \in Int, NEW book \in Int,
                      NEW stands \in {"none", "active", "disposed"}
               PROVE  /\ [row EXCEPT !.cost = cost, !.book = book] \in AssetRow
                      /\ [row EXCEPT !.status = stands, !.book = book] \in AssetRow
                      /\ [row EXCEPT !.accum = accum, !.book = book] \in AssetRow
    BY Zenon
  <1>1. [row EXCEPT !.cost = cost, !.book = book] \in AssetRow  BY DEF AssetRow
  <1>2. [row EXCEPT !.status = stands, !.book = book] \in AssetRow  BY DEF AssetRow
  <1>3. [row EXCEPT !.accum = accum, !.book = book] \in AssetRow  BY DEF AssetRow
  <1> QED  BY Zenon, <1>1, <1>2, <1>3

LEMMA MinOfTwo ==
  ASSUME NEW m \in Int, NEW n \in Int
  PROVE  Min({m, n}) \in {m, n}
  <1>1. \E x \in {m, n} : \A y \in {m, n} : x <= y  OBVIOUS
  <1> QED  BY <1>1 DEF Min

LEMMA AssetsKept ==
  ASSUME AssetsInv, asset' \in [Assets -> AssetRow], charge' \in [Assets -> [Months -> ChargeRow]],
         expensed' \in [Assets -> Int], call' \in [Users -> AssetsCall \cup {NoCall}],
         \A a \in Assets : expensed'[a] = SumFunction(AmountsOf(charge', a))
  PROVE  AssetsInv'
  <1>1. AssetsTypeOK'  BY DEF AssetsTypeOK
  <1>2. LedgerMatchesSchedule'  BY DEF LedgerMatchesSchedule, AmountsOf
  <1> QED  BY <1>1, <1>2 DEF AssetsInv

LEMMA AssetsInductive ==
  ASSUME AssetsInv, [AssetsNext]_assetsVars
  PROVE  AssetsInv'
  <1> USE AssetsAssumption DEF AssetsAssumption
  <1>0. /\ call \in [Users -> AssetsCall \cup {NoCall}]
        /\ asset \in [Assets -> AssetRow] /\ charge \in [Assets -> [Months -> ChargeRow]]
        /\ expensed \in [Assets -> Int]
        /\ \A a \in Assets : expensed[a] = SumFunction(AmountsOf(charge, a))
    BY DEF AssetsInv, AssetsTypeOK, LedgerMatchesSchedule, AmountsOf
  <1>1. ASSUME UNCHANGED <<charge, expensed>>, asset' \in [Assets -> AssetRow],
               call' \in [Users -> AssetsCall \cup {NoCall}]
        PROVE  AssetsInv'
    <2>1. charge' \in [Assets -> [Months -> ChargeRow]] /\ expensed' \in [Assets -> Int]
          /\ \A a \in Assets : expensed'[a] = SumFunction(AmountsOf(charge', a))
      BY <1>0, <1>1
    <2> QED  BY <1>1, <2>1, AssetsKept
  <1>2. ASSUME UNCHANGED assetsTables, NEW u \in Users, NEW c \in AssetsCall \cup {NoCall},
               call' = [call EXCEPT ![u] = c]
        PROVE  AssetsInv'
    <2>1. call' \in [Users -> AssetsCall \cup {NoCall}]  BY <1>0, <1>2
    <2>2. asset' = asset /\ charge' = charge /\ expensed' = expensed  BY <1>2 DEF assetsTables
    <2> QED  BY <1>0, <1>1, <2>1, <2>2
  <1>3. ASSUME NEW u \in Users, NEW a \in Assets, NEW row \in AssetRow,
               asset' = [asset EXCEPT ![a] = row], UNCHANGED <<charge, expensed>>, Leave(u)
        PROVE  AssetsInv'
    <2>1. call' \in [Users -> AssetsCall \cup {NoCall}]  BY <1>0, <1>3 DEF Leave
    <2>2. asset' \in [Assets -> AssetRow]  BY <1>0, <1>3
    <2> QED  BY <1>1, <1>3, <2>1, <2>2
  (* The amount of one row, and what is expensed, change alike. *)
  <1>4. ASSUME NEW a \in Assets, NEW m \in Months, NEW row \in ChargeRow, NEW next \in AssetRow,
               charge' = [charge EXCEPT ![a][m] = row], asset' = [asset EXCEPT ![a] = next],
               expensed' = [expensed EXCEPT ![a] = expensed[a] + row.amount - charge[a][m].amount],
               call' \in [Users -> AssetsCall \cup {NoCall}]
        PROVE  AssetsInv'
    <2>1. charge' \in [Assets -> [Months -> ChargeRow]]  BY <1>0, <1>4
    <2>2. charge'[a][m] = row /\ (\A k \in Months \ {m} : charge'[a][k] = charge[a][k])
          /\ \A b \in Assets \ {a} : charge'[b] = charge[b]
      BY <1>0, <1>4
    <2>3. SumFunction(AmountsOf(charge', a)) = SumFunction(AmountsOf(charge, a)) + row.amount - charge[a][m].amount
      BY <1>0, <2>1, <2>2, AmountChanges
    <2>4. row.amount \in Int /\ charge[a][m].amount \in Int  BY <1>0 DEF ChargeRow
    <2>5. expensed' \in [Assets -> Int] /\ asset' \in [Assets -> AssetRow]  BY <1>0, <1>4, <2>4
    <2>6. ASSUME NEW b \in Assets
          PROVE  expensed'[b] = SumFunction(AmountsOf(charge', b))
      <3>1. CASE b = a  BY <1>0, <1>4, <2>3, <3>1
      <3>2. CASE b # a
        <4>1. AmountsOf(charge', b) = AmountsOf(charge, b)  BY <2>2, <3>2 DEF AmountsOf
        <4> QED  BY <1>0, <1>4, <3>2, <4>1
      <3> QED  BY <3>1, <3>2
    <2> QED  BY <1>4, <2>1, <2>5, <2>6, AssetsKept
  <1>5. ASSUME NEW a \in Assets, Acquire(a)
        PROVE  AssetsInv'
    <2> DEFINE row == [status |-> "active", cost |-> Cost, accum |-> 0, book |-> Cost]
    <2>1. row \in AssetRow  BY DEF AssetRow
    <2>2. asset' = [asset EXCEPT ![a] = row] /\ UNCHANGED <<charge, expensed, call>>
      BY <1>5 DEF Acquire
    <2> HIDE DEF row
    <2>3. asset' \in [Assets -> AssetRow]  BY <1>0, <2>1, <2>2
    <2> QED  BY <1>0, <1>1, <2>2, <2>3
  <1>6. ASSUME NEW u \in Users, NEW a \in Assets, StartAssetStep(u, a)
        PROVE  AssetsInv'
    <2>1. PICK op \in {"maintain", "dispose"} :
            call' = [call EXCEPT ![u] = [op |-> op, doc |-> a, read |-> asset[a]]]
      BY <1>6 DEF StartAssetStep, Enter
    <2>2. [op |-> op, doc |-> a, read |-> asset[a]] \in AssetsCall  BY <1>0 DEF AssetsCall
    <2> QED  BY <1>2, <1>6, <2>1, <2>2 DEF StartAssetStep
  <1>7. ASSUME NEW u \in Users, FinishMaintenance(u)
        PROVE  AssetsInv'
    <2>1. PICK a \in Assets, read \in AssetRow : a = call[u].doc /\ read = call[u].read
      BY <1>7, <1>0, AssetsCallIs DEF FinishMaintenance
    <2> DEFINE cost == read.cost + 1  book == cost - read.accum
               row == [asset[a] EXCEPT !.cost = cost, !.book = book]
    <2>2. cost \in 0..MaxCost /\ book \in Int /\ 0 \in Int /\ "active" \in {"none", "active", "disposed"}
      <3>1. read.cost \in 0..MaxCost /\ read.accum \in Int  BY DEF AssetRow
      <3> QED  BY <1>7, <2>1, <3>1 DEF FinishMaintenance
    <2>3. asset' = [asset EXCEPT ![a] = row] /\ UNCHANGED <<charge, expensed>> /\ Leave(u)
      BY <1>7, <2>1 DEF FinishMaintenance
    <2>4. asset[a] \in AssetRow  BY <1>0
    <2> HIDE DEF cost, book
    <2>5. row \in AssetRow  BY <2>2, <2>4, AssetWritten, Zenon
    <2> HIDE DEF row
    <2> QED  BY <1>3, <2>3, <2>5
  <1>8. ASSUME NEW u \in Users, FinishDisposal(u)
        PROVE  AssetsInv'
    <2>1. PICK a \in Assets : a = call[u].doc
      BY <1>8, <1>0, AssetsCallIs DEF FinishDisposal
    <2> DEFINE row == [asset[a] EXCEPT !.status = "disposed", !.book = 0]
    <2>2. asset' = [asset EXCEPT ![a] = row] /\ UNCHANGED <<charge, expensed>> /\ Leave(u)
      BY <1>8, <2>1 DEF FinishDisposal
    <2>3. asset[a] \in AssetRow /\ 0 \in 0..MaxCost /\ 0 \in Int
          /\ "disposed" \in {"none", "active", "disposed"}
      BY <1>0
    <2>4. row \in AssetRow  BY <2>3, AssetWritten, Zenon
    <2> HIDE DEF row
    <2> QED  BY <1>3, <2>2, <2>4
  <1>9. ASSUME NEW u \in Users, NEW m \in Months, StartGenerate(u, m)
        PROVE  AssetsInv'
    <2> DEFINE c == [op |-> "generate", month |-> m, read |-> asset,
                     todo |-> {a \in Assets : asset[a].status = "active"}]
    <2>1. c \in AssetsCall  BY <1>0 DEF AssetsCall
    <2>2. call' = [call EXCEPT ![u] = c]  BY <1>9 DEF StartGenerate, Enter
    <2> HIDE DEF c
    <2> QED  BY <1>2, <1>9, <2>1, <2>2 DEF StartGenerate
  <1>10. ASSUME NEW u \in Users, NEW a \in Assets, SkipAsset(u, a)
         PROVE  AssetsInv'
    <2> DEFINE c == [call[u] EXCEPT !.todo = @ \ {a}]
    <2>1. call[u] \in AssetsCall \cup {NoCall} /\ call[u].op = "generate"
      BY <1>0, <1>10 DEF SkipAsset
    <2>2. c \in AssetsCall  BY <2>1, GenerateGoesOn
    <2>3. call' = [call EXCEPT ![u] = c]  BY <1>10 DEF SkipAsset, Proceed
    <2> HIDE DEF c
    <2> QED  BY <1>2, <1>10, <2>2, <2>3 DEF SkipAsset
  <1>11. ASSUME NEW u \in Users, NEW a \in Assets, Depreciate(u, a)
         PROVE  AssetsInv'
    <2> DEFINE c == call[u]  next == [c EXCEPT !.todo = @ \ {a}]
    <2>1. c \in AssetsCall \cup {NoCall} /\ c.op = "generate"
      BY <1>0, <1>11 DEF Depreciate
    <2>2. PICK m \in Months, read \in AssetRow : m = c.month /\ read = c.read[a]
      BY <2>1, AssetsCallIs
    <2>3. PICK due \in 1..MaxCharge :
            LET amount == Min({due, read.cost - read.accum})
                accum == read.accum + amount
            IN  /\ amount > 0
                /\ charge' = [charge EXCEPT ![a][m] = [amount |-> amount, row |-> @.row + 1]]
                /\ expensed' = [expensed EXCEPT ![a] = @ + amount]
                /\ asset' = [asset EXCEPT ![a].accum = accum, ![a].book = read.cost - accum]
      BY Zenon, <1>11, <2>2 DEF Depreciate
    <2>4. read.cost \in Int /\ read.accum \in Int  BY DEF AssetRow
    <2>5. PICK amount \in Int : amount = Min({due, read.cost - read.accum})
      <3>1. due \in Int /\ read.cost - read.accum \in Int  BY <2>4
      <3> QED  BY <3>1, MinOfTwo
    <2> DEFINE accum == read.accum + amount  book == read.cost - accum
               row == [amount |-> amount, row |-> charge[a][m].row + 1]
               after == [asset[a] EXCEPT !.accum = accum, !.book = book]
    <2>6. /\ amount > 0
          /\ charge' = [charge EXCEPT ![a][m] = row]
          /\ expensed' = [expensed EXCEPT ![a] = expensed[a] + amount]
          /\ asset' = [asset EXCEPT ![a] = after]
      BY <2>3, <2>5
    <2>7. charge[a][m].amount = 0 /\ charge[a][m].row < MaxRows
      BY <1>11, <2>2 DEF Depreciate
    <2>8. charge[a][m].row \in 0..MaxRows  BY <1>0 DEF ChargeRow
    <2>9. row \in ChargeRow /\ row.amount = amount
      BY <2>6, <2>7, <2>8 DEF ChargeRow
    <2>10. after \in AssetRow
      <3>1. asset[a] \in AssetRow /\ accum \in Int /\ book \in Int /\ 0 \in 0..MaxCost
            /\ "active" \in {"none", "active", "disposed"}
        BY <1>0, <2>4
      <3> HIDE DEF accum, book
      <3> QED  BY <3>1, AssetWritten, Zenon
    <2>11. call' = [call EXCEPT ![u] = next]  BY <1>11 DEF Depreciate, Proceed
    <2>12. next \in AssetsCall  BY <2>1, GenerateGoesOn
    <2> HIDE DEF next, after, row, c
    <2>13. call' \in [Users -> AssetsCall \cup {NoCall}]  BY <1>0, <2>11, <2>12
    <2>14. expensed[a] + row.amount - charge[a][m].amount = expensed[a] + amount
      BY <1>0, <2>7, <2>9
    <2> QED  BY <1>4, <2>6, <2>9, <2>10, <2>13, <2>14
  <1>12. ASSUME NEW u \in Users, FinishGenerate(u)
         PROVE  AssetsInv'
    BY <1>2, <1>12 DEF FinishGenerate, Leave
  <1>13. ASSUME NEW u \in Users, NEW a \in Assets, NEW m \in Months, StartReverse(u, a, m)
         PROVE  AssetsInv'
    <2> DEFINE c == [op |-> "reverse", doc |-> a, month |-> m, charge |-> charge[a][m]]
    <2>1. c \in AssetsCall  BY <1>0 DEF AssetsCall
    <2>2. call' = [call EXCEPT ![u] = c]  BY <1>13 DEF StartReverse, Enter
    <2> HIDE DEF c
    <2> QED  BY <1>2, <1>13, <2>1, <2>2 DEF StartReverse
  <1>14. ASSUME NEW u \in Users, ReadReversed(u)
         PROVE  AssetsInv'
    <2>1. PICK a \in Assets, m \in Months, row \in ChargeRow :
            a = call[u].doc /\ m = call[u].month /\ row = call[u].charge
      BY <1>14, <1>0, AssetsCallIs DEF ReadReversed
    <2> DEFINE c == [op |-> "reversing", doc |-> a, month |-> m, charge |-> row, read |-> asset[a]]
    <2>2. c \in AssetsCall  BY <1>0 DEF AssetsCall
    <2>3. call' = [call EXCEPT ![u] = c]  BY <1>14, <2>1 DEF ReadReversed, Proceed
    <2> HIDE DEF c
    <2> QED  BY <1>2, <1>14, <2>2, <2>3 DEF ReadReversed
  <1>15. ASSUME NEW u \in Users, FinishReverse(u)
         PROVE  AssetsInv'
    <2>1. PICK a \in Assets, m \in Months, was \in ChargeRow, read \in AssetRow :
            a = call[u].doc /\ m = call[u].month /\ was = call[u].charge /\ read = call[u].read
      BY <1>15, <1>0, AssetsCallIs DEF FinishReverse
    <2> DEFINE accum == read.accum - was.amount  book == read.book + was.amount
               row == [charge[a][m] EXCEPT !.amount = 0]
               after == [asset[a] EXCEPT !.accum = accum, !.book = book]
    <2>2. /\ charge[a][m] = was
          /\ charge' = [charge EXCEPT ![a][m] = row]
          /\ expensed' = [expensed EXCEPT ![a] = expensed[a] - was.amount]
          /\ asset' = [asset EXCEPT ![a] = after]
          /\ call' = [call EXCEPT ![u] = NoCall]
      BY Zenon, <1>15, <2>1 DEF FinishReverse, Leave
    <2>3. was.amount \in Int /\ read.accum \in Int /\ read.book \in Int  BY DEF ChargeRow, AssetRow
    <2>4. row \in ChargeRow  BY <2>2 DEF ChargeRow
    <2>5. row.amount = 0  BY <2>2 DEF ChargeRow
    <2>6. after \in AssetRow
      <3>1. asset[a] \in AssetRow /\ accum \in Int /\ book \in Int /\ 0 \in 0..MaxCost
            /\ "active" \in {"none", "active", "disposed"}
        BY <1>0, <2>3
      <3> HIDE DEF accum, book
      <3> QED  BY <3>1, AssetWritten, Zenon
    <2> HIDE DEF row, after
    <2>7. call' \in [Users -> AssetsCall \cup {NoCall}]  BY <1>0, <2>2
    <2>8. expensed[a] + row.amount - charge[a][m].amount = expensed[a] - was.amount
      BY <1>0, <2>2, <2>3, <2>5
    <2> QED  BY <1>4, <2>2, <2>4, <2>6, <2>7, <2>8
  <1>16. ASSUME NEW u \in Users, AssetsFails(u)
         PROVE  AssetsInv'
    BY <1>2, <1>16 DEF AssetsFails, Fails, Leave
  <1>17. CASE UNCHANGED assetsVars
    BY <1>0, <1>1, <1>17 DEF assetsVars, assetsTables
  <1> QED
    BY <1>5, <1>6, <1>7, <1>8, <1>9, <1>10, <1>11, <1>12, <1>13, <1>14, <1>15, <1>16, <1>17
    DEF AssetsNext

LEMMA AssetsStart == AssetsInit => AssetsInv
  <1> USE AssetsAssumption DEF AssetsAssumption
  <1> SUFFICES ASSUME AssetsInit PROVE AssetsInv
    OBVIOUS
  <1>1. asset \in [Assets -> AssetRow]  BY DEF AssetsInit, AssetRow
  <1>2. charge \in [Assets -> [Months -> ChargeRow]]  BY DEF AssetsInit, ChargeRow
  <1>3. expensed \in [Assets -> Int] /\ call \in [Users -> AssetsCall \cup {NoCall}]
    BY DEF AssetsInit, CallsInit
  <1>4. ASSUME NEW a \in Assets
        PROVE  expensed[a] = SumFunction(AmountsOf(charge, a))
    <2>1. \A m \in Months : AmountsOf(charge, a)[m] = 0  BY DEF AssetsInit, AmountsOf
    <2>2. SumFunction(AmountsOf(charge, a)) = SumOf(AmountsOf(charge, a), Months) /\ IsFiniteSet(Months)
      BY <1>2, AmountsAdd
    <2>3. SumOf(AmountsOf(charge, a), Months) = 0  BY <2>1, <2>2, SumOfZeros
    <2> QED  BY <2>2, <2>3 DEF AssetsInit
  <1> QED
    BY <1>1, <1>2, <1>3, <1>4 DEF AssetsInv, AssetsTypeOK, LedgerMatchesSchedule, AmountsOf

(* What the ledger was charged for an asset is the sum of the rows of its  *)
(* schedule, whatever runs of a month overlap.                             *)
THEOREM LedgerKeepsSchedule == AssetsSpec => [](AssetsTypeOK /\ LedgerMatchesSchedule)
  <1>1. AssetsInit => AssetsInv  BY AssetsStart
  <1>2. AssetsInv /\ [AssetsNext]_assetsVars => AssetsInv'  BY AssetsInductive
  <1>3. AssetsInv => AssetsTypeOK /\ LedgerMatchesSchedule  BY DEF AssetsInv
  <1> QED  BY <1>1, <1>2, <1>3, PTL DEF AssetsSpec

(* A run depreciates assets that it had read active.                       *)
DueWereActive ==
  \A u \in Users : call[u].op = "generate" =>
    \A a \in call[u].todo : call[u].read[a].status = "active"

LEMMA DueWereActiveStill ==
  ASSUME AssetsTypeOK, DueWereActive, [AssetsNext]_assetsVars
  PROVE  DueWereActive'
  <1>0. call \in [Users -> AssetsCall \cup {NoCall}]  BY DEF AssetsTypeOK
  <1>1. ASSUME NEW u \in Users, NEW c, call' = [call EXCEPT ![u] = c],
               c.op = "generate" => \A a \in c.todo : c.read[a].status = "active"
        PROVE  DueWereActive'
    BY <1>0, <1>1 DEF DueWereActive
  <1>2. ASSUME NEW u \in Users, NEW m \in Months, StartGenerate(u, m)
        PROVE  DueWereActive'
    BY <1>1, <1>2 DEF StartGenerate, Enter
  <1>3. ASSUME NEW u \in Users, NEW a \in Assets, SkipAsset(u, a) \/ Depreciate(u, a)
        PROVE  DueWereActive'
    <2> DEFINE c == [call[u] EXCEPT !.todo = @ \ {a}]
    <2>1. call' = [call EXCEPT ![u] = c] /\ call[u].op = "generate"
      BY <1>3 DEF SkipAsset, Depreciate, Proceed
    <2>2. call[u] \in [op : {"generate"}, month : Months, read : [Assets -> AssetRow], todo : SUBSET Assets]
      BY <1>0, <2>1 DEF AssetsCall, NoCall
    <2>3. c.read = call[u].read /\ c.todo = call[u].todo \ {a}  BY <2>2
    <2>4. \A b \in call[u].todo : call[u].read[b].status = "active"
      BY <2>1 DEF DueWereActive
    <2> HIDE DEF c
    <2> QED  BY <1>1, <2>1, <2>3, <2>4
  <1>4. ASSUME NEW u \in Users, NEW c, call' = [call EXCEPT ![u] = c],
               c.op \in {"maintain", "dispose", "reverse", "reversing", "idle"}
        PROVE  DueWereActive'
    BY <1>1, <1>4
  <1>5. ASSUME NEW u \in Users, NEW a \in Assets,
               StartAssetStep(u, a) \/ \E m \in Months : StartReverse(u, a, m)
        PROVE  DueWereActive'
    BY <1>4, <1>5 DEF StartAssetStep, StartReverse, Enter
  <1>6. ASSUME NEW u \in Users, ReadReversed(u)
        PROVE  DueWereActive'
    BY <1>4, <1>6 DEF ReadReversed, Proceed
  <1>7. ASSUME NEW u \in Users, Leave(u)
        PROVE  DueWereActive'
    BY <1>4, <1>7 DEF Leave, NoCall
  <1>8. ASSUME NEW u \in Users, \/ FinishMaintenance(u) \/ FinishDisposal(u) \/ FinishGenerate(u)
                                \/ FinishReverse(u) \/ AssetsFails(u)
        PROVE  Leave(u)
    BY Zenon, <1>8
    DEF FinishMaintenance, FinishDisposal, FinishGenerate, FinishReverse, AssetsFails, Fails
  <1>9. (\E a \in Assets : Acquire(a)) \/ UNCHANGED assetsVars => UNCHANGED call
    BY DEF Acquire, assetsVars
  <1>10. UNCHANGED call => DueWereActive'  BY DEF DueWereActive
  <1> QED  BY <1>2, <1>3, <1>5, <1>6, <1>7, <1>8, <1>9, <1>10 DEF AssetsNext

LEMMA DisposedIsNotCharged ==
  ASSUME AssetsTypeOK, DueWereActive, [AssetsNext]_assetsVars, NEW a \in Assets, NEW m \in Months,
         asset[a].status = "disposed",
         \A u \in Users : call[u].op = "generate" /\ a \in call[u].todo
                            => call[u].read[a].status = "disposed"
  PROVE  charge'[a][m].row = charge[a][m].row
  <1>0. charge \in [Assets -> [Months -> ChargeRow]]  BY DEF AssetsTypeOK
  <1>1. ASSUME NEW u \in Users, NEW b \in Assets, Depreciate(u, b)
        PROVE  charge'[a] = charge[a]
    <2>1. b # a  BY <1>1 DEF Depreciate, DueWereActive
    <2>2. PICK row : charge' = [charge EXCEPT ![b][call[u].month] = row]
      BY <1>1 DEF Depreciate
    <2> QED  BY <1>0, <2>1, <2>2
  <1>2. ASSUME NEW u \in Users, FinishReverse(u)
        PROVE  charge'[a][m].row = charge[a][m].row
    <2>1. charge' = [charge EXCEPT ![call[u].doc][call[u].month].amount = 0]
      BY <1>2 DEF FinishReverse
    <2>2. charge[a][m] \in ChargeRow  BY <1>0
    <2>3. [charge[a][m] EXCEPT !.amount = 0].row = charge[a][m].row  BY <2>2 DEF ChargeRow
    <2>4. charge'[a][m] = charge[a][m] \/ charge'[a][m] = [charge[a][m] EXCEPT !.amount = 0]
      BY <1>0, <2>1
    <2> QED  BY <2>3, <2>4
  <1>3. \/ UNCHANGED charge
        \/ \E u \in Users : FinishReverse(u) \/ \E b \in Assets : Depreciate(u, b)
    BY Zenon DEF AssetsNext, assetsVars, assetsTables, Acquire, StartAssetStep, SkipAsset, StartReverse,
       StartGenerate, FinishMaintenance, FinishDisposal, FinishGenerate, ReadReversed, AssetsFails
  <1> QED  BY <1>1, <1>2, <1>3

-----------------------------------------------------------------------------
(* Leave, attendance and pay.                                              *)

HrInv == HrTypeOK /\ CancelledHoldsNoDay

LEMMA HrCallIs ==
  ASSUME NEW c \in HrCall \cup {NoCall}
  PROVE  /\ c.op \in {"request", "approveLeave", "rejectLeave", "cancelLeave"} => c.doc \in LeaveRequests
         /\ c.op \in {"checkIn", "manual", "absent"} => c.doc \in Days
         /\ c.op \in {"create", "review", "approve", "post", "pay", "reverse"} => c.doc \in Runs
  <1>1. CASE c \in [op : {"request", "approveLeave", "rejectLeave", "cancelLeave"}, doc : LeaveRequests]
    <2>1. c.op \in {"request", "approveLeave", "rejectLeave", "cancelLeave"} /\ c.doc \in LeaveRequests
      BY <1>1
    <2> QED  BY <2>1
  <1>2. CASE c \in [op : {"checkIn", "manual", "absent"}, doc : Days, found : BOOLEAN]
    <2>1. c.op \in {"checkIn", "manual", "absent"} /\ c.doc \in Days  BY <1>2
    <2> QED  BY <2>1
  <1>3. CASE c \in [op : {"create", "review", "approve", "post", "pay", "reverse"}, doc : Runs,
                    read : {"none", "calculated", "reviewed", "approved", "posted", "paid", "draft"}]
    <2>1. c.op \in {"create", "review", "approve", "post", "pay", "reverse"} /\ c.doc \in Runs  BY <1>3
    <2> QED  BY <2>1
  <1>4. CASE c = NoCall
    <2>1. c.op = "idle"  BY <1>4 DEF NoCall
    <2> QED  BY <2>1
  <1> QED  BY <1>1, <1>2, <1>3, <1>4 DEF HrCall

LEMMA DayMarked ==
  \A row \in DayRow, r \in LeaveRequests :
    /\ [row EXCEPT !.exists = TRUE, !.absent = FALSE, !.leaveOf = r] \in DayRow
    /\ [row EXCEPT !.exists = TRUE, !.absent = FALSE, !.leaveOf = r].leaveOf = r
  <1> SUFFICES ASSUME NEW row \in DayRow, NEW r \in LeaveRequests
               PROVE  /\ [row EXCEPT !.exists = TRUE, !.absent = FALSE, !.leaveOf = r] \in DayRow
                      /\ [row EXCEPT !.exists = TRUE, !.absent = FALSE, !.leaveOf = r].leaveOf = r
    OBVIOUS
  <1>1. [row EXCEPT !.exists = TRUE, !.absent = FALSE, !.leaveOf = r] \in DayRow
    BY DEF DayRow
  <1>2. [row EXCEPT !.exists = TRUE, !.absent = FALSE, !.leaveOf = r].leaveOf = r
    BY DEF DayRow
  <1> QED  BY <1>1, <1>2

LEMMA DayFreed ==
  \A row \in DayRow :
    /\ [row EXCEPT !.leaveOf = NoRequest] \in DayRow
    /\ [row EXCEPT !.leaveOf = NoRequest].leaveOf = NoRequest
  <1> SUFFICES ASSUME NEW row \in DayRow
               PROVE  /\ [row EXCEPT !.leaveOf = NoRequest] \in DayRow
                      /\ [row EXCEPT !.leaveOf = NoRequest].leaveOf = NoRequest
    OBVIOUS
  <1>1. [row EXCEPT !.leaveOf = NoRequest] \in DayRow  BY DEF DayRow
  <1>2. [row EXCEPT !.leaveOf = NoRequest].leaveOf = NoRequest  BY DEF DayRow
  <1> QED  BY <1>1, <1>2

LEMMA DayAttended ==
  \A row \in DayRow, in \in BOOLEAN, away \in BOOLEAN :
    /\ [row EXCEPT !.exists = TRUE, !.checkedIn = in, !.absent = away] \in DayRow
    /\ [row EXCEPT !.exists = TRUE, !.checkedIn = in, !.absent = away].leaveOf = row.leaveOf
  <1> SUFFICES ASSUME NEW row \in DayRow, NEW in \in BOOLEAN, NEW away \in BOOLEAN
               PROVE  /\ [row EXCEPT !.exists = TRUE, !.checkedIn = in, !.absent = away] \in DayRow
                      /\ [row EXCEPT !.exists = TRUE, !.checkedIn = in, !.absent = away].leaveOf
                           = row.leaveOf
    OBVIOUS
  <1>1. [row EXCEPT !.exists = TRUE, !.checkedIn = in, !.absent = away] \in DayRow
    BY DEF DayRow
  <1>2. [row EXCEPT !.exists = TRUE, !.checkedIn = in, !.absent = away].leaveOf = row.leaveOf
    BY DEF DayRow
  <1> QED  BY <1>1, <1>2

LEMMA RunWritten ==
  \A row \in RunRow, n \in 0..MaxEntries, d \in BOOLEAN,
     s \in {"none", "calculated", "reviewed", "approved", "posted", "paid", "draft"} :
    /\ [row EXCEPT !.status = s, !.deducts = d] \in RunRow
    /\ [row EXCEPT !.status = s, !.entries = n] \in RunRow
  BY DEF RunRow

(* What a step writes of the rows, and that it enters, leaves or keeps its *)
(* call.                                                                   *)
LEMMA HrKept ==
  ASSUME HrInv,
         leave' \in [LeaveRequests -> {"none", "submitted", "approved", "rejected", "cancelled"}],
         day' \in [Days -> DayRow], run' \in [Runs -> RunRow], started' \subseteq Days,
         \A d \in Days : day'[d].leaveOf # NoRequest => leave'[day'[d].leaveOf] \in {"approved", "rejected"},
         NEW u \in Users, Leave(u)
  PROVE  HrInv'
  <1>1. call' \in [Users -> HrCall \cup {NoCall}]
    BY DEF HrInv, HrTypeOK, Leave
  <1> QED  BY <1>1 DEF HrInv, HrTypeOK, CancelledHoldsNoDay

LEMMA HrInductive ==
  ASSUME HrInv, [HrNext]_hrVars
  PROVE  HrInv'
  <1> USE HumanResourcesAssumption DEF HumanResourcesAssumption
  <1>0. /\ \A u \in Users : call[u] \in HrCall \cup {NoCall}
        /\ leave \in [LeaveRequests -> {"none", "submitted", "approved", "rejected", "cancelled"}]
        /\ day \in [Days -> DayRow] /\ run \in [Runs -> RunRow] /\ started \subseteq Days
        /\ \A d \in Days : day[d].leaveOf # NoRequest => leave[day[d].leaveOf] \in {"approved", "rejected"}
    BY DEF HrInv, HrTypeOK, CancelledHoldsNoDay
  <1>1. ASSUME NEW u \in Users, NEW c \in HrCall \cup {NoCall}, call' = [call EXCEPT ![u] = c],
               UNCHANGED hrTables
        PROVE  HrInv'
    <2>1. call' \in [Users -> HrCall \cup {NoCall}]  BY <1>1 DEF HrInv, HrTypeOK
    <2>2. UNCHANGED <<leave, day, run, started>>  BY <1>1 DEF hrTables
    <2> QED  BY <1>0, <2>1, <2>2 DEF HrInv, HrTypeOK, CancelledHoldsNoDay
  <1>2. ASSUME NEW d \in Days, DayBegins(d)
        PROVE  HrInv'
    BY <1>0, <1>2 DEF DayBegins, HrInv, HrTypeOK, CancelledHoldsNoDay
  <1>3. ASSUME NEW u \in Users, NEW d \in Days, StartAttendance(u, d)
        PROVE  HrInv'
    <2>1. PICK op \in {"checkIn", "manual", "absent"} :
            call' = [call EXCEPT ![u] = [op |-> op, doc |-> d, found |-> day[d].exists]]
      BY <1>3 DEF StartAttendance, Enter
    <2> DEFINE c == [op |-> op, doc |-> d, found |-> day[d].exists]
    <2>2. c \in HrCall  BY <1>0 DEF HrCall, DayRow
    <2>3. call' = [call EXCEPT ![u] = c] /\ UNCHANGED hrTables
      BY <1>3, <2>1 DEF StartAttendance
    <2> HIDE DEF c
    <2> QED  BY <1>1, <2>2, <2>3
  <1>4. ASSUME NEW u \in Users, NEW r \in LeaveRequests, StartLeaveStep(u, r)
        PROVE  HrInv'
    <2>1. PICK op \in {"request", "approveLeave", "rejectLeave", "cancelLeave"} :
            call' = [call EXCEPT ![u] = [op |-> op, doc |-> r]]
      BY <1>4 DEF StartLeaveStep, Enter
    <2> DEFINE c == [op |-> op, doc |-> r]
    <2>2. c \in HrCall  BY DEF HrCall
    <2>3. call' = [call EXCEPT ![u] = c] /\ UNCHANGED hrTables
      BY <1>4, <2>1 DEF StartLeaveStep
    <2> HIDE DEF c
    <2> QED  BY <1>1, <2>2, <2>3
  <1>5. ASSUME NEW u \in Users, NEW p \in Runs, StartRunStep(u, p)
        PROVE  HrInv'
    <2>1. PICK op \in {"create", "review", "approve", "post", "pay", "reverse"} :
            call' = [call EXCEPT ![u] = [op |-> op, doc |-> p, read |-> run[p].status]]
      BY <1>5 DEF StartRunStep, Enter
    <2> DEFINE c == [op |-> op, doc |-> p, read |-> run[p].status]
    <2>2. c \in HrCall  BY <1>0 DEF HrCall, RunRow
    <2>3. call' = [call EXCEPT ![u] = c] /\ UNCHANGED hrTables
      BY <1>5, <2>1 DEF StartRunStep
    <2> HIDE DEF c
    <2> QED  BY <1>1, <2>2, <2>3
  <1>6. ASSUME NEW u \in Users, FinishLeaveAnswer(u)
        PROVE  HrInv'
    <2> DEFINE r == call[u].doc
               s == IF call[u].op = "request" THEN "submitted" ELSE "rejected"
    <2>1. r \in LeaveRequests /\ (s = "submitted" => leave[r] = "none") /\ s \in {"submitted", "rejected"}
      BY <1>6, <1>0, HrCallIs DEF FinishLeaveAnswer
    <2>2. leave' = [leave EXCEPT ![r] = s] /\ UNCHANGED <<day, run, started>> /\ Leave(u)
      BY <1>6 DEF FinishLeaveAnswer
    <2> HIDE DEF r, s
    <2>3. leave' \in [LeaveRequests -> {"none", "submitted", "approved", "rejected", "cancelled"}]
          /\ \A q \in LeaveRequests : leave'[q] = IF q = r THEN s ELSE leave[q]
      BY <1>0, <2>1, <2>2
    <2>4. ASSUME NEW d \in Days, day'[d].leaveOf # NoRequest
          PROVE  leave'[day'[d].leaveOf] \in {"approved", "rejected"}
      <3> DEFINE q == day[d].leaveOf
      <3>1. q \in LeaveRequests /\ leave[q] \in {"approved", "rejected"} /\ day'[d].leaveOf = q
        BY <1>0, <2>2, <2>4 DEF DayRow
      <3> HIDE DEF q
      <3>2. leave'[q] \in {"approved", "rejected"}  BY <2>1, <2>3, <3>1
      <3> QED  BY <3>1, <3>2
    <2>5. day' \in [Days -> DayRow] /\ run' \in [Runs -> RunRow] /\ started' \subseteq Days
      BY <1>0, <2>2
    <2> QED  BY <2>2, <2>3, <2>4, <2>5, HrKept
  <1>7. ASSUME NEW u \in Users, ApproveLeave(u)
        PROVE  HrInv'
    <2> DEFINE r == call[u].doc
    <2>1. r \in LeaveRequests
      BY Zenon, <1>7, <1>0, HrCallIs DEF ApproveLeave
    <2>2. /\ leave' = [leave EXCEPT ![r] = "approved"]
          /\ day' = [d \in Days |-> IF d \in LeaveDays[r]
                                      THEN [day[d] EXCEPT !.exists = TRUE, !.absent = FALSE, !.leaveOf = r]
                                      ELSE day[d]]
          /\ UNCHANGED <<run, started>> /\ Leave(u)
      BY Zenon, <1>7 DEF ApproveLeave
    <2> HIDE DEF r
    <2>3. leave' \in [LeaveRequests -> {"none", "submitted", "approved", "rejected", "cancelled"}]
          /\ \A q \in LeaveRequests : leave'[q] = IF q = r THEN "approved" ELSE leave[q]
      BY Zenon, <1>0, <2>1, <2>2
    <2>4. ASSUME NEW d \in Days
          PROVE  /\ day'[d] \in DayRow
                 /\ day'[d].leaveOf # NoRequest => leave'[day'[d].leaveOf] \in {"approved", "rejected"}
      <3>1. CASE d \in LeaveDays[r]
        <4>1. day'[d] = [day[d] EXCEPT !.exists = TRUE, !.absent = FALSE, !.leaveOf = r]
          BY Zenon, <2>2, <3>1
        <4>2. day[d] \in DayRow /\ r \in LeaveRequests
          BY <1>0, <2>1
        <4>5. [day[d] EXCEPT !.exists = TRUE, !.absent = FALSE, !.leaveOf = r] \in DayRow
          BY <4>2, DayMarked, Zenon
        <4>3. day'[d] \in DayRow  BY <4>1, <4>5, Zenon
        <4>4. day'[d].leaveOf = r  BY <4>1, <4>2, DayMarked, Zenon
        <4> QED  BY <2>1, <2>3, <4>3, <4>4
      <3>2. CASE d \notin LeaveDays[r]
        <4>1. day'[d] = day[d]  BY Zenon, <2>2, <3>2
        <4>2. day[d].leaveOf \in LeaveRequests \cup {NoRequest}  BY <1>0 DEF DayRow
        <4> QED  BY <1>0, <2>3, <4>1, <4>2
      <3> QED  BY <3>1, <3>2
    <2>5. day' \in [Days -> DayRow]  BY Zenon, <2>2, <2>4
    <2>6. run' \in [Runs -> RunRow] /\ started' \subseteq Days  BY Zenon, <1>0, <2>2
    <2> QED  BY Zenon, <2>2, <2>3, <2>4, <2>5, <2>6, HrKept
  <1>8. ASSUME NEW u \in Users, CancelLeave(u)
        PROVE  HrInv'
    <2> DEFINE r == call[u].doc
    <2>1. r \in LeaveRequests
      BY <1>8, <1>0, HrCallIs DEF CancelLeave
    <2>2. /\ leave' = [leave EXCEPT ![r] = "cancelled"]
          /\ day' = [d \in Days |-> IF day[d].leaveOf = r
                                      THEN [day[d] EXCEPT !.leaveOf = NoRequest] ELSE day[d]]
          /\ UNCHANGED <<run, started>> /\ Leave(u)
      BY <1>8 DEF CancelLeave
    <2> HIDE DEF r
    <2>3. leave' \in [LeaveRequests -> {"none", "submitted", "approved", "rejected", "cancelled"}]
          /\ \A q \in LeaveRequests : leave'[q] = IF q = r THEN "cancelled" ELSE leave[q]
      BY <1>0, <2>1, <2>2
    <2>4. ASSUME NEW d \in Days
          PROVE  /\ day'[d] \in DayRow
                 /\ day'[d].leaveOf # NoRequest => leave'[day'[d].leaveOf] \in {"approved", "rejected"}
      <3>1. CASE day[d].leaveOf = r
        <4>1. day'[d] = [day[d] EXCEPT !.leaveOf = NoRequest]
          BY <2>2, <3>1
        <4>2. day[d] \in DayRow
          BY <1>0
        <4>3. day'[d] \in DayRow  BY <4>1, <4>2, DayFreed, Zenon
        <4>4. day'[d].leaveOf = NoRequest  BY <4>1, <4>2, DayFreed, Zenon
        <4> QED  BY <4>3, <4>4
      <3>2. CASE day[d].leaveOf # r
        <4>1. day'[d] = day[d]  BY <2>2, <3>2
        <4>2. day[d].leaveOf \in LeaveRequests \cup {NoRequest}  BY <1>0 DEF DayRow
        <4> QED  BY <1>0, <2>3, <3>2, <4>1, <4>2
      <3> QED  BY <3>1, <3>2
    <2>5. day' \in [Days -> DayRow]  BY <2>2, <2>4
    <2>6. run' \in [Runs -> RunRow] /\ started' \subseteq Days  BY <1>0, <2>2
    <2> QED  BY <2>2, <2>3, <2>4, <2>5, <2>6, HrKept
  <1>9. ASSUME NEW u \in Users, FinishAttendance(u)
        PROVE  HrInv'
    <2> DEFINE d == call[u].doc
               in == day[d].checkedIn \/ call[u].op # "absent"
               away == CASE call[u].op = "absent" -> TRUE [] call[u].op = "manual" -> FALSE
                         [] OTHER -> day[d].absent
               row == [day[d] EXCEPT !.exists = TRUE, !.checkedIn = in, !.absent = away]
    <2>1. d \in Days /\ call[u].op \in {"checkIn", "manual", "absent"}
      BY <1>9, <1>0, HrCallIs DEF FinishAttendance
    <2>2. in \in BOOLEAN /\ away \in BOOLEAN  BY <1>0, <2>1 DEF DayRow
    <2>3. day' = [day EXCEPT ![d] = row]  BY <1>9 DEF FinishAttendance
    <2>4. UNCHANGED <<leave, run, started>> /\ Leave(u)  BY <1>9 DEF FinishAttendance
    <2> HIDE DEF d, in, away
    <2>5. day[d] \in DayRow /\ day[d].leaveOf \in LeaveRequests \cup {NoRequest}
      BY <1>0, <2>1 DEF DayRow
    <2>6. row \in DayRow  BY <2>2, <2>5, DayAttended, Zenon
    <2>7. row.leaveOf = day[d].leaveOf  BY <2>2, <2>5, DayAttended, Zenon
    <2> HIDE DEF row
    <2>8. day' \in [Days -> DayRow] /\ \A e \in Days : day'[e].leaveOf = day[e].leaveOf
      BY <1>0, <2>1, <2>3, <2>6, <2>7
    <2>9. \A e \in Days : day'[e].leaveOf # NoRequest => leave'[day'[e].leaveOf] \in {"approved", "rejected"}
      BY <1>0, <2>4, <2>8
    <2>10. leave' \in [LeaveRequests -> {"none", "submitted", "approved", "rejected", "cancelled"}]
           /\ run' \in [Runs -> RunRow] /\ started' \subseteq Days
      BY <1>0, <2>4
    <2> QED  BY <2>4, <2>8, <2>9, <2>10, HrKept
  <1>10. ASSUME NEW u \in Users, NEW p \in Runs, NEW row \in RunRow,
                run' = [run EXCEPT ![p] = row], UNCHANGED <<leave, day, started>>, Leave(u)
         PROVE  HrInv'
    <2>1. run' \in [Runs -> RunRow]  BY <1>10, <1>0
    <2>2. \A d \in Days : day'[d].leaveOf # NoRequest => leave'[day'[d].leaveOf] \in {"approved", "rejected"}
      BY <1>0, <1>10
    <2>3. leave' \in [LeaveRequests -> {"none", "submitted", "approved", "rejected", "cancelled"}]
          /\ day' \in [Days -> DayRow] /\ started' \subseteq Days
      BY <1>0, <1>10
    <2> QED  BY <1>10, <2>1, <2>2, <2>3, HrKept
  <1>11. ASSUME NEW u \in Users, CreateRun(u)
         PROVE  HrInv'
    <2> DEFINE p == call[u].doc  n == \E d \in Days : day[d].exists /\ day[d].absent
               row == [run[p] EXCEPT !.status = "calculated", !.deducts = n]
    <2>1. p \in Runs  BY <1>11, <1>0, HrCallIs DEF CreateRun
    <2>2. run' = [run EXCEPT ![p] = row]
      BY <1>11, <1>0, <2>1 DEF CreateRun
    <2>3. n \in BOOLEAN  OBVIOUS
    <2>4. UNCHANGED <<leave, day, started>> /\ Leave(u)  BY <1>11 DEF CreateRun
    <2> HIDE DEF n, p
    <2>5. row \in RunRow
      <3>1. run[p] \in RunRow /\ 0 \in 0..MaxEntries  BY <1>0, <2>1
      <3> QED  BY <2>3, <3>1, RunWritten, Zenon
    <2> HIDE DEF row
    <2> QED  BY <1>10, <2>1, <2>2, <2>4, <2>5
  <1>12. ASSUME NEW u \in Users, FinishRunStep(u)
         PROVE  HrInv'
    <2> DEFINE p == call[u].doc  op == call[u].op
               s == CASE op = "review" -> "reviewed" [] op = "approve" -> "approved"
                      [] op = "post" -> "posted" [] op = "pay" -> "paid" [] op = "reverse" -> "draft"
               n == IF op = "post" THEN run[p].entries + 1 ELSE run[p].entries
               row == [run[p] EXCEPT !.status = s, !.entries = n]
    <2>1. p \in Runs /\ op \in {"review", "approve", "post", "pay", "reverse"}
      BY <1>12, <1>0, HrCallIs DEF FinishRunStep
    <2>2. run[p].entries \in 0..MaxEntries /\ (op = "post" => run[p].entries < MaxEntries)
      BY <1>12, <1>0, <2>1 DEF FinishRunStep, RunRow
    <2>3. s \in {"reviewed", "approved", "posted", "paid", "draft"} /\ n \in 0..MaxEntries
      BY <2>1, <2>2
    <2>4. run' = [run EXCEPT ![p] = row]
      BY <1>12, <1>0, <2>1 DEF FinishRunStep
    <2>5. UNCHANGED <<leave, day, started>> /\ Leave(u)  BY <1>12 DEF FinishRunStep
    <2> HIDE DEF n, s, p, op
    <2>6. row \in RunRow
      <3>1. run[p] \in RunRow /\ TRUE \in BOOLEAN
            /\ s \in {"none", "calculated", "reviewed", "approved", "posted", "paid", "draft"}
        BY <1>0, <2>1, <2>3
      <3> QED  BY <2>3, <3>1, RunWritten, Zenon
    <2> HIDE DEF row
    <2> QED  BY <1>10, <2>1, <2>4, <2>5, <2>6
  <1>13. ASSUME NEW u \in Users, HrFails(u)
         PROVE  HrInv'
    BY <1>1, <1>13 DEF HrFails, Fails, Leave
  <1>14. CASE UNCHANGED hrVars
    BY <1>14 DEF hrVars, hrTables, HrInv, HrTypeOK, CancelledHoldsNoDay
  <1> QED
    BY <1>2, <1>3, <1>4, <1>5, <1>6, <1>7, <1>8, <1>9, <1>11, <1>12, <1>13, <1>14
    DEF HrNext

LEMMA HrStart == HrInit => HrInv
  <1> USE HumanResourcesAssumption DEF HumanResourcesAssumption
  <1> SUFFICES ASSUME HrInit PROVE HrInv
    OBVIOUS
  <1>1. day \in [Days -> DayRow]  BY DEF HrInit, DayRow
  <1>2. run \in [Runs -> RunRow]  BY DEF HrInit, RunRow
  <1>3. call \in [Users -> HrCall \cup {NoCall}]  BY DEF HrInit, CallsInit
  <1> QED  BY <1>1, <1>2, <1>3 DEF HrInit, HrInv, HrTypeOK, CancelledHoldsNoDay

(* A run that was posted has its entry, a call that pays one had read it   *)
(* posted, and no other step follows a paid or a reversed run.             *)
PostedHasEntry == \A p \in Runs : run[p].status \in {"posted", "paid"} => run[p].entries > 0

StepFits(c) ==
  c.op \in {"review", "approve", "post", "pay", "reverse"} =>
    /\ c.doc \in Runs /\ c.read \notin {"paid", "draft"}
    /\ c.op = "pay" => run[c.doc].entries > 0

RunsFit == PostedHasEntry /\ \A u \in Users : StepFits(call[u])

(* The entries of a run stay in the ledger.                                *)
LEMMA RunStepped ==
  ASSUME HrTypeOK, RunsFit, NEW u \in Users, FinishRunStep(u), NEW p \in Runs
  PROVE  /\ p # call[u].doc => run'[p] = run[p]
         /\ run'[p].entries \in Nat /\ run'[p].entries >= run[p].entries
         /\ run'[p].status \in {"posted", "paid"} => run'[p].entries > 0
  <1>0. run \in [Runs -> RunRow]  BY DEF HrTypeOK
  <1>1. CASE p # call[u].doc
    <2>1. run'[p] = run[p]  BY <1>0, <1>1 DEF FinishRunStep
    <2>2. run[p].entries \in Nat  BY <1>0 DEF RunRow
    <2> QED  BY <2>1, <2>2 DEF RunsFit, PostedHasEntry
  <1>2. CASE p = call[u].doc
    <2> DEFINE op == call[u].op
               s == CASE op = "review" -> "reviewed" [] op = "approve" -> "approved"
                      [] op = "post" -> "posted" [] op = "pay" -> "paid" [] op = "reverse" -> "draft"
               n == IF op = "post" THEN run[p].entries + 1 ELSE run[p].entries
               row == [run[p] EXCEPT !.status = s, !.entries = n]
    <2>1. run' = [run EXCEPT ![p] = row] /\ op \in {"review", "approve", "post", "pay", "reverse"}
      BY <1>0, <1>2 DEF FinishRunStep
    <2>2. run[p].entries \in Nat  BY <1>0 DEF RunRow
    <2>3. s = "paid" => n = run[p].entries /\ run[p].entries > 0
      BY <2>1, <1>2 DEF RunsFit, StepFits
    <2>4. n \in Nat /\ n >= run[p].entries /\ (s = "posted" => n > 0)  BY <2>1, <2>2
    <2>5. run'[p] = row  BY <1>0, <2>1
    <2> HIDE DEF op, s, n
    <2>6. row.status = s /\ row.entries = n  BY <1>0 DEF RunRow
    <2> HIDE DEF row
    <2> QED  BY <1>2, <2>3, <2>4, <2>5, <2>6
  <1> QED  BY <1>1, <1>2

LEMMA RunsFitStill ==
  ASSUME HrTypeOK, RunsFit, [HrNext]_hrVars
  PROVE  RunsFit'
  <1>0. call \in [Users -> HrCall \cup {NoCall}] /\ run \in [Runs -> RunRow]  BY DEF HrTypeOK
  <1>1. ASSUME NEW u \in Users, NEW c, StepFits(c), call' = [call EXCEPT ![u] = c], UNCHANGED run
        PROVE  RunsFit'
    <2>1. \A v \in Users : call'[v] = call[v] \/ call'[v] = c  BY <1>0, <1>1
    <2> QED  BY <1>1, <2>1 DEF RunsFit, StepFits, PostedHasEntry
  <1>2. ASSUME NEW u \in Users, NEW c, call' = [call EXCEPT ![u] = c], UNCHANGED run,
               c.op \notin {"review", "approve", "post", "pay", "reverse"}
        PROVE  RunsFit'
    BY <1>1, <1>2 DEF StepFits
  <1>3. ASSUME NEW u \in Users, NEW p \in Runs, StartRunStep(u, p)
        PROVE  RunsFit'
    <2>1. PICK op \in {"create", "review", "approve", "post", "pay", "reverse"} :
            /\ op # "create" => run[p].status \notin {"paid", "draft"}
            /\ op = "pay" => run[p].status = "posted"
            /\ call' = [call EXCEPT ![u] = [op |-> op, doc |-> p, read |-> run[p].status]]
      BY <1>3 DEF StartRunStep, Enter
    <2> DEFINE c == [op |-> op, doc |-> p, read |-> run[p].status]
    <2>2. StepFits(c)  BY <2>1 DEF RunsFit, PostedHasEntry, StepFits
    <2>3. UNCHANGED run  BY <1>3 DEF StartRunStep, hrTables
    <2> QED  BY <1>1, <2>1, <2>2, <2>3
  <1>4. ASSUME NEW u \in Users, \/ \E d \in Days : StartAttendance(u, d)
                                \/ \E r \in LeaveRequests : StartLeaveStep(u, r)
        PROVE  RunsFit'
    BY <1>2, <1>4 DEF StartAttendance, StartLeaveStep, Enter, hrTables
  <1>5. ASSUME NEW u \in Users, Leave(u), UNCHANGED run
        PROVE  RunsFit'
    BY <1>2, <1>5 DEF Leave, NoCall
  <1>6. ASSUME NEW u \in Users, \/ FinishLeaveAnswer(u) \/ ApproveLeave(u) \/ CancelLeave(u)
                                \/ FinishAttendance(u) \/ HrFails(u)
        PROVE  Leave(u) /\ UNCHANGED run
    BY Zenon, <1>6
    DEF FinishLeaveAnswer, ApproveLeave, CancelLeave, FinishAttendance, HrFails, Fails, hrTables
  <1>7. ASSUME NEW u \in Users, Leave(u), PostedHasEntry',
               \A p \in Runs : run'[p].entries \in Nat /\ run'[p].entries >= run[p].entries
        PROVE  RunsFit'
    <2>1. \A v \in Users : call'[v] = call[v] \/ call'[v].op = "idle"
      BY <1>0, <1>7 DEF Leave, NoCall
    <2>2. \A p \in Runs : run[p].entries > 0 => run'[p].entries > 0
      <3>1. \A p \in Runs : run[p].entries \in Nat  BY <1>0 DEF RunRow
      <3>2. SUFFICES ASSUME NEW p \in Runs, run[p].entries > 0, ~ (run'[p].entries > 0)
                     PROVE FALSE
        OBVIOUS
      <3> QED  BY <1>7, <3>1, <3>2
    <2> QED  BY <1>7, <2>1, <2>2 DEF RunsFit, StepFits
  <1>8. ASSUME NEW u \in Users, FinishRunStep(u)
        PROVE  RunsFit'
    BY <1>7, <1>8, RunStepped DEF FinishRunStep, PostedHasEntry
  <1>9. ASSUME NEW u \in Users, CreateRun(u)
        PROVE  RunsFit'
    <2>1. PICK d : run' = [run EXCEPT ![call[u].doc].status = "calculated", ![call[u].doc].deducts = d]
      BY <1>9 DEF CreateRun
    <2> DEFINE made(p) == [run[p] EXCEPT !.status = "calculated", !.deducts = d]
    <2>2. ASSUME NEW p \in Runs
          PROVE  made(p).status = "calculated" /\ made(p).entries = run[p].entries
      BY <1>0 DEF RunRow
    <2>3. \A p \in Runs : run'[p] = run[p] \/ run'[p] = made(p)
      BY <1>0, <2>1
    <2> HIDE DEF made
    <2>4. ASSUME NEW p \in Runs
          PROVE  /\ run'[p].entries = run[p].entries /\ run[p].entries \in Nat
                 /\ run'[p].status = run[p].status \/ run'[p].status = "calculated"
      <3>1. run[p].entries \in Nat  BY <1>0 DEF RunRow
      <3> QED  BY <2>2, <2>3, <3>1
    <2>5. PostedHasEntry'  BY <2>4 DEF RunsFit, PostedHasEntry
    <2>6. Leave(u)  BY <1>9 DEF CreateRun
    <2> QED  BY <1>7, <2>4, <2>5, <2>6
  <1>10. (\E d \in Days : DayBegins(d)) \/ UNCHANGED hrVars => UNCHANGED <<call, run>>
    BY DEF DayBegins, hrVars, hrTables
  <1>11. UNCHANGED <<call, run>> => RunsFit'  BY DEF RunsFit, StepFits, PostedHasEntry
  <1> QED  BY <1>3, <1>4, <1>5, <1>6, <1>8, <1>9, <1>10, <1>11 DEF HrNext

LEMMA ClosedRunStays ==
  ASSUME HrTypeOK, RunsFit, [HrNext]_hrVars, NEW p \in Runs,
         run[p].status \in {"paid", "draft"}, Fresh(p, run[p].status)
  PROVE  run'[p] = run[p]
  <1>0. run \in [Runs -> RunRow]  BY DEF HrTypeOK
  <1>1. ASSUME NEW u \in Users, FinishRunStep(u)
        PROVE  run'[p] = run[p]
    <2>1. call[u] # NoCall /\ call[u].read \notin {"paid", "draft"}
      BY <1>1 DEF FinishRunStep, NoCall, RunsFit, StepFits
    <2>2. call[u].doc # p  BY <2>1 DEF Fresh
    <2> QED  BY <1>1, <2>2, RunStepped
  <1>2. ASSUME NEW u \in Users, CreateRun(u)
        PROVE  run'[p] = run[p]
    BY <1>0, <1>2 DEF CreateRun
  <1>3. UNCHANGED run \/ \E u \in Users : FinishRunStep(u) \/ CreateRun(u)
    BY Zenon DEF HrNext, hrVars, hrTables, DayBegins, StartAttendance, StartLeaveStep, StartRunStep,
       FinishLeaveAnswer, ApproveLeave, CancelLeave, FinishAttendance, HrFails
  <1> QED  BY <1>1, <1>2, <1>3

-----------------------------------------------------------------------------
(* Applications and the renewal notices of contracts.                      *)

(* A sweep that is past its notice has sent one.                           *)
SweptWasSent(rows, calls) ==
  /\ calls \in [Users -> HiringCall \cup {NoCall}]
  /\ \A u \in Users : calls[u].op = "swept" => rows[calls[u].doc].sent > 0

HiringInv == HiringTypeOK /\ NotifiedWasSent /\ SweptWasSent(contract, call)

LEMMA HiringCallIs ==
  ASSUME NEW c \in HiringCall \cup {NoCall}
  PROVE  /\ c.op \in {"transition", "schedule", "createOffer", "scheduled", "offered"} =>
              c.doc \in Applications
         /\ c.op \in {"sweep", "swept"} => c.doc \in Contracts
         /\ c.op = "transition" => c.to \in AppStatus
         /\ c.op = "schedule" => c.round \in Rounds /\ [c EXCEPT !.op = "scheduled"] \in HiringCall
         /\ c.op = "createOffer" => [c EXCEPT !.op = "offered"] \in HiringCall
         /\ c.op = "sweep" => [c EXCEPT !.op = "swept"] \in HiringCall
  <1>1. CASE c \in [op : {"transition"}, doc : Applications, read : AppStatus, to : AppStatus]
    <2>1. c.op = "transition" /\ c.doc \in Applications /\ c.to \in AppStatus  BY <1>1
    <2> QED  BY <2>1
  <1>2. CASE c \in [op : {"schedule", "scheduled"}, doc : Applications, read : AppStatus, round : Rounds]
    <2>1. c.op \in {"schedule", "scheduled"} /\ c.doc \in Applications /\ c.round \in Rounds  BY <1>2
    <2>2. [c EXCEPT !.op = "scheduled"]
            \in [op : {"schedule", "scheduled"}, doc : Applications, read : AppStatus, round : Rounds]
      BY <1>2
    <2>3. [c EXCEPT !.op = "scheduled"] \in HiringCall  BY <2>2 DEF HiringCall
    <2> QED  BY <2>1, <2>3
  <1>3. CASE c \in [op : {"createOffer", "offered", "sendOffer"}, doc : Applications, read : AppStatus]
    <2>1. c.op \in {"createOffer", "offered", "sendOffer"} /\ c.doc \in Applications  BY <1>3
    <2>2. [c EXCEPT !.op = "offered"]
            \in [op : {"createOffer", "offered", "sendOffer"}, doc : Applications, read : AppStatus]
      BY <1>3
    <2>3. [c EXCEPT !.op = "offered"] \in HiringCall  BY <2>2 DEF HiringCall
    <2> QED  BY <2>1, <2>3
  <1>4. CASE c \in [op : {"sweep", "swept"}, doc : Contracts, read : {"active"}]
    <2>1. c.op \in {"sweep", "swept"} /\ c.doc \in Contracts  BY <1>4
    <2>2. [c EXCEPT !.op = "swept"] \in [op : {"sweep", "swept"}, doc : Contracts, read : {"active"}]
      BY <1>4
    <2>3. [c EXCEPT !.op = "swept"] \in HiringCall  BY <2>2 DEF HiringCall
    <2> QED  BY <2>1, <2>3
  <1>5. CASE c = NoCall
    <2>1. c.op = "idle"  BY <1>5 DEF NoCall
    <2> QED  BY <2>1
  <1> QED  BY <1>1, <1>2, <1>3, <1>4, <1>5 DEF HiringCall

LEMMA ApplicationWritten ==
  ASSUME NEW row \in Application
  PROVE  /\ \A s \in AppStatus : [row EXCEPT !.status = s] \in Application
         /\ \A k \in Rounds : [row EXCEPT !.rounds = row.rounds \cup {k}] \in Application
         /\ \A o \in {"draft", "sent"} : [row EXCEPT !.offer = o] \in Application
  <1>1. \A s \in AppStatus : [row EXCEPT !.status = s] \in Application  BY DEF Application
  <1>2. \A k \in Rounds : [row EXCEPT !.rounds = row.rounds \cup {k}] \in Application
    BY DEF Application
  <1>3. \A o \in {"draft", "sent"} : [row EXCEPT !.offer = o] \in Application  BY DEF Application
  <1> QED  BY <1>1, <1>2, <1>3

LEMMA HiringEntered ==
  ASSUME HiringInv, NEW u \in Users, NEW c \in HiringCall \cup {NoCall},
         call' = [call EXCEPT ![u] = c], c.op # "swept"
  PROVE  SweptWasSent(contract, call')
  <1>1. call \in [Users -> HiringCall \cup {NoCall}]  BY DEF HiringInv, HiringTypeOK
  <1>2. /\ call' \in [Users -> HiringCall \cup {NoCall}]
        /\ \A v \in Users : call'[v] = IF v = u THEN c ELSE call[v]
    BY <1>1, CallWritten
  <1> QED  BY <1>2 DEF HiringInv, SweptWasSent

LEMMA HiringLeft ==
  ASSUME HiringInv, NEW u \in Users, Leave(u)
  PROVE  SweptWasSent(contract, call')
  <1>1. NoCall.op # "swept"  BY DEF NoCall
  <1> QED  BY <1>1, HiringEntered DEF Leave

LEMMA HiringKept ==
  ASSUME HiringInv, application' \in [Applications -> Application],
         contract' \in [Contracts -> Contract],
         \A c \in Contracts : contract'[c].notified => contract'[c].sent > 0,
         SweptWasSent(contract', call')
  PROVE  HiringInv'
  <1>1. HiringTypeOK'  BY DEF HiringTypeOK, SweptWasSent
  <1>2. NotifiedWasSent'  BY DEF NotifiedWasSent
  <1>3. SweptWasSent(contract, call)'  BY DEF SweptWasSent
  <1> QED  BY <1>1, <1>2, <1>3 DEF HiringInv

LEMMA HiringInductive ==
  ASSUME HiringInv, [HiringNext]_hiringVars
  PROVE  HiringInv'
  <1>0. /\ \A u \in Users : call[u] \in HiringCall \cup {NoCall}
        /\ application \in [Applications -> Application]
        /\ contract \in [Contracts -> Contract]
        /\ \A c \in Contracts : contract[c].notified => contract[c].sent > 0
        /\ SweptWasSent(contract, call)
    BY DEF HiringInv, HiringTypeOK, NotifiedWasSent
  (* A step that writes applications, and perhaps a call. *)
  <1>1. ASSUME application' \in [Applications -> Application], UNCHANGED contract,
               SweptWasSent(contract, call')
        PROVE  HiringInv'
    <2>1. contract' \in [Contracts -> Contract]
          /\ (\A c \in Contracts : contract'[c].notified => contract'[c].sent > 0)
          /\ SweptWasSent(contract', call')
      BY <1>1, <1>0
    <2> QED  BY <1>1, <2>1, HiringKept
  <1>2. ASSUME UNCHANGED hiringTables, SweptWasSent(contract, call')
        PROVE  HiringInv'
    <2>1. application' = application /\ contract' = contract  BY <1>2 DEF hiringTables
    <2> QED  BY <1>0, <1>1, <1>2, <2>1
  <1>3. ASSUME NEW a \in Applications, NEW row \in Application,
               application' = [application EXCEPT ![a] = row], UNCHANGED contract,
               SweptWasSent(contract, call')
        PROVE  HiringInv'
    <2>1. application' \in [Applications -> Application]  BY <1>3, <1>0
    <2> QED  BY <1>1, <1>3, <2>1
  <1>4. ASSUME NEW a \in Applications, NEW s \in {"new", "screened"}, Submit(a, s)
        PROVE  HiringInv'
    <2>1. [application[a] EXCEPT !.status = s] \in Application
      BY <1>0, ApplicationWritten DEF AppStatus
    <2>2. application' = [application EXCEPT ![a] = [application[a] EXCEPT !.status = s]]
          /\ contract' = contract /\ call' = call
      BY <1>4 DEF Submit
    <2> QED  BY <1>0, <1>3, <2>1, <2>2
  <1>5. ASSUME NEW a \in Applications, SendOffer(a)
        PROVE  HiringInv'
    <2>1. [application[a] EXCEPT !.offer = "sent"] \in Application
      BY <1>0, ApplicationWritten
    <2>2. application' = [application EXCEPT ![a] = [application[a] EXCEPT !.offer = "sent"]]
          /\ contract' = contract /\ call' = call
      BY <1>5 DEF SendOffer
    <2> QED  BY <1>0, <1>3, <2>1, <2>2
  <1>6. ASSUME NEW u \in Users, NEW a \in Applications, NEW to \in AppStatus, StartStatusChange(u, a, to)
        PROVE  HiringInv'
    <2> DEFINE c == [op |-> "transition", doc |-> a, read |-> application[a].status, to |-> to]
    <2>1. c \in HiringCall /\ c.op = "transition"  BY <1>0 DEF HiringCall, Application
    <2>2. call' = [call EXCEPT ![u] = c] /\ UNCHANGED hiringTables
      BY <1>6 DEF StartStatusChange, Enter
    <2> HIDE DEF c
    <2>3. SweptWasSent(contract, call')  BY <2>1, <2>2, HiringEntered
    <2> QED  BY <1>2, <2>2, <2>3
  <1>7. ASSUME NEW u \in Users, NEW a \in Applications, NEW k \in Rounds, StartSchedule(u, a, k)
        PROVE  HiringInv'
    <2> DEFINE c == [op |-> "schedule", doc |-> a, read |-> application[a].status, round |-> k]
    <2>1. c \in HiringCall /\ c.op = "schedule"  BY <1>0 DEF HiringCall, Application
    <2>2. call' = [call EXCEPT ![u] = c] /\ UNCHANGED hiringTables
      BY <1>7 DEF StartSchedule, Enter
    <2> HIDE DEF c
    <2>3. SweptWasSent(contract, call')  BY <2>1, <2>2, HiringEntered
    <2> QED  BY <1>2, <2>2, <2>3
  <1>8. ASSUME NEW u \in Users, NEW a \in Applications, StartOffer(u, a)
        PROVE  HiringInv'
    <2> DEFINE c == [op |-> "createOffer", doc |-> a, read |-> application[a].status]
    <2>1. c \in HiringCall /\ c.op = "createOffer"  BY <1>0 DEF HiringCall, Application
    <2>2. call' = [call EXCEPT ![u] = c] /\ UNCHANGED hiringTables
      BY <1>8 DEF StartOffer, Enter
    <2> HIDE DEF c
    <2>3. SweptWasSent(contract, call')  BY <2>1, <2>2, HiringEntered
    <2> QED  BY <1>2, <2>2, <2>3
  <1>9. ASSUME NEW u \in Users, NEW c \in Contracts, StartSweepContract(u, c)
        PROVE  HiringInv'
    <2> DEFINE next == [op |-> "sweep", doc |-> c, read |-> "active"]
    <2>1. next \in HiringCall /\ next.op = "sweep"  BY DEF HiringCall
    <2>2. call' = [call EXCEPT ![u] = next] /\ UNCHANGED hiringTables
      BY <1>9 DEF StartSweepContract, Enter
    <2> HIDE DEF next
    <2>3. SweptWasSent(contract, call')  BY <2>1, <2>2, HiringEntered
    <2> QED  BY <1>2, <2>2, <2>3
  <1>10. ASSUME NEW u \in Users, FinishStatusChange(u)
         PROVE  HiringInv'
    <2> DEFINE a == call[u].doc
    <2>1. call[u].op = "transition" /\ a \in Applications /\ call[u].to \in AppStatus
      BY <1>10, <1>0, HiringCallIs DEF FinishStatusChange
    <2>2. [application[a] EXCEPT !.status = call[u].to] \in Application
      BY <1>0, <2>1, ApplicationWritten
    <2>3. application' = [application EXCEPT ![a] = [application[a] EXCEPT !.status = call[u].to]]
          /\ contract' = contract
      BY <1>10 DEF FinishStatusChange
    <2>4. SweptWasSent(contract, call')  BY <1>10, HiringLeft DEF FinishStatusChange
    <2> HIDE DEF a
    <2> QED  BY <1>3, <2>1, <2>2, <2>3, <2>4
  <1>11. ASSUME NEW u \in Users, CreateStage(u)
         PROVE  HiringInv'
    <2> DEFINE a == call[u].doc  k == call[u].round
               row == [application[a] EXCEPT !.rounds = application[a].rounds \cup {k}]
               next == [call[u] EXCEPT !.op = "scheduled"]
    <2>1. a \in Applications /\ k \in Rounds /\ next \in HiringCall
      BY <1>11, <1>0, HiringCallIs DEF CreateStage
    <2>2. row \in Application  BY <1>0, <2>1, ApplicationWritten
    <2>3. application' = [application EXCEPT ![a] = row] /\ contract' = contract
          /\ (Leave(u) \/ call' = [call EXCEPT ![u] = next])
      BY <1>11 DEF CreateStage, Proceed
    <2>4. next.op = "scheduled"
      <3>1. call[u].op = "schedule" /\ call[u] \in HiringCall
        BY <1>11, <1>0 DEF CreateStage, NoCall
      <3> QED  BY <3>1 DEF HiringCall
    <2> HIDE DEF next, row, a
    <2>5. SweptWasSent(contract, call')  BY <2>1, <2>3, <2>4, HiringLeft, HiringEntered
    <2> QED  BY <1>3, <2>1, <2>2, <2>3, <2>5
  <1>12. ASSUME NEW u \in Users, CreateLetter(u)
         PROVE  HiringInv'
    <2> DEFINE a == call[u].doc
               row == [application[a] EXCEPT !.offer = "draft"]
               next == [call[u] EXCEPT !.op = "offered"]
    <2>1. a \in Applications /\ next \in HiringCall
      BY <1>12, <1>0, HiringCallIs DEF CreateLetter
    <2>2. row \in Application  BY <1>0, <2>1, ApplicationWritten
    <2>3. application' = [application EXCEPT ![a] = row] /\ contract' = contract
          /\ (Leave(u) \/ call' = [call EXCEPT ![u] = next])
      BY <1>12 DEF CreateLetter, Proceed
    <2>4. next.op = "offered"
      <3>1. call[u].op = "createOffer" /\ call[u] \in HiringCall
        BY <1>12, <1>0 DEF CreateLetter, NoCall
      <3> QED  BY <3>1 DEF HiringCall
    <2> HIDE DEF next, row, a
    <2>5. SweptWasSent(contract, call')  BY <2>1, <2>3, <2>4, HiringLeft, HiringEntered
    <2> QED  BY <1>3, <2>1, <2>2, <2>3, <2>5
  <1>13. ASSUME NEW u \in Users, Advance(u)
         PROVE  HiringInv'
    <2> DEFINE a == call[u].doc
               to == IF call[u].op = "scheduled" THEN "interview" ELSE "offer"
    <2>1. a \in Applications /\ to \in AppStatus
      BY <1>13, <1>0, HiringCallIs DEF Advance, AppStatus
    <2>2. application' = [application EXCEPT ![a] = [application[a] EXCEPT !.status = to]]
          /\ contract' = contract
      BY <1>13 DEF Advance
    <2>3. SweptWasSent(contract, call')  BY <1>13, HiringLeft DEF Advance
    <2> HIDE DEF a, to
    <2>4. [application[a] EXCEPT !.status = to] \in Application
      BY <1>0, <2>1, ApplicationWritten
    <2> QED  BY <1>3, <2>1, <2>2, <2>3, <2>4
  (* A step that writes a contract, and perhaps a call. *)
  <1>14. ASSUME NEW c \in Contracts, NEW row \in Contract, contract[c].sent <= row.sent,
                row.notified => row.sent > 0,
                contract' = [contract EXCEPT ![c] = row], UNCHANGED application,
                SweptWasSent(contract, call') \/ SweptWasSent(contract', call')
         PROVE  HiringInv'
    <2>1. contract' \in [Contracts -> Contract]
          /\ \A d \in Contracts : contract'[d] = IF d = c THEN row ELSE contract[d]
      BY <1>14, <1>0
    <2>2. \A d \in Contracts : contract'[d].notified => contract'[d].sent > 0
      BY <1>14, <1>0, <2>1
    <2>3. \A d \in Contracts : contract[d].sent > 0 => contract'[d].sent > 0
      <3>1. contract[c].sent \in Int /\ row.sent \in Int  BY <1>0 DEF Contract
      <3>2. contract[c].sent > 0 => row.sent > 0  BY <1>14, <3>1
      <3> QED  BY <2>1, <3>2
    <2>4. SweptWasSent(contract', call')
      <3>1. CASE SweptWasSent(contract, call')
        <4>1. ASSUME NEW v \in Users, call'[v].op = "swept"
              PROVE  contract'[call'[v].doc].sent > 0
          <5>1. call'[v].doc \in Contracts  BY <3>1, <4>1, HiringCallIs DEF SweptWasSent
          <5> QED  BY <2>3, <3>1, <4>1, <5>1 DEF SweptWasSent
        <4> QED  BY <3>1, <4>1 DEF SweptWasSent
      <3> QED  BY <3>1, <1>14
    <2>5. application' \in [Applications -> Application]  BY <1>14, <1>0
    <2> QED  BY <2>1, <2>2, <2>4, <2>5, HiringKept
  <1>15. \A c \in Contracts : /\ contract[c] \in Contract /\ contract[c].sent \in 0..MaxNotices
                              /\ contract[c].notified \in BOOLEAN
    BY <1>0 DEF Contract
  <1>16. ASSUME NEW c \in Contracts, NEW s \in {"draft", "active"},
                contract' = [contract EXCEPT ![c].status = s], UNCHANGED <<application, call>>
         PROVE  HiringInv'
    <2> DEFINE row == [contract[c] EXCEPT !.status = s]
    <2>1. row \in Contract  BY <1>0 DEF Contract
    <2>2. row.sent = contract[c].sent  BY <1>0 DEF Contract
    <2>3. row.notified = contract[c].notified  BY <1>0 DEF Contract
    <2>4. contract' = [contract EXCEPT ![c] = row]  BY <1>16
    <2> HIDE DEF row
    <2>5. contract[c].sent <= row.sent  BY <2>2, <1>15
    <2>6. row.notified => row.sent > 0  BY <2>2, <2>3, <1>0
    <2> QED  BY <1>0, <1>14, <1>16, <2>1, <2>4, <2>5, <2>6
  <1>17. ASSUME NEW c \in Contracts, CreateContract(c) \/ ActivateContract(c)
         PROVE  HiringInv'
    BY <1>16, <1>17 DEF CreateContract, ActivateContract
  <1>18. ASSUME NEW u \in Users, SendNotice(u)
         PROVE  HiringInv'
    <2> DEFINE c == call[u].doc  n == contract[c].sent + 1
               row == [contract[c] EXCEPT !.sent = n]
               next == [call[u] EXCEPT !.op = "swept"]
    <2>1. c \in Contracts /\ next \in HiringCall /\ contract[c].sent < MaxNotices
      BY <1>18, <1>0, HiringCallIs DEF SendNotice
    <2>2. n \in 0..MaxNotices /\ contract[c].sent <= n /\ n > 0
      BY <2>1, <1>15, HiringAssumption DEF HiringAssumption
    <2>3. contract' = [contract EXCEPT ![c] = row] /\ call' = [call EXCEPT ![u] = next]
          /\ application' = application
      BY <1>18 DEF SendNotice, Proceed
    <2>4. next.op = "swept" /\ next.doc = c
      <3>1. call[u].op = "sweep" /\ call[u] \in HiringCall
        BY <1>18, <1>0 DEF SendNotice, NoCall
      <3>2. next.op = "swept"  BY <3>1 DEF HiringCall
      <3>3. next.doc = c  BY <3>1 DEF HiringCall
      <3> QED  BY <3>2, <3>3
    <2> HIDE DEF next, n, c
    <2>5. row \in Contract  BY <1>0, <2>1, <2>2 DEF Contract
    <2>6. row.sent = n  BY <1>0, <2>1, <2>2 DEF Contract
    <2> HIDE DEF row
    <2>7. \A d \in Contracts : contract'[d] = IF d = c THEN row ELSE contract[d]
      BY <1>0, <2>3
    <2>8. /\ call' \in [Users -> HiringCall \cup {NoCall}]
          /\ \A v \in Users : call'[v] = IF v = u THEN next ELSE call[v]
      <3>1. call \in [Users -> HiringCall \cup {NoCall}]  BY <1>0 DEF SweptWasSent
      <3> QED  BY <2>1, <2>3, <3>1, CallWritten
    <2>9. ASSUME NEW v \in Users, call'[v].op = "swept"
          PROVE  contract'[call'[v].doc].sent > 0
      <3>1. CASE v = u
        <4>1. call'[v].doc = c  BY <2>4, <2>8, <3>1
        <4>2. contract'[c].sent = n  BY <2>1, <2>6, <2>7
        <4> QED  BY <2>2, <4>1, <4>2
      <3>2. CASE v # u
        <4>1. call'[v] = call[v]  BY <2>8, <3>2
        <4>2. contract[call[v].doc].sent > 0 /\ call[v].doc \in Contracts
          BY <2>9, <4>1, <1>0, HiringCallIs DEF SweptWasSent
        <4>3. CASE call[v].doc = c
          BY <2>1, <2>2, <2>6, <2>7, <4>1, <4>3
        <4>4. CASE call[v].doc # c
          BY <2>7, <4>1, <4>2, <4>4
        <4> QED  BY <4>3, <4>4
      <3> QED  BY <3>1, <3>2
    <2>10. SweptWasSent(contract', call')  BY <2>8, <2>9 DEF SweptWasSent
    <2>11. contract[c].sent <= row.sent /\ row.sent > 0  BY <2>2, <2>6
    <2> QED  BY <1>14, <2>1, <2>3, <2>5, <2>10, <2>11
  <1>19. ASSUME NEW u \in Users, MarkNotified(u)
         PROVE  HiringInv'
    <2> DEFINE c == call[u].doc
               row == [contract[c] EXCEPT !.notified = TRUE]
    <2>1. c \in Contracts /\ contract[c].sent > 0
      BY <1>19, <1>0, HiringCallIs DEF MarkNotified, SweptWasSent
    <2>2. contract' = [contract EXCEPT ![c] = row] /\ application' = application
      BY <1>19 DEF MarkNotified
    <2>3. SweptWasSent(contract, call')  BY <1>19, HiringLeft DEF MarkNotified
    <2> HIDE DEF c
    <2>4. row \in Contract  BY <1>0, <2>1 DEF Contract
    <2>5. row.sent = contract[c].sent  BY <1>0, <2>1 DEF Contract
    <2> HIDE DEF row
    <2>6. contract[c].sent <= row.sent /\ row.sent > 0  BY <2>1, <2>5, <1>15
    <2> QED  BY <1>14, <2>1, <2>2, <2>3, <2>4, <2>6
  <1>20. ASSUME NEW u \in Users, HiringFails(u)
         PROVE  HiringInv'
    <2>1. SweptWasSent(contract, call')  BY <1>20, HiringLeft DEF HiringFails, Fails
    <2> QED  BY <1>2, <1>20, <2>1 DEF HiringFails
  <1>21. CASE UNCHANGED hiringVars
    BY <1>0, <1>2, <1>21 DEF hiringVars
  <1> QED
    BY <1>4, <1>5, <1>6, <1>7, <1>8, <1>9, <1>10, <1>11, <1>12, <1>13, <1>17, <1>18, <1>19,
       <1>20, <1>21
    DEF HiringNext

LEMMA HiringStart == HiringInit => HiringInv
  <1> SUFFICES ASSUME HiringInit PROVE HiringInv
    OBVIOUS
  <1>1. call \in [Users -> HiringCall \cup {NoCall}] /\ \A u \in Users : call[u].op = "idle"
    BY DEF HiringInit, CallsInit, NoCall
  <1>2. application \in [Applications -> Application]
    BY DEF HiringInit, Application, AppStatus
  <1>3. contract \in [Contracts -> Contract] /\ NotifiedWasSent
    BY HiringAssumption DEF HiringInit, Contract, HiringAssumption, NotifiedWasSent
  <1> QED  BY <1>1, <1>2, <1>3 DEF HiringInv, HiringTypeOK, SweptWasSent

(* A call that writes a status had read one from which it may follow.      *)
HiringReads(c) ==
  /\ c.op = "transition" => Allowed(c.read) # {}
  /\ c.op = "scheduled" => c.read = "screened"
  /\ c.op = "offered" => c.read = "interview"

HiringReadsOpen == \A u \in Users : HiringReads(call[u])

LEMMA HiringReadsOpenStill ==
  ASSUME HiringTypeOK, HiringReadsOpen, [HiringNext]_hiringVars
  PROVE  HiringReadsOpen'
  <1>0. call \in [Users -> HiringCall \cup {NoCall}]  BY DEF HiringTypeOK
  <1>1. ASSUME NEW u \in Users, NEW c, HiringReads(c), call' = [call EXCEPT ![u] = c]
        PROVE  HiringReadsOpen'
    BY <1>0, <1>1 DEF HiringReadsOpen
  <1>2. ASSUME NEW u \in Users, NEW a \in Applications, NEW to \in AppStatus, StartStatusChange(u, a, to)
        PROVE  HiringReadsOpen'
    <2> DEFINE c == [op |-> "transition", doc |-> a, read |-> application[a].status, to |-> to]
    <2>1. HiringReads(c)  BY <1>2 DEF StartStatusChange, HiringReads
    <2> QED  BY <1>1, <1>2, <2>1 DEF StartStatusChange, Enter
  <1>3. ASSUME NEW u \in Users, NEW c, call' = [call EXCEPT ![u] = c],
               c.op \notin {"transition", "scheduled", "offered"}
        PROVE  HiringReadsOpen'
    BY <1>1, <1>3 DEF HiringReads
  <1>4. ASSUME NEW u \in Users,
               \/ \E a \in Applications : StartOffer(u, a) \/ \E k \in Rounds : StartSchedule(u, a, k)
               \/ \E c \in Contracts : StartSweepContract(u, c)
        PROVE  HiringReadsOpen'
    BY <1>3, <1>4 DEF StartOffer, StartSchedule, StartSweepContract, Enter
  <1>5. ASSUME NEW u \in Users, Leave(u)
        PROVE  HiringReadsOpen'
    BY <1>3, <1>5 DEF Leave, NoCall
  <1>6. ASSUME NEW u \in Users, NEW op \in {"scheduled", "offered", "swept"},
               call[u].op \in {"schedule", "createOffer", "sweep"},
               op = "scheduled" => call[u].read = "screened",
               op = "offered" => call[u].read = "interview",
               Proceed(u, [call[u] EXCEPT !.op = op])
        PROVE  HiringReadsOpen'
    <2> DEFINE c == [call[u] EXCEPT !.op = op]
    <2>1. call[u] \in HiringCall  BY <1>0, <1>6 DEF NoCall
    <2>2. c.op = op /\ c.read = call[u].read  BY <1>6, <2>1 DEF HiringCall
    <2> HIDE DEF c
    <2>3. HiringReads(c)  BY <1>6, <2>2 DEF HiringReads
    <2> QED  BY <1>1, <1>6, <2>3 DEF Proceed, c
  <1>7. ASSUME NEW u \in Users, CreateStage(u) \/ CreateLetter(u) \/ SendNotice(u)
        PROVE  HiringReadsOpen'
    BY <1>5, <1>6, <1>7 DEF CreateStage, CreateLetter, SendNotice
  <1>8. ASSUME NEW u \in Users, FinishStatusChange(u) \/ Advance(u) \/ MarkNotified(u) \/ HiringFails(u)
        PROVE  Leave(u)
    BY Zenon, <1>8 DEF FinishStatusChange, Advance, MarkNotified, HiringFails, Fails
  <1>9. \/ \E a \in Applications : SendOffer(a) \/ \E s \in {"new", "screened"} : Submit(a, s)
        \/ \E c \in Contracts : CreateContract(c) \/ ActivateContract(c)
        \/ UNCHANGED hiringVars
        => UNCHANGED call
    BY DEF SendOffer, Submit, CreateContract, ActivateContract, hiringVars
  <1>10. UNCHANGED call => HiringReadsOpen'  BY DEF HiringReadsOpen
  <1> QED  BY <1>2, <1>4, <1>5, <1>7, <1>8, <1>9, <1>10 DEF HiringNext

LEMMA FinalApplicationStays ==
  ASSUME HiringTypeOK, HiringReadsOpen, [HiringNext]_hiringVars, NEW a \in Applications,
         application[a].status \in {"hired", "rejected"}, Fresh(a, application[a].status)
  PROVE  application'[a].status = application[a].status
  <1>0. application \in [Applications -> Application]  BY DEF HiringTypeOK
  <1>1. ASSUME NEW u \in Users, FinishStatusChange(u) \/ Advance(u)
        PROVE  application'[a] = application[a]
    <2>1. call[u] # NoCall  BY <1>1 DEF FinishStatusChange, Advance, NoCall
    <2>2. call[u].read \notin {"hired", "rejected"}
      BY <1>1 DEF FinishStatusChange, Advance, HiringReadsOpen, HiringReads, Allowed
    <2>3. call[u].doc # a  BY <2>1, <2>2 DEF Fresh
    <2> QED  BY <1>0, <1>1, <2>3 DEF FinishStatusChange, Advance
  <1>2. ASSUME NEW b \in Applications, NEW s \in {"new", "screened"}, Submit(b, s)
        PROVE  application'[a] = application[a]
    BY <1>0, <1>2 DEF Submit
  <1>3. ASSUME NEW u \in Users, CreateStage(u)
        PROVE  application'[a].status = application[a].status
    <2>1. application' = [application EXCEPT ![call[u].doc].rounds = @ \cup {call[u].round}]
      BY <1>3 DEF CreateStage
    <2> QED  BY <1>0, <2>1 DEF Application
  <1>4. ASSUME NEW u \in Users, CreateLetter(u)
        PROVE  application'[a].status = application[a].status
    <2>1. application' = [application EXCEPT ![call[u].doc].offer = "draft"]
      BY <1>4 DEF CreateLetter
    <2> QED  BY <1>0, <2>1 DEF Application
  <1>5. ASSUME NEW b \in Applications, SendOffer(b)
        PROVE  application'[a].status = application[a].status
    <2>1. application' = [application EXCEPT ![b].offer = "sent"]
      BY <1>5 DEF SendOffer
    <2> QED  BY <1>0, <2>1 DEF Application
  <1>6. \/ UNCHANGED application
        \/ \E b \in Applications : SendOffer(b) \/ \E s \in {"new", "screened"} : Submit(b, s)
        \/ \E u \in Users : FinishStatusChange(u) \/ Advance(u) \/ CreateStage(u) \/ CreateLetter(u)
    BY Zenon DEF HiringNext, hiringVars, hiringTables, StartStatusChange, StartSchedule, StartOffer,
       CreateContract, ActivateContract, StartSweepContract, SendNotice, MarkNotified, HiringFails
  <1> QED  BY <1>1, <1>2, <1>3, <1>4, <1>5, <1>6

-----------------------------------------------------------------------------
(* Quotations and the orders made from them.                               *)

(* A quotation that exists has lines, and a call is at work on one that    *)
(* exists.                                                                 *)
QuotesHaveLines ==
  /\ \A q \in Quotes : quote[q].status # "none" => quote[q].lines > 0
  /\ \A u \in Users : call[u] # NoCall =>
       call[u].read.lines > 0 /\ quote[call[u].doc].lines > 0

QuotationsInv == QuotationsTypeOK /\ QuotesHaveLines /\ ConvertedNamesItsOrder

LEMMA QuoteRows ==
  ASSUME NEW held \in Quote, NEW stands \in QuoteStatus
  PROVE  \E row \in Quote :
           /\ row = [held EXCEPT !.status = stands]
           /\ row.status = stands /\ row.lines = held.lines /\ row.order = held.order
  <1> DEFINE row == [held EXCEPT !.status = stands]
  <1>1. row \in Quote  BY DEF Quote
  <1>2. row.status = stands /\ row.lines = held.lines /\ row.order = held.order  BY DEF Quote
  <1> QED  BY <1>1, <1>2

LEMMA QuoteConverted ==
  ASSUME NEW held \in Quote, NEW number \in 0..MaxOrders
  PROVE  \E row \in Quote :
           /\ row = [held EXCEPT !.status = "converted", !.order = number]
           /\ row.lines = held.lines /\ row.order = number
  <1> DEFINE row == [held EXCEPT !.status = "converted", !.order = number]
  <1>1. row \in Quote  BY DEF Quote, QuoteStatus
  <1>2. row.lines = held.lines  BY DEF Quote
  <1>3. row.order = number  BY DEF Quote
  <1> QED  BY <1>1, <1>2, <1>3

(* A step that writes a row and makes at most one order of it.             *)
LEMMA QuoteWritten ==
  ASSUME QuotationsInv, NEW q \in Quotes, NEW row \in Quote, NEW made \in Seq(1..MaxVersions),
         quote' = [quote EXCEPT ![q] = row], madeFrom' = [madeFrom EXCEPT ![q] = made],
         row.lines > 0, row.lines >= quote[q].lines, row.order = Len(made),
         row.status = "converted" => row.order > 0,
         call' = call \/ \E u \in Users : call' = [call EXCEPT ![u] = NoCall]
  PROVE  QuotationsInv'
  <1> USE QuotationsAssumption DEF QuotationsAssumption
  <1>0. /\ \A u \in Users : call[u] \in QuoteCall \cup {NoCall}
        /\ \A o \in Quotes : quote[o] \in Quote
    BY DEF QuotationsInv, QuotationsTypeOK
  <1>1. /\ quote' \in [Quotes -> Quote]
        /\ \A o \in Quotes : quote'[o] = IF o = q THEN row ELSE quote[o]
    BY DEF QuotationsInv, QuotationsTypeOK
  <1>2. /\ madeFrom' \in [Quotes -> Seq(1..MaxVersions)]
        /\ \A o \in Quotes : madeFrom'[o] = IF o = q THEN made ELSE madeFrom[o]
    BY DEF QuotationsInv, QuotationsTypeOK
  <1>3. Len(made) <= MaxOrders  BY DEF Quote
  <1>4. /\ call' \in [Users -> QuoteCall \cup {NoCall}]
        /\ \A u \in Users : call'[u] = call[u] \/ call'[u] = NoCall
    BY DEF QuotationsInv, QuotationsTypeOK
  <1>5. QuotationsTypeOK'
    BY <1>1, <1>2, <1>3, <1>4 DEF QuotationsInv, QuotationsTypeOK
  <1>6. ASSUME NEW u \in Users, call'[u] # NoCall
        PROVE  call'[u].read.lines > 0 /\ quote'[call'[u].doc].lines > 0
    <2>1. call[u].doc \in Quotes /\ call'[u] = call[u]
      BY <1>0, <1>4, <1>6 DEF QuoteCall
    <2> QED  BY <2>1, <1>1, <1>6 DEF QuotationsInv, QuotesHaveLines
  <1>7. QuotesHaveLines'
    BY <1>1, <1>6 DEF QuotationsInv, QuotesHaveLines
  <1>8. ConvertedNamesItsOrder'
    BY <1>1, <1>2 DEF QuotationsInv, ConvertedNamesItsOrder
  <1> QED  BY <1>5, <1>7, <1>8 DEF QuotationsInv

LEMMA QuotationsInductive ==
  ASSUME QuotationsInv, [QuotationsNext]_quotationsVars
  PROVE  QuotationsInv'
  <1> USE QuotationsAssumption DEF QuotationsAssumption
  <1>0. /\ \A u \in Users : call[u] \in QuoteCall \cup {NoCall}
        /\ \A q \in Quotes :
             /\ quote[q] \in Quote /\ madeFrom[q] \in Seq(1..MaxVersions)
             /\ quote[q].order = Len(madeFrom[q])
        /\ DOMAIN quote = Quotes /\ madeFrom \in [Quotes -> Seq(1..MaxVersions)]
    BY DEF QuotationsInv, QuotationsTypeOK, ConvertedNamesItsOrder
  <1>1. ASSUME NEW u \in Users, call[u].op # "idle"
        PROVE  /\ call[u].doc \in Quotes /\ call[u].read \in Quote
               /\ call[u].read.lines \in 1..MaxVersions /\ quote[call[u].doc].lines > 0
    BY <1>1, <1>0 DEF QuoteCall, Quote, NoCall, QuotationsInv, QuotesHaveLines
  <1>2. ASSUME NEW q \in Quotes, CreateQuote(q)
        PROVE  QuotationsInv'
    <2> DEFINE row == [status |-> "draft", lines |-> 1, order |-> 0]
    <2>1. /\ row \in Quote /\ row.lines > 0 /\ row.lines >= quote[q].lines
          /\ row.status = "draft" /\ row.order = quote[q].order
      BY <1>2 DEF CreateQuote, NoQuote, Quote, QuoteStatus
    <2> DEFINE made == madeFrom[q]
    <2>2. quote' = [quote EXCEPT ![q] = row] /\ UNCHANGED call
      BY <1>2 DEF CreateQuote
    <2>3. /\ made \in Seq(1..MaxVersions) /\ row.order = Len(made)
          /\ madeFrom' = [madeFrom EXCEPT ![q] = made]
      BY <1>2, <1>0, <2>1 DEF CreateQuote
    <2>4. row.status = "converted" => row.order > 0  BY <2>1
    <2> HIDE DEF row, made
    <2> QED  BY <2>1, <2>2, <2>3, <2>4, QuoteWritten
  <1>3. ASSUME NEW u \in Users, NEW q \in Quotes,
               NEW op \in {"update", "send", "accept", "reject", "convert"},
               StartQuoteStep(u, q, op)
        PROVE  QuotationsInv'
    <2> DEFINE c == [op |-> op, doc |-> q, read |-> quote[q]]
    <2>1. c \in QuoteCall /\ quote[q].status # "none"
      BY <1>3, <1>0 DEF StartQuoteStep, QuoteStepFrom, QuoteCall
    <2>2. quote[q].lines > 0 /\ c.read = quote[q] /\ c.doc = q
      BY <2>1 DEF QuotationsInv, QuotesHaveLines
    <2>3. call' = [call EXCEPT ![u] = c] /\ UNCHANGED quotationsTables
      BY <1>3 DEF StartQuoteStep, Enter
    <2> HIDE DEF c
    <2> QED
      BY <2>1, <2>2, <2>3
      DEF QuotationsInv, QuotationsTypeOK, QuotesHaveLines, ConvertedNamesItsOrder,
          quotationsTables
  <1>4. ASSUME NEW u \in Users, FinishQuoteUpdate(u)
        PROVE  QuotationsInv'
    <2> DEFINE q == call[u].doc  row == [quote[q] EXCEPT !.lines = @ + 1]
    <2>1. q \in Quotes /\ quote[q].lines > 0  BY <1>1, <1>4 DEF FinishQuoteUpdate
    <2>2. /\ row \in Quote /\ row.lines > 0 /\ row.lines >= quote[q].lines
          /\ row.order = quote[q].order /\ row.status = quote[q].status
      BY SMTT(20), <1>4, <1>0, <2>1 DEF FinishQuoteUpdate, Quote
    <2>3. row.status = "converted" => row.order > 0
      BY <2>1, <2>2 DEF QuotationsInv, ConvertedNamesItsOrder
    <2>4. quote' = [quote EXCEPT ![q] = row] /\ call' = [call EXCEPT ![u] = NoCall]
      BY <1>4 DEF FinishQuoteUpdate, Leave
    <2> DEFINE made == madeFrom[q]
    <2>5. /\ made \in Seq(1..MaxVersions) /\ row.order = Len(made)
          /\ madeFrom' = [madeFrom EXCEPT ![q] = made]
      BY <1>4, <1>0, <2>1, <2>2 DEF FinishQuoteUpdate
    <2> HIDE DEF row, made, q
    <2> QED  BY <2>1, <2>2, <2>3, <2>4, <2>5, QuoteWritten
  <1>5. ASSUME NEW u \in Users, FinishQuoteStep(u)
        PROVE  QuotationsInv'
    <2> DEFINE q == call[u].doc
    <2>1. q \in Quotes /\ quote[q].lines > 0  BY <1>1, <1>5 DEF FinishQuoteStep
    <2>2. PICK stands \in {"sent", "accepted", "rejected"} :
            quote' = [quote EXCEPT ![q].status = stands]
      BY <1>5 DEF FinishQuoteStep
    <2>7. quote[q] \in Quote /\ stands \in QuoteStatus /\ quote[q].lines \in Int
      BY <1>0, <2>1 DEF Quote, QuoteStatus
    <2>8. PICK row \in Quote :
            /\ row = [quote[q] EXCEPT !.status = stands]
            /\ row.status = stands /\ row.lines = quote[q].lines /\ row.order = quote[q].order
      BY <2>7, QuoteRows, Zenon
    <2>3. row.order = quote[q].order /\ row.status = stands
          /\ row.lines > 0 /\ row.lines >= quote[q].lines
      BY <2>1, <2>7, <2>8
    <2>4. quote' = [quote EXCEPT ![q] = row] /\ call' = [call EXCEPT ![u] = NoCall]
      BY <1>5, <2>2, <2>8 DEF FinishQuoteStep, Leave
    <2> DEFINE made == madeFrom[q]
    <2>5. /\ made \in Seq(1..MaxVersions) /\ row.order = Len(made)
          /\ madeFrom' = [madeFrom EXCEPT ![q] = made]
      BY <1>5, <1>0, <2>1, <2>3 DEF FinishQuoteStep
    <2>6. row.status = "converted" => row.order > 0  BY <2>3
    <2> HIDE DEF made, q
    <2> QED  BY <2>1, <2>3, <2>4, <2>5, <2>6, QuoteWritten
  <1>6. ASSUME NEW u \in Users, FinishConvert(u)
        PROVE  QuotationsInv'
    <2> DEFINE q == call[u].doc  made == Append(madeFrom[q], call[u].read.lines)
    <2>1. q \in Quotes /\ call[u].read.lines \in 1..MaxVersions /\ quote[q].lines > 0
      BY <1>1, <1>6 DEF FinishConvert
    <2>2. made \in Seq(1..MaxVersions) /\ Len(made) \in 1..MaxOrders
      BY <1>6, <1>0, <2>1 DEF FinishConvert
    <2>3. madeFrom' = [madeFrom EXCEPT ![q] = made] /\ call' = [call EXCEPT ![u] = NoCall]
      BY <1>6 DEF FinishConvert, Leave
    <2>4. madeFrom'[q] = made  BY <2>1, <2>3, <1>0
    <2>7. quote[q] \in Quote /\ Len(made) \in 0..MaxOrders /\ quote[q].lines \in Int
      BY <1>0, <2>1, <2>2 DEF Quote
    <2>8. PICK row \in Quote :
            /\ row = [quote[q] EXCEPT !.status = "converted", !.order = Len(made)]
            /\ row.lines = quote[q].lines /\ row.order = Len(made)
      <3> HIDE DEF q, made
      <3> QED  BY <2>7, QuoteConverted, Zenon
    <2>5. quote' = [quote EXCEPT ![q] = row]
      BY <1>6, <2>4, <2>8 DEF FinishConvert
    <2>6. row.lines > 0 /\ row.lines >= quote[q].lines /\ row.order > 0
      BY <2>1, <2>2, <2>7, <2>8
    <2> HIDE DEF made, q
    <2> QED  BY <2>1, <2>2, <2>3, <2>5, <2>6, <2>8, QuoteWritten
  <1>7. ASSUME NEW u \in Users, QuoteFails(u)
        PROVE  QuotationsInv'
    BY <1>7
    DEF QuoteFails, Fails, Leave, quotationsTables, QuotationsInv, QuotationsTypeOK,
        QuotesHaveLines, ConvertedNamesItsOrder
  <1>8. CASE UNCHANGED quotationsVars
    BY <1>8
    DEF quotationsVars, quotationsTables, QuotationsInv, QuotationsTypeOK, QuotesHaveLines,
        ConvertedNamesItsOrder
  <1> QED  BY <1>2, <1>3, <1>4, <1>5, <1>6, <1>7, <1>8 DEF QuotationsNext

LEMMA QuotationsStart == QuotationsInit => QuotationsInv
  BY QuotationsAssumption
  DEF QuotationsAssumption, QuotationsInit, CallsInit, QuotationsInv, QuotationsTypeOK,
      QuotesHaveLines, ConvertedNamesItsOrder, NoQuote, Quote, QuoteStatus

(* A call had read the quotation in a status that its method goes on from. *)
QuoteReads(c) ==
  c # NoCall => c.read.status \in QuoteStepFrom(c.op)

QuotesReadOpen == \A u \in Users : QuoteReads(call[u])

LEMMA QuotesReadOpenStill ==
  ASSUME QuotationsTypeOK, QuotesReadOpen, [QuotationsNext]_quotationsVars
  PROVE  QuotesReadOpen'
  <1>0. call \in [Users -> QuoteCall \cup {NoCall}]  BY DEF QuotationsTypeOK
  <1>1. ASSUME NEW u \in Users, NEW c, QuoteReads(c), call' = [call EXCEPT ![u] = c]
        PROVE  QuotesReadOpen'
    BY <1>0, <1>1 DEF QuotesReadOpen
  <1>2. ASSUME NEW u \in Users, NEW q \in Quotes,
               NEW op \in {"update", "send", "accept", "reject", "convert"}, StartQuoteStep(u, q, op)
        PROVE  QuotesReadOpen'
    <2> DEFINE c == [op |-> op, doc |-> q, read |-> quote[q]]
    <2>1. QuoteReads(c)  BY <1>2 DEF StartQuoteStep, QuoteReads
    <2> QED  BY <1>1, <1>2, <2>1 DEF StartQuoteStep, Enter
  <1>3. ASSUME NEW u \in Users, Leave(u)
        PROVE  QuotesReadOpen'
    BY <1>1, <1>3 DEF Leave, QuoteReads
  <1>4. ASSUME NEW u \in Users,
               FinishQuoteUpdate(u) \/ FinishQuoteStep(u) \/ FinishConvert(u) \/ QuoteFails(u)
        PROVE  Leave(u)
    BY Zenon, <1>4 DEF FinishQuoteUpdate, FinishQuoteStep, FinishConvert, QuoteFails, Fails
  <1>5. (\E q \in Quotes : CreateQuote(q)) \/ UNCHANGED quotationsVars => UNCHANGED call
    BY DEF CreateQuote, quotationsVars
  <1>6. UNCHANGED call => QuotesReadOpen'  BY DEF QuotesReadOpen
  <1> QED  BY <1>2, <1>3, <1>4, <1>5, <1>6 DEF QuotationsNext

LEMMA QuoteStays ==
  ASSUME QuotationsTypeOK, QuotesReadOpen, [QuotationsNext]_quotationsVars, NEW q \in Quotes,
         quote[q].status # "none",
         \A u \in Users : call[u] # NoCall /\ call[u].doc = q => call[u].read.status = quote[q].status
  PROVE  /\ quote[q].status # "draft" => quote'[q].lines = quote[q].lines
         /\ quote[q].status \in {"rejected", "converted"} => quote'[q] = quote[q]
  <1>0. quote \in [Quotes -> Quote]  BY DEF QuotationsTypeOK
  <1>1. ASSUME NEW u \in Users, call[u] # NoCall, call[u].doc = q
        PROVE  quote[q].status \in QuoteStepFrom(call[u].op)
    BY <1>1 DEF QuotesReadOpen, QuoteReads
  <1>2. ASSUME NEW u \in Users, FinishQuoteUpdate(u)
        PROVE  quote[q].status = "draft" \/ quote'[q] = quote[q]
    <2>1. call[u].doc = q => quote[q].status = "draft"
      BY <1>1, <1>2 DEF FinishQuoteUpdate, QuoteStepFrom, NoCall
    <2> QED  BY <1>0, <1>2, <2>1 DEF FinishQuoteUpdate
  <1>3. ASSUME NEW u \in Users, FinishQuoteStep(u) \/ FinishConvert(u)
        PROVE  /\ quote'[q].lines = quote[q].lines
               /\ quote[q].status \in {"rejected", "converted"} => quote'[q] = quote[q]
    <2>1. call[u].doc = q => quote[q].status \notin {"rejected", "converted"}
      BY <1>1, <1>3 DEF FinishQuoteStep, FinishConvert, QuoteStepFrom, NoCall
    <2>2. CASE call[u].doc # q
      BY <1>0, <1>3, <2>2 DEF FinishQuoteStep, FinishConvert
    <2>3. CASE call[u].doc = q
      <3> DEFINE s == CASE call[u].op = "send" -> "sent" [] call[u].op = "accept" -> "accepted"
                        [] call[u].op = "reject" -> "rejected"
                 n == Len(madeFrom'[q])
      <3>1. \/ quote' = [quote EXCEPT ![q].status = s]
            \/ quote' = [quote EXCEPT ![q].status = "converted", ![q].order = n]
        BY <1>3, <2>3 DEF FinishQuoteStep, FinishConvert
      <3> HIDE DEF s, n
      <3>2. quote'[q].lines = quote[q].lines  BY <1>0, <3>1 DEF Quote
      <3> QED  BY <2>1, <2>3, <3>2
    <2> QED  BY <2>2, <2>3
  <1>4. ASSUME NEW r \in Quotes, CreateQuote(r)
        PROVE  quote'[q] = quote[q]
    BY <1>0, <1>4 DEF CreateQuote, NoQuote
  <1>5. \/ UNCHANGED quote
        \/ \E r \in Quotes : CreateQuote(r)
        \/ \E u \in Users : FinishQuoteUpdate(u) \/ FinishQuoteStep(u) \/ FinishConvert(u)
    BY Zenon DEF QuotationsNext, quotationsVars, quotationsTables, StartQuoteStep, QuoteFails
  <1> QED  BY <1>2, <1>3, <1>4, <1>5

-----------------------------------------------------------------------------
(* Jobs and the stages of their making.                                    *)

(* A call that makes a job ready or delivers it had read it in production  *)
(* or ready: the material it needed was booked by then.                    *)
BookedBefore ==
  \A u \in Users : call[u].op \in {"markReady", "deliver"} => job[call[u].doc].consumed

JobOrdersInv == JobOrdersTypeOK /\ BookedBefore /\ MadeBeforeReady

LEMMA JobOrdersInductive ==
  ASSUME JobOrdersInv, [JobOrdersNext]_jobOrdersVars
  PROVE  JobOrdersInv'
  <1> USE JobOrdersAssumption DEF JobOrdersAssumption, ProductionStage
  <1>0. /\ \A u \in Users : call[u] \in JobCall \cup {NoCall}
        /\ \A j \in Jobs : job[j] \in JobRow
    BY DEF JobOrdersInv, JobOrdersTypeOK
  <1>1. ASSUME NEW j \in Jobs, CreateJob(j)
        PROVE  JobOrdersInv'
    <2> DEFINE row == [job[j] EXCEPT !.status = "quotation"]
    <2>1. row \in JobRow  BY <1>0 DEF JobRow, JobStatus
    <2>2. row.consumed = job[j].consumed /\ row.status = "quotation"  BY <1>0 DEF JobRow
    <2>3. job' = [job EXCEPT ![j] = row] /\ UNCHANGED <<stage, call>>
      BY <1>1 DEF CreateJob
    <2> HIDE DEF row
    <2>4. JobOrdersTypeOK'
      BY <2>1, <2>3 DEF JobOrdersInv, JobOrdersTypeOK
    <2>5. BookedBefore'
      BY <2>2, <2>3 DEF JobOrdersInv, JobOrdersTypeOK, BookedBefore
    <2>6. MadeBeforeReady'
      BY <2>2, <2>3 DEF JobOrdersInv, JobOrdersTypeOK, MadeBeforeReady
    <2> QED  BY <2>4, <2>5, <2>6 DEF JobOrdersInv
  <1>2. ASSUME NEW u \in Users, NEW c \in JobCall \cup {NoCall}, call' = [call EXCEPT ![u] = c],
               UNCHANGED job, stage' \in [Jobs -> [Stages -> {"pending", "in_progress", "done"}]],
               c.op \in {"markReady", "deliver"} => job[c.doc].consumed
        PROVE  JobOrdersInv'
    BY <1>2 DEF JobOrdersInv, JobOrdersTypeOK, BookedBefore, MadeBeforeReady
  <1>3. ASSUME NEW u \in Users, NEW j \in Jobs, NEW op \in JobOps, StartJobStep(u, j, op)
        PROVE  JobOrdersInv'
    <2> DEFINE c == [op |-> op, doc |-> j, read |-> job[j].status]
    <2>1. c \in JobCall  BY <1>0 DEF JobRow, JobCall
    <2>2. c.op \in {"markReady", "deliver"} => job[c.doc].consumed
      BY <1>3 DEF StartJobStep, JobStepFrom, JobOrdersInv, MadeBeforeReady
    <2>3. call' = [call EXCEPT ![u] = c] /\ UNCHANGED <<job, stage>>
      BY <1>3 DEF StartJobStep, Enter, jobOrdersTables
    <2> HIDE DEF c
    <2> QED  BY <1>2, <2>1, <2>2, <2>3 DEF JobOrdersInv, JobOrdersTypeOK
  <1>4. ASSUME NEW u \in Users, NEW j \in Jobs, NEW k \in Stages, StartComplete(u, j, k)
        PROVE  JobOrdersInv'
    <2> DEFINE c == [op |-> "complete", doc |-> j, read |-> job[j].status, stage |-> k]
    <2>1. c \in JobCall /\ c.op = "complete"  BY <1>0 DEF JobRow, JobCall
    <2>3. call' = [call EXCEPT ![u] = c] /\ UNCHANGED <<job, stage>>
      BY <1>4 DEF StartComplete, Enter, jobOrdersTables
    <2> HIDE DEF c
    <2> QED  BY <1>2, <2>1, <2>3 DEF JobOrdersInv, JobOrdersTypeOK
  <1>5. ASSUME NEW u \in Users, FindNextStage(u)
        PROVE  JobOrdersInv'
    <2> DEFINE goesOn == call[u].stage < LastStage
                           /\ stage[call[u].doc][call[u].stage + 1] = "pending"
               c == [op |-> "completing", doc |-> call[u].doc, read |-> call[u].read,
                     stage |-> call[u].stage, goesOn |-> goesOn]
    <2>1. call[u].doc \in Jobs /\ call[u].read \in JobStatus /\ call[u].stage \in Stages
      BY <1>5, <1>0 DEF FindNextStage, JobCall, JobOps, NoCall
    <2>2. call' = [call EXCEPT ![u] = c] /\ UNCHANGED <<job, stage>>
      BY <1>5 DEF FindNextStage, Proceed, jobOrdersTables
    <2>3. goesOn \in BOOLEAN  OBVIOUS
    <2> HIDE DEF goesOn
    <2>4. c \in JobCall /\ c.op = "completing"  BY <2>1, <2>3 DEF JobCall
    <2> HIDE DEF c
    <2> QED  BY <1>2, <2>2, <2>4 DEF JobOrdersInv, JobOrdersTypeOK
  <1>6. ASSUME NEW u \in Users, FinishComplete(u)
        PROVE  JobOrdersInv'
    <2> DEFINE next == [k \in Stages |-> IF k = call[u].stage THEN "done"
                                         ELSE IF call[u].goesOn /\ k = call[u].stage + 1
                                              THEN "in_progress"
                                         ELSE stage[call[u].doc][k]]
    <2>1. call[u].doc \in Jobs
      BY <1>6, <1>0 DEF FinishComplete, JobCall, JobOps, NoCall
    <2>2. stage[call[u].doc] \in [Stages -> {"pending", "in_progress", "done"}]
      BY <2>1 DEF JobOrdersInv, JobOrdersTypeOK
    <2>3. next \in [Stages -> {"pending", "in_progress", "done"}]  BY <2>2
    <2>4. stage' = [stage EXCEPT ![call[u].doc] = next]  BY <1>6 DEF FinishComplete
    <2> HIDE DEF next
    <2>5. stage' \in [Jobs -> [Stages -> {"pending", "in_progress", "done"}]]
      BY <2>3, <2>4 DEF JobOrdersInv, JobOrdersTypeOK
    <2>6. call' = [call EXCEPT ![u] = NoCall] /\ UNCHANGED job /\ NoCall \in JobCall \cup {NoCall}
          /\ NoCall.op = "idle"
      BY <1>6 DEF FinishComplete, Leave, NoCall
    <2> QED  BY <1>2, <2>5, <2>6
  <1>7. ASSUME NEW u \in Users, JobFails(u)
        PROVE  JobOrdersInv'
    BY <1>2, <1>7 DEF JobFails, Fails, Leave, NoCall, jobOrdersTables, JobOrdersInv, JobOrdersTypeOK
  <1>8. ASSUME NEW u \in Users, FinishJobStep(u)
        PROVE  JobOrdersInv'
    <2> DEFINE op == call[u].op  j == call[u].doc
               row == [status |-> JobStepTo(op),
                       consumed |-> job[j].consumed \/ op = "startProduction"]
    <2>1. j \in Jobs /\ op \in JobOps
      BY <1>8, <1>0 DEF FinishJobStep, JobCall, JobOps, NoCall
    <2>2. JobStepTo(op) \in JobStatus  BY <2>1 DEF JobOps, JobStepTo, JobStatus
    <2>3. job[j].consumed \in BOOLEAN  BY <2>1, <1>0 DEF JobRow
    <2>4. row \in JobRow /\ (job[j].consumed => row.consumed)  BY <2>2, <2>3 DEF JobRow
    <2>5. row.status \in {"in_production", "ready", "delivered"} => row.consumed
      BY <2>1, <2>3 DEF JobOps, JobStepTo, JobOrdersInv, BookedBefore
    <2>6. job' = [job EXCEPT ![j] = row]
      BY <1>8, <2>1, <1>0 DEF FinishJobStep
    <2>7. stage' \in [Jobs -> [Stages -> {"pending", "in_progress", "done"}]]
      <3>1. ProductionStage \in Stages  BY DEF Stages
      <3> QED  BY <1>8, <2>1, <3>1 DEF FinishJobStep, JobOrdersInv, JobOrdersTypeOK
    <2>8. call' = [call EXCEPT ![u] = NoCall]  BY <1>8 DEF FinishJobStep, Leave
    <2> HIDE DEF row, j, op
    <2>9. JobOrdersTypeOK'
      BY <2>1, <2>4, <2>6, <2>7, <2>8 DEF JobOrdersInv, JobOrdersTypeOK
    <2>10. BookedBefore'
      <3>1. \A i \in Jobs : job[i].consumed => job'[i].consumed
        BY <2>1, <2>4, <2>6 DEF JobOrdersInv, JobOrdersTypeOK
      <3>2. \A v \in Users : call'[v].op \in {"markReady", "deliver"}
                               => call'[v] = call[v] /\ call[v].doc \in Jobs
        BY <2>8, <1>0 DEF JobOrdersInv, JobOrdersTypeOK, NoCall, JobCall
      <3> QED  BY <3>1, <3>2 DEF JobOrdersInv, BookedBefore
    <2>11. MadeBeforeReady'
      BY <2>1, <2>5, <2>6 DEF JobOrdersInv, JobOrdersTypeOK, MadeBeforeReady
    <2> QED  BY <2>9, <2>10, <2>11 DEF JobOrdersInv
  <1>9. CASE UNCHANGED jobOrdersVars
    BY <1>9
    DEF jobOrdersVars, jobOrdersTables, JobOrdersInv, JobOrdersTypeOK, BookedBefore,
        MadeBeforeReady
  <1> QED  BY <1>1, <1>3, <1>4, <1>5, <1>6, <1>7, <1>8, <1>9 DEF JobOrdersNext

LEMMA JobOrdersStart == JobOrdersInit => JobOrdersInv
  BY JobOrdersAssumption
  DEF JobOrdersAssumption, JobOrdersInit, CallsInit, JobOrdersInv, JobOrdersTypeOK,
      BookedBefore, MadeBeforeReady, JobRow, JobStatus, NoCall

(* A step of a job had read it in a status that it goes on from.           *)
JobReads(c) == c.op \in JobOps => c.read \in JobStepFrom(c.op)

JobsReadOpen == \A u \in Users : JobReads(call[u])

LEMMA JobsReadOpenStill ==
  ASSUME JobOrdersTypeOK, JobsReadOpen, [JobOrdersNext]_jobOrdersVars
  PROVE  JobsReadOpen'
  <1>0. call \in [Users -> JobCall \cup {NoCall}]  BY DEF JobOrdersTypeOK
  <1>1. ASSUME NEW u \in Users, NEW c, JobReads(c), call' = [call EXCEPT ![u] = c]
        PROVE  JobsReadOpen'
    BY <1>0, <1>1 DEF JobsReadOpen
  <1>2. ASSUME NEW u \in Users, NEW j \in Jobs, NEW op \in JobOps, StartJobStep(u, j, op)
        PROVE  JobsReadOpen'
    <2> DEFINE c == [op |-> op, doc |-> j, read |-> job[j].status]
    <2>1. JobReads(c)  BY <1>2 DEF StartJobStep, JobReads
    <2> QED  BY <1>1, <1>2, <2>1 DEF StartJobStep, Enter
  <1>3. ASSUME NEW u \in Users, NEW c, call' = [call EXCEPT ![u] = c],
               c.op \in {"complete", "completing", "idle"}
        PROVE  JobsReadOpen'
    BY <1>1, <1>3 DEF JobReads, JobOps
  <1>4. ASSUME NEW u \in Users, FindNextStage(u) \/ \E j \in Jobs, k \in Stages : StartComplete(u, j, k)
        PROVE  JobsReadOpen'
    BY <1>3, <1>4 DEF StartComplete, FindNextStage, Enter, Proceed
  <1>5. ASSUME NEW u \in Users, Leave(u)
        PROVE  JobsReadOpen'
    BY <1>3, <1>5 DEF Leave, NoCall
  <1>6. ASSUME NEW u \in Users, FinishJobStep(u) \/ FinishComplete(u) \/ JobFails(u)
        PROVE  Leave(u)
    BY Zenon, <1>6 DEF FinishJobStep, FinishComplete, JobFails, Fails
  <1>7. (\E j \in Jobs : CreateJob(j)) \/ UNCHANGED jobOrdersVars => UNCHANGED call
    BY DEF CreateJob, jobOrdersVars
  <1>8. UNCHANGED call => JobsReadOpen'  BY DEF JobsReadOpen
  <1> QED  BY <1>2, <1>4, <1>5, <1>6, <1>7, <1>8 DEF JobOrdersNext

LEMMA ClosedJobStays ==
  ASSUME JobOrdersTypeOK, JobsReadOpen, [JobOrdersNext]_jobOrdersVars, NEW j \in Jobs,
         job[j].status \in {"delivered", "cancelled"}, Fresh(j, job[j].status)
  PROVE  job'[j] = job[j]
  <1>0. job \in [Jobs -> JobRow]  BY DEF JobOrdersTypeOK
  <1>1. ASSUME NEW u \in Users, FinishJobStep(u)
        PROVE  job'[j] = job[j]
    <2>1. call[u] # NoCall  BY <1>1 DEF FinishJobStep, NoCall, JobOps
    <2>2. call[u].read \notin {"delivered", "cancelled"}
      BY <1>1 DEF FinishJobStep, JobsReadOpen, JobReads, JobOps, JobStepFrom
    <2>3. call[u].doc # j  BY <2>1, <2>2 DEF Fresh
    <2> QED  BY <1>0, <1>1, <2>3 DEF FinishJobStep
  <1>2. ASSUME NEW k \in Jobs, CreateJob(k)
        PROVE  job'[j] = job[j]
    BY <1>0, <1>2 DEF CreateJob
  <1>3. UNCHANGED job \/ (\E u \in Users : FinishJobStep(u)) \/ \E k \in Jobs : CreateJob(k)
    BY Zenon DEF JobOrdersNext, jobOrdersVars, jobOrdersTables, StartJobStep, StartComplete,
       FindNextStage, FinishComplete, JobFails
  <1> QED  BY <1>1, <1>2, <1>3

-----------------------------------------------------------------------------
(* The general ledger and its reports.                                     *)

(* An account that an entry names is in the chart, and an entry's number   *)
(* and that of its mirror are among as many as there are entries.          *)
GlRowsOK ==
  /\ chart \in [Accounts -> Account]
  /\ journal \subseteq JournalRow
  /\ IsFiniteSet(journal)
  /\ Cardinality(journal) <= MaxJournal
  /\ \A e \in journal :
       /\ Exists(e.debit) /\ Exists(e.credit) /\ e.debit # e.credit
       /\ e.id <= Cardinality(journal) /\ e.reversedBy <= Cardinality(journal)

GlInv == GlRowsOK /\ call \in [Users -> GlCall \cup {NoCall}]

LEMMA GlCallIs ==
  ASSUME NEW c \in GlCall \cup {NoCall}
  PROVE  /\ c.op = "update" => c.doc \in Accounts /\ c.to \in Category
         /\ c.op = "ledger" => /\ c.doc \in Accounts /\ c.category \in Category
                               /\ c.from \in Dates /\ c.to \in Dates
                               /\ c.left \in SUBSET {"lines", "debit", "credit"}
                               /\ c.closing \in Int /\ c.upto \in 0..MaxJournal
         /\ c.op \in {"sheet", "sheetSummed", "income", "sheetDone"} =>
              /\ c.asOf \in Dates /\ c.listed \in Listing /\ c.earning \in Listing
              /\ c.out \in Int /\ c.upto \in 0..MaxJournal
  <1>1. NoCall.op = "idle"  BY DEF NoCall
  <1> QED  BY <1>1 DEF GlCall

LEMMA CountsInt ==
  ASSUME GlRowsOK, NEW a, NEW days
  PROVE  Debits(a, days) \in Nat /\ Credits(a, days) \in Nat
  <1>1. /\ IsFiniteSet({e \in Posted : e.debit = a /\ e.on \in days})
        /\ IsFiniteSet({e \in Posted : e.credit = a /\ e.on \in days})
    BY FS_Subset DEF GlRowsOK, Posted
  <1> QED  BY <1>1, FS_CardinalityType DEF Debits, Credits

LEMMA SignedInt ==
  ASSUME NEW category, NEW d \in Int, NEW k \in Int
  PROVE  SignedBalance(category, d, k) \in Int
  BY DEF SignedBalance

LEMMA SectionInt ==
  ASSUME GlRowsOK, NEW listed, NEW categories, NEW days
  PROVE  Section(listed, categories, days) \in Int
  <1> DEFINE g == [a \in Accounts |-> SignedBalance(listed[a], Debits(a, days), Credits(a, days))]
             S == {a \in Accounts : listed[a] \in categories}
  <1>1. S \in SUBSET Accounts /\ IsFiniteSet(S)
    BY GlAssumption, FS_Subset DEF GlAssumption
  <1>2. \A a \in S : g[a] \in Int
    <2>1. ASSUME NEW a \in Accounts
          PROVE  SignedBalance(listed[a], Debits(a, days), Credits(a, days)) \in Int
      <3>1. PICK d, k \in Nat : d = Debits(a, days) /\ k = Credits(a, days)  BY CountsInt
      <3> QED  BY <3>1, SignedInt
    <2> QED  BY <1>1, <2>1
  <1>3. Section(listed, categories, days) = SumFunctionOnSet(g, S)  BY DEF Section
  <1> HIDE DEF g, S
  <1>4. IntOn(g, S)  BY <1>2 DEF IntOn
  <1> QED  BY <1>1, <1>3, <1>4, SumFunctionIs, SumInt

LEMMA ListingIs ==
  ASSUME GlRowsOK, NEW categories \in SUBSET Category
  PROVE  ActiveOf(categories) \in Listing
  BY DEF ActiveOf, Listing

(* An entry or a reversal puts new rows in, the last of which has the      *)
(* number of the rows there are.                                           *)
Grows(kept, added) ==
  /\ kept \in SUBSET journal /\ added \in SUBSET JournalRow /\ IsFiniteSet(added)
  /\ journal' = kept \cup added
  /\ \A e \in added : /\ e.id = NextId \/ e.reversedBy = NextId
                      /\ e.id <= NextId /\ e.reversedBy <= NextId
                      /\ Exists(e.debit) /\ Exists(e.credit) /\ e.debit # e.credit
  /\ Cardinality(journal') = NextId /\ NextId <= MaxJournal
  /\ UNCHANGED <<chart, call>>

LEMMA NextIdIs ==
  ASSUME GlRowsOK
  PROVE  /\ Cardinality(journal) \in Nat /\ NextId \in Nat \ {0}
         /\ NextId = Cardinality(journal) + 1
         /\ \A e \in journal : e \in JournalRow /\ e.id # NextId /\ e.reversedBy # NextId
  <1>1. Cardinality(journal) \in Nat  BY FS_CardinalityType DEF GlRowsOK
  <1>2. \A e \in journal : e.id \in Int /\ e.reversedBy \in Int  BY DEF GlRowsOK, JournalRow
  <1>3. NextId = Cardinality(journal) + 1  BY DEF NextId
  <1>4. \A e \in journal : e \in JournalRow /\ e.id <= Cardinality(journal)
                            /\ e.reversedBy <= Cardinality(journal)
    BY DEF GlRowsOK
  <1> QED  BY <1>1, <1>2, <1>3, <1>4

LEMMA LineIs ==
  ASSUME GlRowsOK, NEW d \in Accounts, NEW c \in Accounts, NEW date \in Dates, NextId <= MaxJournal
  PROVE  /\ Line(d, c, date) \in JournalRow
         /\ Line(d, c, date).debit = d /\ Line(d, c, date).credit = c
         /\ Line(d, c, date).id = NextId /\ Line(d, c, date).reversedBy = 0
         /\ Line(d, c, date).on = date
  <1>1. NextId \in 1..MaxJournal /\ 0 \in 0..MaxJournal
    <2>1. MaxJournal \in Nat  BY GlAssumption DEF GlAssumption
    <2> QED  BY <2>1, NextIdIs
  <1> QED  BY <1>1 DEF Line, JournalRow

LEMMA PostGrows ==
  ASSUME GlRowsOK, NEW d \in Accounts, NEW c \in Accounts, d # c, NEW date \in Dates,
         PostEntry(d, c, date)
  PROVE  /\ Grows(journal, {Line(d, c, date)})
         /\ Line(d, c, date).id = NextId /\ Line(d, c, date).reversedBy = 0
  <1> DEFINE line == Line(d, c, date)
  <1>1. /\ journal' = journal \cup {line} /\ NextId <= MaxJournal /\ UNCHANGED <<chart, call>>
        /\ Exists(d) /\ Exists(c)
    BY DEF PostEntry
  <1>2. /\ line \in JournalRow /\ line.debit = d /\ line.credit = c /\ line.id = NextId
        /\ line.reversedBy = 0
    BY <1>1, LineIs
  <1> HIDE DEF line
  <1>3. IsFiniteSet({line})  BY FS_Singleton
  <1>4. line \notin journal  BY <1>2, NextIdIs
  <1>5. Cardinality(journal') = NextId
    BY <1>1, <1>4, NextIdIs, FS_AddElement DEF GlRowsOK
  <1>6. 0 <= NextId /\ NextId <= NextId  BY NextIdIs
  <1>7. \A e \in {line} : /\ e.id = NextId \/ e.reversedBy = NextId
                          /\ e.id <= NextId /\ e.reversedBy <= NextId
                          /\ Exists(e.debit) /\ Exists(e.credit) /\ e.debit # e.credit
    BY <1>1, <1>2, <1>6
  <1>8. {line} \in SUBSET JournalRow /\ journal \in SUBSET journal  BY <1>2
  <1>9. Grows(journal, {line})  BY <1>1, <1>3, <1>5, <1>7, <1>8 DEF Grows
  <1> QED  BY <1>2, <1>9 DEF line

Marked(e) == [e EXCEPT !.reversedBy = NextId]

LEMMA MarkedIs ==
  ASSUME GlRowsOK, NEW e \in journal, NextId <= MaxJournal
  PROVE  /\ Marked(e) \in JournalRow /\ Marked(e).reversedBy = NextId
         /\ Marked(e).id = e.id /\ Marked(e).on = e.on
         /\ Marked(e).debit = e.debit /\ Marked(e).credit = e.credit
  <1>1. NextId \in 0..MaxJournal
    <2>1. MaxJournal \in Nat  BY GlAssumption DEF GlAssumption
    <2> QED  BY <2>1, NextIdIs
  <1>2. e \in JournalRow  BY DEF GlRowsOK
  <1> QED  BY <1>1, <1>2 DEF Marked, JournalRow

LEMMA ReverseGrows ==
  ASSUME GlRowsOK, NEW e \in journal, NEW date \in Dates, ReverseEntry(e, date)
  PROVE  /\ Grows(journal \ {e}, {Marked(e), Line(e.credit, e.debit, date)})
         /\ e.reversedBy = 0 /\ Marked(e) \notin journal
         /\ Line(e.credit, e.debit, date).reversedBy = 0
         /\ Line(e.credit, e.debit, date) # Marked(e)
  <1> DEFINE line == Line(e.credit, e.debit, date)  row == Marked(e)
  <1>1. /\ journal' = (journal \ {e}) \cup {row, line} /\ NextId <= MaxJournal
        /\ UNCHANGED <<chart, call>> /\ e.reversedBy = 0
    BY DEF ReverseEntry, Marked
  <1>2. /\ e \in JournalRow /\ e.debit \in Accounts /\ e.credit \in Accounts
        /\ Exists(e.debit) /\ Exists(e.credit) /\ e.debit # e.credit /\ e.id <= Cardinality(journal)
    BY DEF GlRowsOK, JournalRow
  <1>3. /\ line \in JournalRow /\ line.debit = e.credit /\ line.credit = e.debit /\ line.id = NextId
        /\ line.reversedBy = 0
    BY <1>1, <1>2, LineIs
  <1>4. /\ row \in JournalRow /\ row.reversedBy = NextId /\ row.id = e.id
        /\ row.debit = e.debit /\ row.credit = e.credit
    BY <1>1, MarkedIs
  <1>5. e.id \in Int /\ e.id <= NextId
    <2>1. e.id \in Int  BY <1>2 DEF JournalRow
    <2> QED  BY <1>2, <2>1, NextIdIs
  <1> HIDE DEF line, row
  <1>6. line \notin journal /\ row \notin journal /\ line # row  BY <1>3, <1>4, NextIdIs
  <1>7. IsFiniteSet({row, line}) /\ Cardinality(journal') = NextId
    <2>1. IsFiniteSet(journal) /\ IsFiniteSet({row})  BY FS_Singleton DEF GlRowsOK
    <2>2. {row, line} = {row} \cup {line}  OBVIOUS
    <2>3. IsFiniteSet({row, line})  BY <2>1, <2>2, FS_AddElement
    <2>4. IsFiniteSet(journal \ {e}) /\ Cardinality(journal \ {e}) = Cardinality(journal) - 1
      BY <2>1, FS_RemoveElement
    <2>5. PICK K : K = (journal \ {e}) \cup {row}
      OBVIOUS
    <2>6. IsFiniteSet(K) /\ Cardinality(K) = Cardinality(journal \ {e}) + 1
      BY <1>6, <2>4, <2>5, FS_AddElement
    <2>7. journal' = K \cup {line} /\ line \notin K  BY <1>1, <1>6, <2>5
    <2>8. Cardinality(journal') = Cardinality(K) + 1  BY <2>6, <2>7, FS_AddElement
    <2>9. Cardinality(journal') = Cardinality(journal) + 1
      <3>1. Cardinality(journal) \in Nat  BY NextIdIs
      <3> QED  BY <2>4, <2>6, <2>8, <3>1
    <2> QED  BY <2>3, <2>9, NextIdIs
  <1>8. 0 <= NextId /\ NextId <= NextId  BY NextIdIs
  <1>9. \A k \in {row, line} : /\ k.id = NextId \/ k.reversedBy = NextId
                               /\ k.id <= NextId /\ k.reversedBy <= NextId
                               /\ Exists(k.debit) /\ Exists(k.credit) /\ k.debit # k.credit
    BY <1>2, <1>3, <1>4, <1>5, <1>8
  <1>10. {row, line} \in SUBSET JournalRow /\ journal \ {e} \in SUBSET journal  BY <1>3, <1>4
  <1>11. Grows(journal \ {e}, {row, line})  BY <1>1, <1>7, <1>9, <1>10 DEF Grows
  <1> QED  BY <1>1, <1>3, <1>6, <1>11 DEF line, row

LEMMA GlInductive ==
  ASSUME GlInv, [GlNext]_glVars
  PROVE  GlInv'
  <1> USE GlAssumption DEF GlAssumption
  <1>0. /\ call \in [Users -> GlCall \cup {NoCall}] /\ chart \in [Accounts -> Account] /\ GlRowsOK
        /\ Cardinality(journal) \in 0..MaxJournal
    <2>1. Cardinality(journal) \in Nat  BY NextIdIs DEF GlInv
    <2> QED  BY <2>1 DEF GlInv, GlRowsOK
  (* An account stays in the chart. *)
  <1>1. ASSUME NEW a \in Accounts, NEW row \in Account,
               chart[a].category # "none" => row.category # "none",
               chart' = [chart EXCEPT ![a] = row], UNCHANGED journal,
               call' \in [Users -> GlCall \cup {NoCall}]
        PROVE  GlInv'
    <2>1. chart' \in [Accounts -> Account]
          /\ \A b \in Accounts : chart[b].category # "none" => chart'[b].category # "none"
      BY <1>0, <1>1
    <2>2. \A e \in journal : e.debit \in Accounts /\ e.credit \in Accounts
      BY <1>0 DEF GlRowsOK, JournalRow
    <2> QED  BY <1>0, <1>1, <2>1, <2>2 DEF GlInv, GlRowsOK, Exists
  <1>2. ASSUME NEW u \in Users, NEW c \in GlCall \cup {NoCall}, call' = [call EXCEPT ![u] = c],
               UNCHANGED glTables
        PROVE  GlInv'
    <2>1. call' \in [Users -> GlCall \cup {NoCall}]  BY <1>0, <1>2
    <2> QED  BY <1>0, <1>2, <2>1 DEF glTables, GlInv, GlRowsOK, Exists
  (* The journal grows. *)
  <1>3. ASSUME NEW kept, NEW added, Grows(kept, added)
        PROVE  GlInv'
    <2>1. /\ kept \in SUBSET journal /\ added \in SUBSET JournalRow /\ IsFiniteSet(added)
          /\ journal' = kept \cup added /\ Cardinality(journal') = NextId /\ NextId <= MaxJournal
          /\ UNCHANGED <<chart, call>>
      BY <1>3 DEF Grows
    <2>2. /\ journal \subseteq JournalRow /\ IsFiniteSet(journal)
          /\ Cardinality(journal) \in Nat /\ NextId = Cardinality(journal) + 1
      BY <1>0, NextIdIs DEF GlRowsOK
    <2>3. journal' \subseteq JournalRow  BY <2>1, <2>2
    <2>4. IsFiniteSet(journal')  BY <2>1, <2>2, FS_Subset, FS_Union
    <2>5. \A e \in journal' : /\ Exists(e.debit)' /\ Exists(e.credit)' /\ e.debit # e.credit
                              /\ e.id <= NextId /\ e.reversedBy <= NextId
      <3>1. ASSUME NEW e \in journal
            PROVE  /\ Exists(e.debit)' /\ Exists(e.credit)' /\ e.debit # e.credit
                   /\ e.id <= NextId /\ e.reversedBy <= NextId
        <4>1. e.id \in Int /\ e.reversedBy \in Int  BY <2>2 DEF JournalRow
        <4> QED  BY <1>0, <2>1, <2>2, <4>1 DEF GlRowsOK, Exists
      <3>2. ASSUME NEW e \in added
            PROVE  /\ Exists(e.debit)' /\ Exists(e.credit)' /\ e.debit # e.credit
                   /\ e.id <= NextId /\ e.reversedBy <= NextId
        BY <1>3, <2>1 DEF Grows, Exists
      <3> QED  BY <2>1, <3>1, <3>2
    <2> QED  BY <1>0, <2>1, <2>3, <2>4, <2>5 DEF GlInv, GlRowsOK
  <1>6. ASSUME NEW a \in Accounts, NEW c \in Categories, CreateAccount(a, c)
        PROVE  GlInv'
    <2> DEFINE row == [chart[a] EXCEPT !.category = c]
    <2>1. chart[a] \in Account /\ c \in Category /\ c # "none"
      BY <1>0 DEF Category, AssetCategories, IncomeCategories
    <2>2. row \in Account  BY <2>1 DEF Account
    <2>3. row.category = c  BY <2>1 DEF Account
    <2>4. chart' = [chart EXCEPT ![a] = row] /\ UNCHANGED <<journal, call>>
      BY <1>6 DEF CreateAccount
    <2> HIDE DEF row
    <2> QED  BY <1>0, <1>1, <2>1, <2>2, <2>3, <2>4
  <1>7. ASSUME NEW a \in Accounts, NEW b \in BOOLEAN, SetActive(a, b)
        PROVE  GlInv'
    <2> DEFINE row == [chart[a] EXCEPT !.active = b]
    <2>1. row \in Account  BY <1>0 DEF Account
    <2>2. row.category = chart[a].category  BY <1>0 DEF Account
    <2>3. chart' = [chart EXCEPT ![a] = row] /\ UNCHANGED <<journal, call>>
      BY <1>7 DEF SetActive
    <2> HIDE DEF row
    <2> QED  BY <1>0, <1>1, <2>1, <2>2, <2>3
  <1>8. ASSUME NEW u \in Users, NEW a \in Accounts, NEW c \in Categories, StartUpdate(u, a, c)
        PROVE  GlInv'
    <2> DEFINE used == c # chart[a].category /\ InUse(a)
               k == [op |-> "update", doc |-> a, to |-> c, used |-> used]
    <2>1. used \in BOOLEAN  BY DEF InUse
    <2>2. call' = [call EXCEPT ![u] = k]  BY <1>8 DEF StartUpdate, Enter
    <2> HIDE DEF used
    <2>3. k \in GlCall  BY <2>1 DEF GlCall
    <2> HIDE DEF k
    <2> QED  BY <1>2, <1>8, <2>2, <2>3 DEF StartUpdate
  <1>9. ASSUME NEW u \in Users, FinishUpdate(u)
        PROVE  GlInv'
    <2>1. PICK a \in Accounts, c \in Category : a = call[u].doc /\ c = call[u].to
      BY <1>9, <1>0, GlCallIs DEF FinishUpdate
    <2> DEFINE row == [chart[a] EXCEPT !.category = c]
    <2>2. chart[a] \in Account /\ c # "none"
      BY <1>0 DEF Category, AssetCategories, IncomeCategories
    <2>3. row \in Account  BY <2>2 DEF Account
    <2>4. row.category = c  BY <2>2 DEF Account
    <2>5. chart' = [chart EXCEPT ![a] = row] /\ UNCHANGED journal
      BY <1>9, <2>1 DEF FinishUpdate
    <2>6. call' \in [Users -> GlCall \cup {NoCall}]  BY <1>0, <1>9 DEF FinishUpdate, Leave
    <2> HIDE DEF row
    <2> QED  BY <1>1, <2>2, <2>3, <2>4, <2>5, <2>6
  <1>10. ASSUME NEW u \in Users, GlEnds(u)
         PROVE  GlInv'
    BY <1>2, <1>10 DEF GlEnds, Fails, Leave
  <1>11. ASSUME NEW d \in Accounts, NEW c \in Accounts, d # c, NEW date \in Dates,
                PostEntry(d, c, date)
         PROVE  GlInv'
    BY <1>0, <1>3, <1>11, PostGrows
  <1>12. ASSUME NEW date \in Dates, NEW e \in journal, ReverseEntry(e, date)
         PROVE  GlInv'
    BY <1>0, <1>3, <1>12, ReverseGrows
  <1>13. CASE UNCHANGED glVars
    BY <1>0, <1>13 DEF glVars, glTables, GlInv, GlRowsOK, Exists
  (* The reports write nothing but what they have read. *)
  <1>14. ASSUME NEW u \in Users, NEW a \in Accounts, StartLedger(u, a)
         PROVE  GlInv'
    <2>1. PICK from, to \in Dates :
            Enter(u, [op |-> "ledger", doc |-> a, category |-> chart[a].category,
                      from |-> from, to |-> to, left |-> {"lines", "debit", "credit"},
                      closing |-> 0, upto |-> Cardinality(journal)])
      BY <1>14 DEF StartLedger
    <2> DEFINE k == [op |-> "ledger", doc |-> a, category |-> chart[a].category,
                     from |-> from, to |-> to, left |-> {"lines", "debit", "credit"},
                     closing |-> 0, upto |-> Cardinality(journal)]
    <2>2. chart[a].category \in Category  BY <1>0, <1>14 DEF StartLedger, Exists, Account
    <2>3. k \in GlCall  BY <1>0, <2>2 DEF GlCall
    <2>4. call' = [call EXCEPT ![u] = k]  BY <2>1 DEF Enter
    <2> HIDE DEF k
    <2> QED  BY <1>2, <1>14, <2>3, <2>4 DEF StartLedger
  <1>15. ASSUME NEW u \in Users, NEW part \in {"lines", "debit", "credit"}, ReadLedger(u, part)
         PROVE  GlInv'
    <2>1. PICK c \in GlCall : c = call[u] /\ c.op = "ledger"
      BY <1>0, <1>15 DEF ReadLedger, NoCall
    <2>2. /\ c.left \in SUBSET {"lines", "debit", "credit"} /\ c.closing \in Int
      BY <2>1, GlCallIs
    <2> DEFINE lines == SignedBalance(c.category, Debits(c.doc, c.from..c.to),
                                                  Credits(c.doc, c.from..c.to))
               debits == SignedBalance(c.category, Debits(c.doc, Opening(c.from)), 0)
               credits == SignedBalance(c.category, 0, Credits(c.doc, Opening(c.from)))
               sum == CASE part = "lines" -> lines
                        [] part = "debit" -> debits
                        [] part = "credit" -> credits
               k == [c EXCEPT !.left = @ \ {part}, !.closing = @ + sum]
    <2>3. lines \in Int /\ debits \in Int /\ credits \in Int
      <3>1. /\ Debits(c.doc, c.from..c.to) \in Int /\ Credits(c.doc, c.from..c.to) \in Int
            /\ Debits(c.doc, Opening(c.from)) \in Int /\ Credits(c.doc, Opening(c.from)) \in Int
            /\ 0 \in Int
        BY <1>0, CountsInt
      <3> QED  BY <3>1, SignedInt
    <2>4. call' = [call EXCEPT ![u] = k] /\ UNCHANGED glTables
      BY <1>15, <2>1 DEF ReadLedger, Proceed
    <2> HIDE DEF lines, debits, credits
    <2>5. sum \in Int  BY <2>3
    <2> HIDE DEF sum
    <2>6. k \in GlCall
      <3> DEFINE left == c.left \ {part}  closing == c.closing + sum
      <3>1. left \in SUBSET {"lines", "debit", "credit"} /\ closing \in Int  BY <2>2, <2>5
      <3>2. k = [c EXCEPT !.left = left, !.closing = closing]  OBVIOUS
      <3> HIDE DEF left, closing, k
      <3> QED  BY <2>1, <3>1, <3>2 DEF GlCall
    <2> HIDE DEF k
    <2> QED  BY <1>2, <2>4, <2>6
  <1>16. ASSUME NEW u \in Users, StartSheet(u)
         PROVE  GlInv'
    <2>1. PICK asOf \in Dates :
            Enter(u, [op |-> "sheet", asOf |-> asOf,
                      listed |-> ActiveOf(AssetCategories \cup {"liabilities", "equity"}),
                      earning |-> [a \in Accounts |-> "none"], out |-> 0,
                      upto |-> Cardinality(journal)])
      BY <1>16 DEF StartSheet
    <2>2. PICK listed \in Listing : listed = ActiveOf(AssetCategories \cup {"liabilities", "equity"})
      <3>1. AssetCategories \cup {"liabilities", "equity"} \in SUBSET Category  BY DEF Category
      <3> QED  BY <1>0, <3>1, ListingIs
    <2>3. PICK earning \in Listing : earning = [a \in Accounts |-> "none"]  BY DEF Listing
    <2> DEFINE k == [op |-> "sheet", asOf |-> asOf, listed |-> listed, earning |-> earning,
                     out |-> 0, upto |-> Cardinality(journal)]
    <2>4. k \in GlCall  BY <1>0 DEF GlCall
    <2>5. call' = [call EXCEPT ![u] = k]  BY <2>1, <2>2, <2>3 DEF Enter
    <2> HIDE DEF k
    <2> QED  BY <1>2, <1>16, <2>4, <2>5 DEF StartSheet
  <1>17. ASSUME NEW u \in Users, NEW out \in Int, NEW earning \in Listing,
                NEW op \in {"sheetSummed", "income", "sheetDone"},
                call[u].op \in {"sheet", "sheetSummed", "income"}, UNCHANGED glTables,
                call' = [call EXCEPT ![u] = [call[u] EXCEPT !.op = op, !.out = out,
                                                            !.earning = earning]]
         PROVE  GlInv'
    <2>1. PICK c \in GlCall : c = call[u]  BY <1>0, <1>17 DEF NoCall
    <2> DEFINE k == [c EXCEPT !.op = op, !.out = out, !.earning = earning]
    <2>2. k \in GlCall  BY <1>17, <2>1 DEF GlCall
    <2>3. call' = [call EXCEPT ![u] = k]  BY <1>17, <2>1
    <2> HIDE DEF k
    <2> QED  BY <1>2, <1>17, <2>2, <2>3
  (* A call of the balance sheet as it was, but for what is said of it. *)
  <1>18. ASSUME NEW u \in Users, call[u].op \in {"sheet", "sheetSummed", "income"}
         PROVE  /\ call[u].out \in Int /\ call[u].earning \in Listing
                /\ \A op, out : [call[u] EXCEPT !.op = op, !.out = out]
                     = [call[u] EXCEPT !.op = op, !.out = out, !.earning = call[u].earning]
                /\ \A op, earning : [call[u] EXCEPT !.op = op, !.earning = earning]
                     = [call[u] EXCEPT !.op = op, !.out = call[u].out, !.earning = earning]
    <2>1. PICK c \in GlCall : c = call[u]  BY <1>0, <1>18 DEF NoCall
    <2> QED  BY <1>18, <2>1 DEF GlCall
  <1>19. ASSUME NEW u \in Users, SumSheet(u)
         PROVE  GlInv'
    <2>1. PICK out \in Int :
            call' = [call EXCEPT ![u] = [call[u] EXCEPT !.op = "sheetSummed", !.out = out]]
      <3> DEFINE A == Section(call[u].listed, AssetCategories, 1..call[u].asOf)
                 L == Section(call[u].listed, {"liabilities", "equity"}, 1..call[u].asOf)
      <3>1. A \in Int /\ L \in Int  BY <1>0, SectionInt
      <3>2. call' = [call EXCEPT ![u] = [call[u] EXCEPT !.op = "sheetSummed", !.out = A - L]]
        BY <1>19 DEF SumSheet, Proceed
      <3> HIDE DEF A, L
      <3>3. PICK out \in Int : out = A - L  BY <3>1
      <3> QED  BY <3>2, <3>3
    <2>2. call[u].op = "sheet" /\ UNCHANGED glTables  BY <1>19 DEF SumSheet
    <2>3. PICK earning \in Listing : earning = call[u].earning  BY <2>2, <1>18
    <2>4. [call[u] EXCEPT !.op = "sheetSummed", !.out = out]
            = [call[u] EXCEPT !.op = "sheetSummed", !.out = out, !.earning = earning]
      BY <1>18, <2>2, <2>3
    <2> QED  BY <1>17, <2>1, <2>2, <2>4
  <1>20. ASSUME NEW u \in Users, ListEarning(u)
         PROVE  GlInv'
    <2>1. PICK earning \in Listing : earning = ActiveOf(IncomeCategories)
      <3>1. IncomeCategories \in SUBSET Category  BY DEF Category
      <3> QED  BY <1>0, <3>1, ListingIs
    <2>2. /\ call[u].op = "sheetSummed" /\ UNCHANGED glTables
          /\ call' = [call EXCEPT ![u] = [call[u] EXCEPT !.op = "income", !.earning = earning]]
      BY <1>20, <2>1 DEF ListEarning, Proceed
    <2>3. PICK out \in Int : out = call[u].out  BY <2>2, <1>18
    <2>4. [call[u] EXCEPT !.op = "income", !.earning = earning]
            = [call[u] EXCEPT !.op = "income", !.out = out, !.earning = earning]
      BY <1>18, <2>2, <2>3
    <2> QED  BY <1>17, <2>2, <2>4
  <1>21. ASSUME NEW u \in Users, SumIncome(u)
         PROVE  GlInv'
    <2>1. call[u].op = "income" /\ UNCHANGED glTables  BY <1>21 DEF SumIncome
    <2>2. PICK out \in Int :
            call' = [call EXCEPT ![u] = [call[u] EXCEPT !.op = "sheetDone", !.out = out]]
      <3> DEFINE N == NetIncome(call[u].earning, YearOf(call[u].asOf))
      <3>1. PICK R, X \in Int : N = R - X  BY <1>0, SectionInt DEF NetIncome
      <3>2. N \in Int  BY <3>1
      <3>3. PICK out \in Int : out = call[u].out - N
        <4>1. PICK o \in Int : o = call[u].out  BY <1>18, <2>1
        <4>2. PICK n \in Int : n = N  BY <3>2
        <4>3. o - n \in Int  OBVIOUS
        <4> QED  BY <4>1, <4>2, <4>3
      <3>4. call' = [call EXCEPT ![u] = [call[u] EXCEPT !.op = "sheetDone", !.out = call[u].out - N]]
        BY <1>21 DEF SumIncome, Proceed
      <3> HIDE DEF N
      <3> QED  BY <3>3, <3>4
    <2>3. PICK earning \in Listing : earning = call[u].earning  BY <2>1, <1>18
    <2>4. [call[u] EXCEPT !.op = "sheetDone", !.out = out]
            = [call[u] EXCEPT !.op = "sheetDone", !.out = out, !.earning = earning]
      BY <1>18, <2>1, <2>3
    <2> QED  BY <1>17, <2>1, <2>2, <2>4
  <1> QED
    BY Zenon, <1>6, <1>7, <1>8, <1>9, <1>10, <1>11, <1>12, <1>13, <1>14, <1>15, <1>16, <1>19, <1>20,
       <1>21 DEF GlNext

LEMMA GlStart == GlInit => GlInv
  <1> SUFFICES ASSUME GlInit PROVE GlInv
    OBVIOUS
  <1>1. IsFiniteSet({}) /\ Cardinality({}) = 0  BY FS_EmptySet
  <1>2. 0 <= MaxJournal  BY GlAssumption DEF GlAssumption
  <1> QED  BY <1>1, <1>2 DEF GlInit, CallsInit, GlInv, GlRowsOK, Account

LEMMA CategoryStays ==
  ASSUME GlInv, [GlNext]_glVars, NEW a \in Accounts, InUse(a),
         \A u \in Users : call[u].op = "update" /\ call[u].doc = a =>
           call[u].used \/ call[u].to = chart[a].category
  PROVE  chart'[a].category = chart[a].category
  <1>0. chart \in [Accounts -> Account] /\ Exists(a)
    BY DEF GlInv, GlRowsOK, InUse
  <1>1. ASSUME NEW b \in Accounts, NEW c \in Categories, CreateAccount(b, c)
        PROVE  chart'[a] = chart[a]
    <2>1. b # a  BY <1>0, <1>1 DEF CreateAccount
    <2> QED  BY <1>0, <1>1, <2>1 DEF CreateAccount
  <1>2. ASSUME NEW b \in Accounts, NEW on \in BOOLEAN, SetActive(b, on)
        PROVE  chart'[a].category = chart[a].category
    <2> DEFINE row == [chart[a] EXCEPT !.active = on]
    <2>1. row.category = chart[a].category  BY <1>0 DEF Account
    <2>2. chart'[a] = chart[a] \/ chart'[a] = row  BY <1>0, <1>2 DEF SetActive
    <2> HIDE DEF row
    <2> QED  BY <2>1, <2>2
  <1>3. ASSUME NEW u \in Users, FinishUpdate(u)
        PROVE  chart'[a].category = chart[a].category
    <2>1. call[u].doc = a => call[u].to = chart[a].category  BY <1>3 DEF FinishUpdate
    <2> DEFINE row == [chart[a] EXCEPT !.category = call[u].to]
    <2>2. row.category = call[u].to  BY <1>0 DEF Account
    <2>3. IF call[u].doc = a THEN chart'[a] = row ELSE chart'[a] = chart[a]
      BY <1>0, <1>3 DEF FinishUpdate
    <2> HIDE DEF row
    <2> QED  BY <2>1, <2>2, <2>3
  <1>4. \/ UNCHANGED chart
        \/ \E b \in Accounts : \/ \E c \in Categories : CreateAccount(b, c)
                               \/ \E on \in BOOLEAN : SetActive(b, on)
        \/ \E u \in Users : FinishUpdate(u)
    BY Zenon DEF GlNext, glVars, glTables, StartUpdate, GlEnds, PostEntry, ReverseEntry,
       StartLedger, ReadLedger, StartSheet, SumSheet, ListEarning, SumIncome
  <1> QED  BY <1>1, <1>2, <1>3, <1>4

(* What a ledger has read: of some entries, which differ from those that   *)
(* are posted by what has moved since, the lines of the parts it has read. *)
IsRead(c, e, side) ==
  \/ e.on \in c.from..c.to /\ "lines" \notin c.left
  \/ e.on \in Opening(c.from) /\ side \notin c.left
Debited(c, E) == {e \in E : e.debit = c.doc /\ IsRead(c, e, "debit")}
Credited(c, E) == {e \in E : e.credit = c.doc /\ IsRead(c, e, "credit")}
HasRead(c, E) ==
  /\ E \in SUBSET journal
  /\ E \ Moved(c) = Posted \ Moved(c)
  /\ c.closing = SignedBalance(c.category, Cardinality(Debited(c, E)), Cardinality(Credited(c, E)))

LedgerCallsOK ==
  \A u \in Users : call[u].op = "ledger" =>
    /\ call[u].from <= call[u].to /\ call[u].upto <= Cardinality(journal)
    /\ \E E : HasRead(call[u], E)
LedgerInv == GlInv /\ LedgerCallsOK

LEMMA CountsOf ==
  ASSUME GlRowsOK, NEW E \in SUBSET journal
  PROVE  /\ IsFiniteSet(E) /\ Cardinality(E) \in Nat
         /\ \A c : /\ IsFiniteSet(Debited(c, E)) /\ IsFiniteSet(Credited(c, E))
                   /\ Cardinality(Debited(c, E)) \in Nat /\ Cardinality(Credited(c, E)) \in Nat
  <1>1. IsFiniteSet(E)  BY FS_Subset DEF GlRowsOK
  <1>2. \A c : IsFiniteSet(Debited(c, E)) /\ IsFiniteSet(Credited(c, E))
    BY <1>1, FS_Subset DEF Debited, Credited
  <1> QED  BY <1>1, <1>2, FS_CardinalityType

LEMMA CountSplit ==
  ASSUME NEW K, NEW L, IsFiniteSet(K), IsFiniteSet(L), K \cap L = {}
  PROVE  Cardinality(K \cup L) = Cardinality(K) + Cardinality(L)
  <1>1. Cardinality(K \cup L) = Cardinality(K) + Cardinality(L) - Cardinality(K \cap L)
    BY FS_Union
  <1>2. Cardinality(K \cap L) = 0
    <2>1. Cardinality({}) = 0  BY FS_EmptySet
    <2> QED  BY <2>1
  <1>3. Cardinality(K) \in Nat /\ Cardinality(L) \in Nat  BY FS_CardinalityType
  <1> QED  BY <1>1, <1>2, <1>3

(* A part is read: N says which of the entries it reads.                   *)
LEMMA PartRead ==
  ASSUME GlRowsOK, NEW c, NEW d, NEW E, HasRead(c, E), NEW N,
         d.upto = c.upto, d.category = c.category,
         NEW X, NEW Y, X \in SUBSET journal, Y \in SUBSET journal,
         Debited(d, (E \ N) \cup (Posted \cap N)) = Debited(c, E) \cup X, Debited(c, E) \cap X = {},
         Credited(d, (E \ N) \cup (Posted \cap N)) = Credited(c, E) \cup Y, Credited(c, E) \cap Y = {},
         d.closing = c.closing + SignedBalance(c.category, Cardinality(X), Cardinality(Y))
  PROVE  HasRead(d, (E \ N) \cup (Posted \cap N))
  <1> DEFINE F == (E \ N) \cup (Posted \cap N)
  <1>1. /\ E \in SUBSET journal /\ E \ Moved(c) = Posted \ Moved(c)
        /\ c.closing = SignedBalance(c.category, Cardinality(Debited(c, E)), Cardinality(Credited(c, E)))
    BY DEF HasRead
  <1>2. Moved(d) = Moved(c)  BY DEF Moved
  <1>3. F \in SUBSET journal /\ F \ Moved(d) = Posted \ Moved(d)
    <2>1. Posted \subseteq journal  BY DEF Posted
    <2>2. PICK M, P : M = Moved(c) /\ P = Posted  OBVIOUS
    <2> QED  BY <1>1, <1>2, <2>1, <2>2
  <1>4. /\ IsFiniteSet(X) /\ IsFiniteSet(Y) /\ Cardinality(X) \in Nat /\ Cardinality(Y) \in Nat
        /\ IsFiniteSet(Debited(c, E)) /\ IsFiniteSet(Credited(c, E))
        /\ Cardinality(Debited(c, E)) \in Nat /\ Cardinality(Credited(c, E)) \in Nat
    BY <1>1, CountsOf
  <1>5. /\ Cardinality(Debited(d, F)) = Cardinality(Debited(c, E)) + Cardinality(X)
        /\ Cardinality(Credited(d, F)) = Cardinality(Credited(c, E)) + Cardinality(Y)
    BY <1>4, CountSplit
  <1>6. PICK x, y, p, q \in Nat :
          x = Cardinality(X) /\ y = Cardinality(Y) /\ p = Cardinality(Debited(c, E))
          /\ q = Cardinality(Credited(c, E))
    BY <1>4
  <1>7. SignedBalance(c.category, p, q) + SignedBalance(c.category, x, y)
          = SignedBalance(c.category, p + x, q + y)
    BY DEF SignedBalance
  <1>8. d.closing = SignedBalance(d.category, Cardinality(Debited(d, F)), Cardinality(Credited(d, F)))
    BY <1>1, <1>5, <1>6, <1>7
  <1> QED  BY <1>3, <1>8 DEF HasRead

(* The three of them. *)
LEMMA LedgerReads ==
  ASSUME GlRowsOK, NEW c \in GlCall, c.op = "ledger", NEW E, HasRead(c, E), NEW part \in c.left,
         part # "lines" => "lines" \notin c.left, NEW sum,
         sum = CASE part = "lines" -> SignedBalance(c.category, Debits(c.doc, c.from..c.to),
                                                               Credits(c.doc, c.from..c.to))
                 [] part = "debit" -> SignedBalance(c.category, Debits(c.doc, Opening(c.from)), 0)
                 [] part = "credit" -> SignedBalance(c.category, 0, Credits(c.doc, Opening(c.from)))
  PROVE  \E F : HasRead([c EXCEPT !.left = @ \ {part}, !.closing = @ + sum], F)
  <1> DEFINE d == [c EXCEPT !.left = @ \ {part}, !.closing = @ + sum]
  <1>1. /\ c.left \in SUBSET {"lines", "debit", "credit"} /\ c.closing \in Int
        /\ c.from \in Int /\ c.to \in Int /\ c.doc \in Accounts
    BY GlCallIs DEF Dates
  <1>2. /\ d.doc = c.doc /\ d.category = c.category /\ d.from = c.from /\ d.to = c.to
        /\ d.left = c.left \ {part} /\ d.closing = c.closing + sum /\ d.upto = c.upto
    BY DEF GlCall
  <1> HIDE DEF d
  <1>3. \A e \in journal : e.on \in Int /\ e.debit # e.credit  BY DEF GlRowsOK, JournalRow, Dates
  <1>4. /\ E \in SUBSET journal /\ Posted \in SUBSET journal  BY DEF HasRead, Posted
  <1>5. \A date \in Int : ~(date \in c.from..c.to /\ date \in Opening(c.from))
    BY <1>1 DEF Opening
  <1>6. Cardinality({}) = 0 /\ {} \in SUBSET journal  BY FS_EmptySet
  <1>7. CASE part = "lines"
    <2> DEFINE N == {e \in journal : e.on \in c.from..c.to}
               X == {e \in Posted : e.debit = c.doc /\ e.on \in c.from..c.to}
               Y == {e \in Posted : e.credit = c.doc /\ e.on \in c.from..c.to}
               F == (E \ N) \cup (Posted \cap N)
    <2>1. d.closing = c.closing + SignedBalance(c.category, Cardinality(X), Cardinality(Y))
      BY <1>2, <1>7 DEF Debits, Credits
    <2>2. \A e \in journal :
            /\ IsRead(d, e, "debit") <=> e.on \in c.from..c.to \/ IsRead(c, e, "debit")
            /\ IsRead(d, e, "credit") <=> e.on \in c.from..c.to \/ IsRead(c, e, "credit")
            /\ e.on \in c.from..c.to => ~IsRead(c, e, "debit") /\ ~IsRead(c, e, "credit")
      BY <1>2, <1>3, <1>5, <1>7 DEF IsRead
    <2>3. Debited(d, F) = Debited(c, E) \cup X /\ Debited(c, E) \cap X = {}
      BY <1>2, <1>4, <2>2 DEF Debited
    <2>4. Credited(d, F) = Credited(c, E) \cup Y /\ Credited(c, E) \cap Y = {}
      BY <1>2, <1>4, <2>2 DEF Credited
    <2>5. X \in SUBSET journal /\ Y \in SUBSET journal  BY <1>4
    <2> HIDE DEF N, X, Y
    <2>6. HasRead(d, F)  BY <1>2, <2>1, <2>3, <2>4, <2>5, PartRead
    <2> QED  BY <2>6 DEF d
  <1>8. CASE part = "debit"
    <2> DEFINE N == {e \in journal : e.debit = c.doc /\ e.on \in Opening(c.from)}
               X == {e \in Posted : e.debit = c.doc /\ e.on \in Opening(c.from)}
               F == (E \ N) \cup (Posted \cap N)
    <2>1. d.closing = c.closing + SignedBalance(c.category, Cardinality(X), Cardinality({}))
      BY <1>2, <1>6, <1>8 DEF Debits
    <2>2. \A e \in journal :
            /\ IsRead(d, e, "debit") <=> e.on \in Opening(c.from) \/ IsRead(c, e, "debit")
            /\ IsRead(d, e, "credit") <=> IsRead(c, e, "credit")
            /\ e.on \in Opening(c.from) => ~IsRead(c, e, "debit")
      BY <1>2, <1>3, <1>5, <1>8 DEF IsRead
    <2>3. Debited(d, F) = Debited(c, E) \cup X /\ Debited(c, E) \cap X = {}
      BY <1>2, <1>4, <2>2 DEF Debited
    <2>4. Credited(d, F) = Credited(c, E) \cup {} /\ Credited(c, E) \cap {} = {}
      BY <1>2, <1>3, <1>4, <2>2 DEF Credited
    <2>5. X \in SUBSET journal  BY <1>4
    <2> HIDE DEF N, X
    <2>6. HasRead(d, F)  BY <1>2, <1>6, <2>1, <2>3, <2>4, <2>5, PartRead
    <2> QED  BY <2>6 DEF d
  <1>9. CASE part = "credit"
    <2> DEFINE N == {e \in journal : e.credit = c.doc /\ e.on \in Opening(c.from)}
               Y == {e \in Posted : e.credit = c.doc /\ e.on \in Opening(c.from)}
               F == (E \ N) \cup (Posted \cap N)
    <2>1. d.closing = c.closing + SignedBalance(c.category, Cardinality({}), Cardinality(Y))
      BY <1>2, <1>6, <1>9 DEF Credits
    <2>2. \A e \in journal :
            /\ IsRead(d, e, "credit") <=> e.on \in Opening(c.from) \/ IsRead(c, e, "credit")
            /\ IsRead(d, e, "debit") <=> IsRead(c, e, "debit")
            /\ e.on \in Opening(c.from) => ~IsRead(c, e, "credit")
      BY <1>2, <1>3, <1>5, <1>9 DEF IsRead
    <2>3. Credited(d, F) = Credited(c, E) \cup Y /\ Credited(c, E) \cap Y = {}
      BY <1>2, <1>4, <2>2 DEF Credited
    <2>4. Debited(d, F) = Debited(c, E) \cup {} /\ Debited(c, E) \cap {} = {}
      BY <1>2, <1>3, <1>4, <2>2 DEF Debited
    <2>5. Y \in SUBSET journal  BY <1>4
    <2> HIDE DEF N, Y
    <2>6. HasRead(d, F)  BY <1>2, <1>6, <2>1, <2>3, <2>4, <2>5, PartRead
    <2> QED  BY <2>6 DEF d
  <1> QED  BY <1>1, <1>7, <1>8, <1>9

(* An entry that is posted or reversed has moved, and one that was read    *)
(* and is reversed counts, marked, for as much as it did.                  *)
LEMMA ReadStays ==
  ASSUME GlRowsOK, NEW c \in GlCall, c.op = "ledger", c.upto <= Cardinality(journal), NEW E, HasRead(c, E),
         \/ \E d, k \in Accounts, date \in Dates : d # k /\ PostEntry(d, k, date)
         \/ \E e \in journal, date \in Dates : ReverseEntry(e, date)
  PROVE  /\ \E F : HasRead(c, F)'
         /\ c.upto <= Cardinality(journal')
  <1>1. /\ Cardinality(journal) \in Nat /\ NextId = Cardinality(journal) + 1
        /\ \A e \in journal : e \in JournalRow /\ e.id # NextId /\ e.reversedBy # NextId
    BY NextIdIs
  <1>2. c.upto \in Int /\ NextId > c.upto /\ NextId # 0  BY <1>1, GlCallIs
  <1>3. E \in SUBSET journal /\ E \ Moved(c) = Posted \ Moved(c)  BY DEF HasRead
  <1>4. \A e : e.id = NextId \/ e.reversedBy = NextId => e.id > c.upto \/ e.reversedBy > c.upto
    BY <1>2
  <1>5. ASSUME NEW kept, NEW added, Grows(kept, added)
        PROVE  /\ kept \in SUBSET journal /\ journal' = kept \cup added
               /\ Moved(c)' = (Moved(c) \cap kept) \cup added
               /\ c.upto <= Cardinality(journal')
    <2>1. /\ kept \in SUBSET journal /\ added \in SUBSET JournalRow /\ journal' = kept \cup added
          /\ Cardinality(journal') = NextId
          /\ \A e \in added : e.id = NextId \/ e.reversedBy = NextId
      BY <1>5 DEF Grows
    <2>2. Moved(c)' = (Moved(c) \cap kept) \cup added
      <3>1. Moved(c)' = {e \in kept \cup added : e.id > c.upto \/ e.reversedBy > c.upto}
        <4>1. Moved(c)' = {e \in journal' : e.id > c.upto \/ e.reversedBy > c.upto}  BY DEF Moved
        <4> QED  BY <2>1, <4>1
      <3>2. \A e \in added : e.id > c.upto \/ e.reversedBy > c.upto
        BY <1>4, <2>1
      <3> QED  BY <2>1, <3>1, <3>2 DEF Moved
    <2>3. c.upto <= Cardinality(journal')  BY <1>1, <1>2, <2>1
    <2> QED  BY <2>1, <2>2, <2>3
  <1>6. ASSUME NEW d \in Accounts, NEW k \in Accounts, d # k, NEW date \in Dates,
               PostEntry(d, k, date)
        PROVE  HasRead(c, E)' /\ c.upto <= Cardinality(journal')
    <2>1. PICK line : line = Line(d, k, date)  OBVIOUS
    <2>2. Grows(journal, {line}) /\ line.reversedBy = 0  BY <1>6, <2>1, PostGrows
    <2>3. journal' = journal \cup {line} /\ Moved(c)' = (Moved(c) \cap journal) \cup {line}
          /\ c.upto <= Cardinality(journal')
      BY <1>5, <2>2
    <2>4. Posted' = Posted \cup {line}  BY <2>2, <2>3 DEF Posted
    <2>5. line \notin E
      <3>1. line \notin journal  BY <1>1, <1>6, <2>1, PostGrows
      <3> QED  BY <1>3, <3>1
    <2>6. E \in SUBSET journal' /\ E \ Moved(c)' = Posted' \ Moved(c)'
      <3>1. Moved(c) \subseteq journal  BY DEF Moved
      <3>2. PICK M, P : M = Moved(c) /\ P = Posted  OBVIOUS
      <3> QED  BY <1>3, <2>3, <2>4, <2>5, <3>1, <3>2
    <2> QED  BY <2>3, <2>6 DEF HasRead
  <1>7. ASSUME NEW e \in journal, NEW date \in Dates, ReverseEntry(e, date)
        PROVE  (\E F : HasRead(c, F)') /\ c.upto <= Cardinality(journal')
    <2>1. PICK line, row : line = Line(e.credit, e.debit, date) /\ row = Marked(e)  OBVIOUS
    <2>2. /\ Grows(journal \ {e}, {row, line}) /\ line.reversedBy = 0 /\ e.reversedBy = 0
          /\ row \notin journal /\ line # row
      BY <1>7, <2>1, ReverseGrows
    <2>3. /\ journal' = (journal \ {e}) \cup {row, line}
          /\ Moved(c)' = (Moved(c) \cap (journal \ {e})) \cup {row, line}
          /\ c.upto <= Cardinality(journal')
      BY <1>5, <2>2
    <2>4. /\ row.reversedBy = NextId /\ row.on = e.on /\ row.debit = e.debit /\ row.credit = e.credit
          /\ line.id = NextId
      <3>1. NextId <= MaxJournal  BY <1>7 DEF ReverseEntry
      <3>2. e.debit \in Accounts /\ e.credit \in Accounts  BY <1>1 DEF JournalRow
      <3> QED  BY <2>1, <3>1, <3>2, MarkedIs, LineIs
    <2>5. Posted' = (Posted \ {e}) \cup {line}  BY <1>2, <2>2, <2>3, <2>4 DEF Posted
    <2>6. line \notin journal  BY <1>1, <2>4
    <2> DEFINE F == IF e \in E THEN (E \ {e}) \cup {row} ELSE E
    <2>7. F \in SUBSET journal' /\ F \ Moved(c)' = Posted' \ Moved(c)'
      <3>1. Moved(c) \subseteq journal  BY DEF Moved
      <3>2. PICK M, P : M = Moved(c) /\ P = Posted  OBVIOUS
      <3>3. e \in P  BY <2>2, <3>2 DEF Posted
      <3> QED  BY <1>3, <2>3, <2>5, <2>6, <2>2, <3>1, <3>2, <3>3
    <2>8. /\ Cardinality(Debited(c, F)) = Cardinality(Debited(c, E))
          /\ Cardinality(Credited(c, F)) = Cardinality(Credited(c, E))
      <3>1. /\ IsFiniteSet(Debited(c, E)) /\ IsFiniteSet(Credited(c, E))
            /\ Cardinality(Debited(c, E)) \in Nat /\ Cardinality(Credited(c, E)) \in Nat
        BY <1>3, CountsOf
      <3>2. /\ IsRead(c, row, "debit") <=> IsRead(c, e, "debit")
            /\ IsRead(c, row, "credit") <=> IsRead(c, e, "credit")
        BY <2>4 DEF IsRead
      <3>3. row \notin E  BY <1>3, <2>2
      <3>4. ASSUME NEW K, NEW L, IsFiniteSet(K), Cardinality(K) \in Nat, row \notin K,
                   L = IF e \in K THEN (K \ {e}) \cup {row} ELSE K
            PROVE  Cardinality(L) = Cardinality(K)
        <4>1. CASE e \in K
          <5>1. IsFiniteSet(K \ {e}) /\ Cardinality(K \ {e}) = Cardinality(K) - 1
            BY <3>4, <4>1, FS_RemoveElement
          <5>2. Cardinality((K \ {e}) \cup {row}) = Cardinality(K \ {e}) + 1
            BY <3>4, <5>1, FS_AddElement
          <5> QED  BY <3>4, <4>1, <5>1, <5>2
        <4> QED  BY <3>4, <4>1
      <3>5. /\ Debited(c, F) = IF e \in Debited(c, E) THEN (Debited(c, E) \ {e}) \cup {row}
                                                      ELSE Debited(c, E)
            /\ row \notin Debited(c, E)
        BY <2>4, <3>2, <3>3 DEF Debited
      <3>6. /\ Credited(c, F) = IF e \in Credited(c, E) THEN (Credited(c, E) \ {e}) \cup {row}
                                                        ELSE Credited(c, E)
            /\ row \notin Credited(c, E)
        BY <2>4, <3>2, <3>3 DEF Credited
      <3> QED  BY <3>1, <3>4, <3>5, <3>6
    <2> HIDE DEF F
    <2>9. HasRead(c, F)'  BY <2>7, <2>8 DEF HasRead
    <2> QED  BY <2>3, <2>9
  <1> QED  BY <1>6, <1>7

LEMMA ReadStill ==
  ASSUME UNCHANGED journal, NEW c, NEW E
  PROVE  HasRead(c, E)' <=> HasRead(c, E)
  <1>1. Moved(c)' = Moved(c) /\ Posted' = Posted  BY DEF Moved, Posted
  <1>2. Debited(c, E)' = Debited(c, E) /\ Credited(c, E)' = Credited(c, E)
    BY DEF Debited, Credited, IsRead
  <1> QED  BY <1>1, <1>2 DEF HasRead

LEMMA LedgerInductive ==
  ASSUME LedgerInv, [GlNext]_glVars
  PROVE  LedgerInv'
  <1>0. /\ GlInv /\ GlInv' /\ GlRowsOK /\ LedgerCallsOK
        /\ call \in [Users -> GlCall \cup {NoCall}]
    BY GlInductive DEF LedgerInv, GlInv
  <1>1. SUFFICES LedgerCallsOK'  BY <1>0 DEF LedgerInv
  (* The journal as it was. *)
  <1>2. ASSUME UNCHANGED journal, NEW u \in Users, call'[u].op = "ledger", call'[u] = call[u]
        PROVE  /\ call'[u].from <= call'[u].to /\ call'[u].upto <= Cardinality(journal')
               /\ \E E : HasRead(call[u], E)'
    <2>1. PICK c : c = call[u]  OBVIOUS
    <2>2. c.from <= c.to /\ c.upto <= Cardinality(journal) /\ \E E : HasRead(c, E)
      BY <1>0, <1>2, <2>1 DEF LedgerCallsOK
    <2>3. PICK E : HasRead(c, E)'  BY <1>2, <2>2, ReadStill
    <2>4. HasRead(call[u], E)'
      BY <1>2, <2>1, <2>3 DEF HasRead, Moved, Posted, Debited, Credited, IsRead
    <2> QED  BY <1>2, <2>1, <2>2, <2>4
  <1>3. ASSUME UNCHANGED journal, NEW u \in Users,
               \A v \in Users \ {u} : call'[v] = call[v], call'[u].op # "ledger"
        PROVE  LedgerCallsOK'
    BY <1>2, <1>3 DEF LedgerCallsOK
  <1>4. ASSUME UNCHANGED <<journal, call>>
        PROVE  LedgerCallsOK'
    BY <1>2, <1>4 DEF LedgerCallsOK
  <1>5. ASSUME NEW u \in Users, NEW a \in Accounts, StartLedger(u, a)
        PROVE  LedgerCallsOK'
    <2>1. PICK from, to \in Dates :
            /\ from <= to
            /\ Enter(u, [op |-> "ledger", doc |-> a, category |-> chart[a].category,
                         from |-> from, to |-> to, left |-> {"lines", "debit", "credit"},
                         closing |-> 0, upto |-> Cardinality(journal)])
      BY <1>5 DEF StartLedger
    <2>2. PICK c : c = [op |-> "ledger", doc |-> a, category |-> chart[a].category,
                        from |-> from, to |-> to, left |-> {"lines", "debit", "credit"},
                        closing |-> 0, upto |-> Cardinality(journal)]
      OBVIOUS
    <2>3. call'[u] = c /\ UNCHANGED journal /\ \A v \in Users \ {u} : call'[v] = call[v]
      BY <1>0, <1>5, <2>1, <2>2 DEF StartLedger, Enter, glTables
    <2>4. HasRead(c, Posted)
      <3>1. \A e \in Posted : ~IsRead(c, e, "debit") /\ ~IsRead(c, e, "credit")  BY <2>2 DEF IsRead
      <3>2. Debited(c, Posted) = {} /\ Credited(c, Posted) = {}  BY <3>1 DEF Debited, Credited
      <3>3. Cardinality({}) = 0  BY FS_EmptySet
      <3>4. Posted \in SUBSET journal  BY DEF Posted
      <3>5. c.closing = SignedBalance(c.category, 0, 0)  BY <2>2 DEF SignedBalance
      <3> QED  BY <3>2, <3>3, <3>4, <3>5 DEF HasRead
    <2>5. PICK E : HasRead(c, E)'  BY <2>3, <2>4, ReadStill
    <2>6. c.from <= c.to /\ c.upto <= Cardinality(journal')
      <3>1. Cardinality(journal) \in Nat  BY <1>0, NextIdIs
      <3> QED  BY <2>1, <2>2, <2>3, <3>1
    <2> QED  BY <1>2, <2>3, <2>5, <2>6 DEF LedgerCallsOK
  <1>6. ASSUME NEW u \in Users, NEW part \in {"lines", "debit", "credit"}, ReadLedger(u, part)
        PROVE  LedgerCallsOK'
    <2>1. PICK c \in GlCall : c = call[u] /\ c.op = "ledger"
      BY <1>0, <1>6 DEF ReadLedger, NoCall
    <2>2. PICK E : HasRead(c, E)  BY <1>0, <2>1 DEF LedgerCallsOK
    <2>3. c.from <= c.to /\ c.upto <= Cardinality(journal)  BY <1>0, <2>1 DEF LedgerCallsOK
    <2>4. PICK sum :
            sum = CASE part = "lines" -> SignedBalance(c.category, Debits(c.doc, c.from..c.to),
                                                                   Credits(c.doc, c.from..c.to))
                    [] part = "debit" -> SignedBalance(c.category, Debits(c.doc, Opening(c.from)), 0)
                    [] part = "credit" -> SignedBalance(c.category, 0, Credits(c.doc, Opening(c.from)))
      OBVIOUS
    <2>5. /\ part \in c.left /\ (part # "lines" => "lines" \notin c.left)
          /\ Proceed(u, [c EXCEPT !.left = @ \ {part}, !.closing = @ + sum])
          /\ UNCHANGED glTables
      BY <1>6, <2>1, <2>4 DEF ReadLedger
    <2>6. PICK d : d = [c EXCEPT !.left = @ \ {part}, !.closing = @ + sum]  OBVIOUS
    <2>7. PICK F : HasRead(d, F)  BY <1>0, <2>1, <2>2, <2>4, <2>5, <2>6, LedgerReads
    <2>8. call'[u] = d /\ UNCHANGED journal /\ \A v \in Users \ {u} : call'[v] = call[v]
      BY <1>0, <2>5, <2>6 DEF Proceed, glTables
    <2>9. d.from <= d.to /\ d.upto <= Cardinality(journal')
      BY <2>1, <2>3, <2>6, <2>8 DEF GlCall
    <2>10. HasRead(d, F)'
      BY <2>7, <2>8, ReadStill
    <2> QED  BY <1>2, <2>8, <2>9, <2>10 DEF LedgerCallsOK
  <1>7. ASSUME UNCHANGED call,
               \/ \E d, k \in Accounts, date \in Dates : d # k /\ PostEntry(d, k, date)
               \/ \E e \in journal, date \in Dates : ReverseEntry(e, date)
        PROVE  LedgerCallsOK'
    <2>1. SUFFICES ASSUME NEW u \in Users, call[u].op = "ledger"
                   PROVE  /\ call[u].from <= call[u].to /\ call[u].upto <= Cardinality(journal')
                          /\ (\E E : HasRead(call[u], E))'
      BY <1>7 DEF LedgerCallsOK
    <2>2. PICK c \in GlCall : c = call[u] /\ c.op = "ledger"
      BY <1>0, <2>1 DEF NoCall
    <2>3. c.from <= c.to /\ c.upto <= Cardinality(journal)  BY <1>0, <2>2 DEF LedgerCallsOK
    <2>4. PICK E : HasRead(c, E)  BY <1>0, <2>2 DEF LedgerCallsOK
    <2>5. (\E F : HasRead(c, F)') /\ c.upto <= Cardinality(journal')
      BY Zenon, <1>0, <1>7, <2>2, <2>3, <2>4, ReadStays
    <2>6. PICK F : HasRead(c, F)'  BY <2>5
    <2>7. HasRead(call[u], F)'
      BY <1>7, <2>2, <2>6 DEF HasRead, Moved, Posted, Debited, Credited, IsRead
    <2> QED  BY <2>2, <2>3, <2>5, <2>7
  <1>8. ASSUME NEW u \in Users, NEW c, c.op # "ledger", call' = [call EXCEPT ![u] = c],
               UNCHANGED journal
        PROVE  LedgerCallsOK'
    BY <1>0, <1>3, <1>8
  <1>9. ASSUME NEW u \in Users,
               StartSheet(u) \/ SumSheet(u) \/ ListEarning(u) \/ SumIncome(u)
        PROVE  LedgerCallsOK'
    <2>1. PICK c : c.op # "ledger" /\ call' = [call EXCEPT ![u] = c]
      <3>1. CASE StartSheet(u)  BY <3>1 DEF StartSheet, Enter
      <3>2. ASSUME SumSheet(u) \/ ListEarning(u) \/ SumIncome(u)
            PROVE  \E c : c.op # "ledger" /\ call' = [call EXCEPT ![u] = c]
        <4>1. PICK c \in GlCall : c = call[u] /\ c.op \in {"sheet", "sheetSummed", "income"}
          BY <1>0, <3>2 DEF SumSheet, ListEarning, SumIncome, NoCall
        <4>2. \A x, y : /\ [c EXCEPT !.op = "sheetSummed", !.out = x].op = "sheetSummed"
                        /\ [c EXCEPT !.op = "income", !.earning = y].op = "income"
                        /\ [c EXCEPT !.op = "sheetDone", !.out = x].op = "sheetDone"
          BY <4>1 DEF GlCall
        <4>3. \/ \E x : call' = [call EXCEPT ![u] = [c EXCEPT !.op = "sheetSummed", !.out = x]]
              \/ \E y : call' = [call EXCEPT ![u] = [c EXCEPT !.op = "income", !.earning = y]]
              \/ \E x : call' = [call EXCEPT ![u] = [c EXCEPT !.op = "sheetDone", !.out = x]]
          BY <3>2, <4>1 DEF SumSheet, ListEarning, SumIncome, Proceed
        <4> QED  BY <4>2, <4>3
      <3> QED  BY <1>9, <3>1, <3>2
    <2>2. UNCHANGED journal  BY <1>9 DEF StartSheet, SumSheet, ListEarning, SumIncome, glTables
    <2> QED  BY <1>8, <2>1, <2>2
  <1>10. ASSUME NEW u \in Users, \/ \E a \in Accounts, c \in Categories : StartUpdate(u, a, c)
                                 \/ FinishUpdate(u) \/ GlEnds(u)
         PROVE  LedgerCallsOK'
    <2>1. PICK c : c.op # "ledger" /\ call' = [call EXCEPT ![u] = c]
      BY <1>10 DEF StartUpdate, FinishUpdate, GlEnds, Enter, Leave, Fails, NoCall
    <2>2. UNCHANGED journal  BY <1>10 DEF StartUpdate, FinishUpdate, GlEnds, glTables
    <2> QED  BY <1>8, <2>1, <2>2
  <1>11. ASSUME NEW a \in Accounts, \/ \E c \in Categories : CreateAccount(a, c)
                                    \/ \E b \in BOOLEAN : SetActive(a, b)
         PROVE  LedgerCallsOK'
    BY <1>4, <1>11 DEF CreateAccount, SetActive
  <1>12. CASE UNCHANGED glVars
    BY <1>4, <1>12 DEF glVars, glTables
  <1>13. CASE GlNext
    <2>1. ASSUME NEW date \in Dates, \/ \E d, c \in Accounts : d # c /\ PostEntry(d, c, date)
                                     \/ \E e \in journal : ReverseEntry(e, date)
          PROVE  LedgerCallsOK'
      <3>1. UNCHANGED call  BY <2>1 DEF PostEntry, ReverseEntry
      <3> QED  BY Zenon, <1>7, <2>1, <3>1
    <2> QED
      BY Zenon, <1>5, <1>6, <1>9, <1>10, <1>11, <1>13, <2>1 DEF GlNext
  <1> QED  BY <1>12, <1>13

(* A ledger that has read all its parts is off by at most the entries      *)
(* that have moved.                                                        *)
LEMMA LedgerRead ==
  ASSUME GlRowsOK, NEW c \in GlCall, c.op = "ledger", c.left = {}, c.from <= c.to, NEW E, HasRead(c, E)
  PROVE  Within(Cardinality(Moved(c)),
                c.closing - SignedBalance(c.category, Debits(c.doc, 1..c.to), Credits(c.doc, 1..c.to)))
  <1>1. c.from \in Int /\ c.to \in Int /\ 1 <= c.from  BY GlCallIs DEF Dates
  <1>2. PICK M, P : M = Moved(c) /\ P = Posted
    OBVIOUS
  <1>3. /\ E \in SUBSET journal /\ P \in SUBSET journal /\ M \in SUBSET journal /\ E \ M = P \ M
    BY <1>2 DEF HasRead, Posted, Moved
  <1>4. \A e \in journal : e.on \in Int /\ 1 <= e.on /\ e.debit # e.credit
    BY DEF GlRowsOK, JournalRow, Dates
  <1>5. Debits(c.doc, 1..c.to) = Cardinality(Debited(c, P))
        /\ Credits(c.doc, 1..c.to) = Cardinality(Credited(c, P))
    <2>1. \A e \in journal : /\ IsRead(c, e, "debit") <=> e.on \in 1..c.to
                             /\ IsRead(c, e, "credit") <=> e.on \in 1..c.to
      BY <1>1, <1>4 DEF IsRead, Opening
    <2>2. /\ Debited(c, P) = {e \in Posted : e.debit = c.doc /\ e.on \in 1..c.to}
          /\ Credited(c, P) = {e \in Posted : e.credit = c.doc /\ e.on \in 1..c.to}
      BY <1>2, <1>3, <2>1 DEF Debited, Credited
    <2> QED  BY <2>2 DEF Debits, Credits
  (* Those that have not moved count for the same. *)
  <1>6. /\ Debited(c, E \ M) = Debited(c, P \ M) /\ Credited(c, E \ M) = Credited(c, P \ M)
    BY <1>3
  <1>7. ASSUME NEW G \in SUBSET journal
        PROVE  /\ Cardinality(Debited(c, G)) = Cardinality(Debited(c, G \ M)) + Cardinality(Debited(c, G \cap M))
               /\ Cardinality(Credited(c, G))
                    = Cardinality(Credited(c, G \ M)) + Cardinality(Credited(c, G \cap M))
    <2>1. G \ M \in SUBSET journal /\ G \cap M \in SUBSET journal  BY <1>7
    <2>2. /\ Debited(c, G) = Debited(c, G \ M) \cup Debited(c, G \cap M)
          /\ Debited(c, G \ M) \cap Debited(c, G \cap M) = {}
          /\ Credited(c, G) = Credited(c, G \ M) \cup Credited(c, G \cap M)
          /\ Credited(c, G \ M) \cap Credited(c, G \cap M) = {}
      BY DEF Debited, Credited
    <2>3. /\ IsFiniteSet(Debited(c, G \ M)) /\ IsFiniteSet(Debited(c, G \cap M))
          /\ IsFiniteSet(Credited(c, G \ M)) /\ IsFiniteSet(Credited(c, G \cap M))
      BY <2>1, CountsOf
    <2> QED  BY <2>2, <2>3, CountSplit
  (* Of those that have, none is a debit and a credit of the account. *)
  <1>8. ASSUME NEW G \in SUBSET M, NEW H \in SUBSET M
        PROVE  /\ Cardinality(Debited(c, G)) + Cardinality(Credited(c, H)) <= Cardinality(M)
               /\ Cardinality(Debited(c, G)) \in Nat /\ Cardinality(Credited(c, H)) \in Nat
               /\ Cardinality(M) \in Nat
    <2>1. G \in SUBSET journal /\ H \in SUBSET journal  BY <1>3
    <2>2. /\ IsFiniteSet(M) /\ Cardinality(M) \in Nat
          /\ IsFiniteSet(Debited(c, G)) /\ IsFiniteSet(Credited(c, H))
          /\ Cardinality(Debited(c, G)) \in Nat /\ Cardinality(Credited(c, H)) \in Nat
      BY <1>3, <2>1, CountsOf
    <2>3. Debited(c, G) \cap Credited(c, H) = {} /\ Debited(c, G) \cup Credited(c, H) \in SUBSET M
      BY <1>4, <2>1 DEF Debited, Credited
    <2>4. Cardinality(Debited(c, G) \cup Credited(c, H)) <= Cardinality(M)
      BY <2>2, <2>3, FS_Subset
    <2> QED  BY <2>2, <2>3, <2>4, CountSplit
  <1>9. PICK d, k, de, ke, dp, kp, m \in Nat :
          /\ d = Cardinality(Debited(c, E \ M)) /\ k = Cardinality(Credited(c, E \ M))
          /\ de = Cardinality(Debited(c, E \cap M)) /\ ke = Cardinality(Credited(c, E \cap M))
          /\ dp = Cardinality(Debited(c, P \cap M)) /\ kp = Cardinality(Credited(c, P \cap M))
          /\ m = Cardinality(M) /\ de + kp <= m /\ dp + ke <= m
    <2>1. E \cap M \in SUBSET M /\ P \cap M \in SUBSET M /\ E \ M \in SUBSET journal  BY <1>3
    <2>2. Cardinality(Debited(c, E \ M)) \in Nat /\ Cardinality(Credited(c, E \ M)) \in Nat
      BY <2>1, CountsOf
    <2>3. /\ Cardinality(Debited(c, E \cap M)) + Cardinality(Credited(c, P \cap M)) <= Cardinality(M)
          /\ Cardinality(Debited(c, P \cap M)) + Cardinality(Credited(c, E \cap M)) <= Cardinality(M)
          /\ Cardinality(Debited(c, E \cap M)) \in Nat /\ Cardinality(Credited(c, P \cap M)) \in Nat
          /\ Cardinality(Debited(c, P \cap M)) \in Nat /\ Cardinality(Credited(c, E \cap M)) \in Nat
          /\ Cardinality(M) \in Nat
      BY <1>8, <2>1
    <2> QED  BY <2>2, <2>3
  <1>10. c.closing = SignedBalance(c.category, d + de, k + ke)
    BY <1>3, <1>7, <1>9 DEF HasRead
  <1>11. SignedBalance(c.category, Debits(c.doc, 1..c.to), Credits(c.doc, 1..c.to))
           = SignedBalance(c.category, d + dp, k + kp)
    BY <1>3, <1>5, <1>6, <1>7, <1>9
  <1>12. SignedBalance(c.category, d + de, k + ke) - SignedBalance(c.category, d + dp, k + kp)
           \in -m..m
    BY <1>9 DEF SignedBalance
  <1> QED  BY <1>2, <1>9, <1>10, <1>11, <1>12 DEF Within

(* An account's ledger over any span closes at the balance of its last     *)
(* day, give or take the entries posted and reversed while it was read.    *)
THEOREM LedgersCloseByMovement == GlSpec => []LedgerOutByMovement
  <1>1. GlInit => LedgerInv
    <2>1. \A u \in Users : GlInit => call[u].op # "ledger"  BY DEF GlInit, CallsInit, NoCall
    <2> QED  BY <2>1, GlStart DEF LedgerInv, LedgerCallsOK
  <1>2. LedgerInv /\ [GlNext]_glVars => LedgerInv'  BY LedgerInductive
  <1>3. LedgerInv => LedgerOutByMovement
    <2>1. SUFFICES ASSUME LedgerInv, NEW u \in Users, call[u].op = "ledger", call[u].left = {}
                   PROVE  Within(Cardinality(Moved(call[u])),
                                 call[u].closing
                                   - SignedBalance(call[u].category, Debits(call[u].doc, 1..call[u].to),
                                                                     Credits(call[u].doc, 1..call[u].to)))
      BY DEF LedgerOutByMovement
    <2>2. PICK c \in GlCall : c = call[u] /\ c.op = "ledger" /\ c.left = {}
      BY <2>1 DEF LedgerInv, GlInv, NoCall
    <2>3. GlRowsOK /\ c.from <= c.to /\ \E E : HasRead(c, E)
      BY <2>1, <2>2 DEF LedgerInv, GlInv, LedgerCallsOK
    <2>4. PICK E : HasRead(c, E)  BY <2>3
    <2> QED  BY <2>2, <2>3, <2>4, LedgerRead
  <1> QED  BY <1>1, <1>2, <1>3, PTL DEF GlSpec

-----------------------------------------------------------------------------
(* The budgets of a year.                                                  *)

BudgetsInv == BudgetsTypeOK /\ OneActivePerYear

LEMMA BudgetRowsWritten ==
  ASSUME NEW row \in Budget, NEW n \in 0..MaxEdits
  PROVE  /\ [row EXCEPT !.lines = n] \in Budget /\ [row EXCEPT !.lines = n].status = row.status
         /\ [row EXCEPT !.status = "closed"] \in Budget
         /\ [row EXCEPT !.status = "closed"].status = "closed"
         /\ [row EXCEPT !.status = "active"] \in Budget
         /\ [row EXCEPT !.status = "active"].status = "active"
  <1>1. [row EXCEPT !.lines = n] \in Budget  BY DEF Budget
  <1>2. [row EXCEPT !.lines = n].status = row.status  BY DEF Budget
  <1>3. [row EXCEPT !.status = "closed"] \in Budget  BY DEF Budget, BudgetStatus
  <1>4. [row EXCEPT !.status = "closed"].status = "closed"  BY DEF Budget
  <1>5. [row EXCEPT !.status = "active"] \in Budget  BY DEF Budget, BudgetStatus
  <1>6. [row EXCEPT !.status = "active"].status = "active"  BY DEF Budget
  <1> QED  BY <1>1, <1>2, <1>3, <1>4, <1>5, <1>6

LEMMA BudgetCallIs ==
  ASSUME NEW c \in BudgetCall \cup {NoCall}, c.op # "idle"
  PROVE  c.doc \in BudgetIds /\ c.read \in BudgetStatus
  BY DEF BudgetCall, NoCall

LEMMA BudgetsInductive ==
  ASSUME BudgetsInv, [BudgetsNext]_budgetsVars
  PROVE  BudgetsInv'
  <1> USE BudgetsAssumption DEF BudgetsAssumption
  <1>0. /\ \A u \in Users : call[u] \in BudgetCall \cup {NoCall}
        /\ \A b \in BudgetIds : budget[b] \in Budget
    BY DEF BudgetsInv, BudgetsTypeOK
  <1>1. ASSUME NEW b \in BudgetIds, NEW row \in Budget, budget' = [budget EXCEPT ![b] = row],
               row.status = "active" => budget[b].status = "active",
               \/ UNCHANGED call
               \/ \E u \in Users : call' = [call EXCEPT ![u] = NoCall]
        PROVE  BudgetsInv'
    <2>1. BudgetsTypeOK'  BY <1>1 DEF BudgetsInv, BudgetsTypeOK
    <2>2. \A o \in BudgetIds : budget'[o].status = "active" => budget[o].status = "active"
      BY <1>1 DEF BudgetsInv, BudgetsTypeOK
    <2> QED  BY <2>1, <2>2 DEF BudgetsInv, OneActivePerYear
  <1>2. ASSUME NEW b \in BudgetIds, NEW n \in {0, 1}, CreateBudget(b, n)
        PROVE  BudgetsInv'
    <2> DEFINE row == [status |-> "draft", lines |-> n]
    <2>1. row \in Budget /\ row.status = "draft"  BY DEF Budget, BudgetStatus
    <2>2. budget' = [budget EXCEPT ![b] = row] /\ UNCHANGED call  BY <1>2 DEF CreateBudget
    <2> HIDE DEF row
    <2> QED  BY <1>1, <2>1, <2>2
  <1>3. ASSUME NEW u \in Users, NEW c \in BudgetCall \cup {NoCall}, call' = [call EXCEPT ![u] = c],
               UNCHANGED budgetsTables
        PROVE  BudgetsInv'
    BY <1>3 DEF budgetsTables, BudgetsInv, BudgetsTypeOK, OneActivePerYear
  <1>4. ASSUME NEW u \in Users, NEW b \in BudgetIds, NEW op \in BudgetOps, StartBudgetStep(u, b, op)
        PROVE  BudgetsInv'
    <2> DEFINE c == [op |-> op, doc |-> b, read |-> budget[b].status]
    <2>1. c \in BudgetCall  BY <1>0 DEF BudgetCall, Budget
    <2>2. call' = [call EXCEPT ![u] = c] /\ UNCHANGED budgetsTables
      BY <1>4 DEF StartBudgetStep, Enter
    <2> HIDE DEF c
    <2> QED  BY <1>3, <2>1, <2>2
  <1>5. ASSUME NEW u \in Users, FinishUpdateBudget(u)
        PROVE  BudgetsInv'
    <2> DEFINE b == call[u].doc
    <2>1. call[u].op # "idle" /\ b \in BudgetIds
      BY <1>5, <1>0, BudgetCallIs DEF FinishUpdateBudget
    <2>2. PICK n \in 0..MaxEdits : budget' = [budget EXCEPT ![b].lines = n]
      <3>1. PICK k \in 0..MaxEdits : k = budget[b].lines  BY <1>0, <2>1 DEF Budget
      <3>2. \/ k < MaxEdits /\ budget' = [budget EXCEPT ![b].lines = k + 1]
            \/ budget' = [budget EXCEPT ![b].lines = 0]
        BY <1>5, <3>1 DEF FinishUpdateBudget
      <3>3. 0 \in 0..MaxEdits /\ (k < MaxEdits => k + 1 \in 0..MaxEdits)
        BY BudgetsAssumption DEF BudgetsAssumption
      <3> HIDE DEF b
      <3> QED  BY <3>2, <3>3, Zenon
    <2> DEFINE row == [budget[b] EXCEPT !.lines = n]
    <2>3. row \in Budget /\ row.status = budget[b].status
      BY <1>0, <2>1, BudgetRowsWritten
    <2>4. budget' = [budget EXCEPT ![b] = row] /\ call' = [call EXCEPT ![u] = NoCall]
      BY <1>5, <2>2 DEF FinishUpdateBudget, Leave
    <2> HIDE DEF row, b
    <2> QED  BY <1>1, <2>1, <2>3, <2>4
  <1>6. ASSUME NEW u \in Users, FinishCloseBudget(u)
        PROVE  BudgetsInv'
    <2> DEFINE b == call[u].doc
    <2>1. b \in BudgetIds
      BY <1>6, <1>0, BudgetCallIs DEF FinishCloseBudget
    <2> DEFINE row == [budget[b] EXCEPT !.status = "closed"]
    <2>2. budget[b] \in Budget /\ 0 \in 0..MaxEdits  BY <1>0, <2>1
    <2>3. row \in Budget /\ row.status = "closed"
      BY <2>2, BudgetRowsWritten, Zenon
    <2>4. budget' = [budget EXCEPT ![b] = row] /\ call' = [call EXCEPT ![u] = NoCall]
      BY <1>6 DEF FinishCloseBudget, Leave
    <2> HIDE DEF row, b
    <2> QED  BY <1>1, <2>1, <2>3, <2>4
  <1>7. ASSUME NEW u \in Users, FindActive(u)
        PROVE  BudgetsInv'
    <2> DEFINE c == [op |-> "activating", doc |-> call[u].doc, read |-> call[u].read,
                     others |-> ActiveOthers(call[u].doc)]
    <2>1. call[u].doc \in BudgetIds /\ call[u].read \in BudgetStatus
          /\ ActiveOthers(call[u].doc) \in SUBSET BudgetIds
      BY <1>7, <1>0, BudgetCallIs DEF FindActive, ActiveOthers
    <2>2. c \in BudgetCall  BY <2>1 DEF BudgetCall
    <2>3. call' = [call EXCEPT ![u] = c] /\ UNCHANGED budgetsTables
      BY <1>7 DEF FindActive, Proceed
    <2> HIDE DEF c
    <2> QED  BY <1>3, <2>2, <2>3
  <1>8. ASSUME NEW u \in Users, FinishActivate(u)
        PROVE  BudgetsInv'
    <2> DEFINE d == call[u].doc  others == call[u].others
    <2>1. d \in BudgetIds
      BY <1>8, <1>0, BudgetCallIs DEF FinishActivate
    <2>2. /\ ActiveOthers(d) \subseteq others
          /\ budget' = [b \in BudgetIds |-> IF b = d THEN [budget[b] EXCEPT !.status = "active"]
                                            ELSE IF b \in others THEN [budget[b] EXCEPT !.status = "closed"]
                                            ELSE budget[b]]
          /\ call' = [call EXCEPT ![u] = NoCall]
      BY <1>8 DEF FinishActivate, Leave
    <2> HIDE DEF d, others
    <2>3. \A b \in BudgetIds : /\ budget'[b] \in Budget
                               /\ budget'[b].status = "active" => b = d
      <3> SUFFICES ASSUME NEW b \in BudgetIds
                   PROVE  budget'[b] \in Budget /\ (budget'[b].status = "active" => b = d)
        OBVIOUS
      <3>1. budget[b] \in Budget /\ 0 \in 0..MaxEdits  BY <1>0
      <3>2. CASE b = d
        <4>1. budget'[b] = [budget[b] EXCEPT !.status = "active"]  BY <2>2, <3>2
        <4> QED  BY <3>1, <3>2, <4>1, BudgetRowsWritten, Zenon
      <3>3. CASE b # d /\ b \in others
        <4>1. budget'[b] = [budget[b] EXCEPT !.status = "closed"]  BY <2>2, <3>3
        <4>2. budget'[b] \in Budget /\ budget'[b].status = "closed"
          BY <3>1, <4>1, BudgetRowsWritten, Zenon
        <4> QED  BY <4>2
      <3>4. CASE b # d /\ b \notin others
        <4>1. budget'[b] = budget[b] /\ budget[b].status # "active"
          BY <2>2, <3>4 DEF ActiveOthers
        <4> QED  BY <3>1, <4>1
      <3> QED  BY <3>2, <3>3, <3>4
    <2>4. BudgetsTypeOK'  BY <2>2, <2>3 DEF BudgetsInv, BudgetsTypeOK
    <2> QED  BY <2>3, <2>4 DEF BudgetsInv, OneActivePerYear
  <1>9. ASSUME NEW u \in Users, BudgetFails(u)
        PROVE  BudgetsInv'
    BY <1>3, <1>9 DEF BudgetFails, Fails, Leave
  <1>10. CASE UNCHANGED budgetsVars
    BY <1>10 DEF budgetsVars, budgetsTables, BudgetsInv, BudgetsTypeOK, OneActivePerYear
  <1> QED  BY <1>2, <1>4, <1>5, <1>6, <1>7, <1>8, <1>9, <1>10 DEF BudgetsNext

LEMMA BudgetsStart == BudgetsInit => BudgetsInv
  BY BudgetsAssumption
  DEF BudgetsAssumption, BudgetsInit, CallsInit, BudgetsInv, BudgetsTypeOK, OneActivePerYear,
      NoBudget, Budget, BudgetStatus

(* update and activate had read a draft, close a draft or an active budget. *)
BudgetReads(c) ==
  /\ c.op \in {"update", "activate", "activating"} => c.read = "draft"
  /\ c.op = "close" => c.read \in {"draft", "active"}

BudgetsReadOpen == \A u \in Users : BudgetReads(call[u])

LEMMA BudgetsReadOpenStill ==
  ASSUME BudgetsTypeOK, BudgetsReadOpen, [BudgetsNext]_budgetsVars
  PROVE  BudgetsReadOpen'
  <1>0. call \in [Users -> BudgetCall \cup {NoCall}]  BY DEF BudgetsTypeOK
  <1>1. ASSUME NEW u \in Users, NEW c, BudgetReads(c), call' = [call EXCEPT ![u] = c]
        PROVE  BudgetsReadOpen'
    BY <1>0, <1>1 DEF BudgetsReadOpen
  <1>2. ASSUME NEW u \in Users, NEW b \in BudgetIds, NEW op \in BudgetOps, StartBudgetStep(u, b, op)
        PROVE  BudgetsReadOpen'
    <2> DEFINE c == [op |-> op, doc |-> b, read |-> budget[b].status]
    <2>1. BudgetReads(c)  BY <1>2 DEF StartBudgetStep, BudgetStepFrom, BudgetOps, BudgetReads
    <2> QED  BY <1>1, <1>2, <2>1 DEF StartBudgetStep, Enter
  <1>3. ASSUME NEW u \in Users, FindActive(u)
        PROVE  BudgetsReadOpen'
    <2> DEFINE c == [op |-> "activating", doc |-> call[u].doc, read |-> call[u].read,
                     others |-> ActiveOthers(call[u].doc)]
    <2>1. call[u].read = "draft"  BY <1>3 DEF FindActive, BudgetsReadOpen, BudgetReads
    <2>2. BudgetReads(c)  BY <2>1 DEF BudgetReads
    <2> QED  BY <1>1, <1>3, <2>2 DEF FindActive, Proceed
  <1>4. ASSUME NEW u \in Users, Leave(u)
        PROVE  BudgetsReadOpen'
    BY <1>1, <1>4 DEF Leave, NoCall, BudgetReads
  <1>5. ASSUME NEW u \in Users,
               FinishUpdateBudget(u) \/ FinishCloseBudget(u) \/ FinishActivate(u) \/ BudgetFails(u)
        PROVE  Leave(u)
    BY Zenon, <1>5 DEF FinishUpdateBudget, FinishCloseBudget, FinishActivate, BudgetFails, Fails
  <1>6. (\E b \in BudgetIds, n \in {0, 1} : CreateBudget(b, n)) \/ UNCHANGED budgetsVars => UNCHANGED call
    BY DEF CreateBudget, budgetsVars
  <1>7. UNCHANGED call => BudgetsReadOpen'  BY DEF BudgetsReadOpen
  <1> QED  BY <1>2, <1>3, <1>4, <1>5, <1>6, <1>7 DEF BudgetsNext

LEMMA ClosedBudgetStays ==
  ASSUME BudgetsTypeOK, BudgetsReadOpen, [BudgetsNext]_budgetsVars, NEW b \in BudgetIds,
         budget[b].status \in {"active", "closed"}, Fresh(b, budget[b].status)
  PROVE  /\ budget'[b].lines = budget[b].lines
         /\ budget[b].status = "closed" => budget'[b].status = "closed"
  <1>0. budget \in [BudgetIds -> Budget]  BY DEF BudgetsTypeOK
  <1>1. ASSUME NEW u \in Users, call[u].op \in {"update", "activating"}
        PROVE  call[u].doc # b
    BY <1>1 DEF BudgetsReadOpen, BudgetReads, Fresh, NoCall
  <1>2. \A s : LET row == [budget[b] EXCEPT !.status = s]
               IN  row.lines = budget[b].lines /\ row.status = s
    BY <1>0 DEF Budget
  <1>3. ASSUME NEW u \in Users, FinishUpdateBudget(u)
        PROVE  budget'[b] = budget[b]
    BY <1>0, <1>1, <1>3 DEF FinishUpdateBudget
  <1>4. ASSUME NEW u \in Users, FinishCloseBudget(u)
        PROVE  budget'[b] = budget[b] \/ budget'[b] = [budget[b] EXCEPT !.status = "closed"]
    BY <1>0, <1>4 DEF FinishCloseBudget
  <1>5. ASSUME NEW u \in Users, FinishActivate(u)
        PROVE  budget'[b] = budget[b] \/ budget'[b] = [budget[b] EXCEPT !.status = "closed"]
    BY <1>1, <1>5 DEF FinishActivate
  <1>6. ASSUME NEW c \in BudgetIds, NEW n \in {0, 1}, CreateBudget(c, n)
        PROVE  budget'[b] = budget[b]
    BY <1>0, <1>6 DEF CreateBudget
  <1>7. \/ UNCHANGED budget
        \/ \E c \in BudgetIds, n \in {0, 1} : CreateBudget(c, n)
        \/ \E u \in Users : FinishUpdateBudget(u) \/ FinishCloseBudget(u) \/ FinishActivate(u)
    BY Zenon DEF BudgetsNext, budgetsVars, budgetsTables, StartBudgetStep, FindActive, BudgetFails
  <1>8. budget'[b] = budget[b] \/ budget'[b] = [budget[b] EXCEPT !.status = "closed"]
    BY <1>3, <1>4, <1>5, <1>6, <1>7
  <1> QED  BY <1>2, <1>8

-----------------------------------------------------------------------------
(* Reconciliations of a bank account.                                      *)

LEMMA BankCallIs ==
  ASSUME NEW c \in BankCall \cup {NoCall}
  PROVE  /\ c.op \in {"start", "adjust", "complete"} => c.doc \in Recos
         /\ c.op = "start" => c.lines \in SUBSET BankLines
         /\ c.op = "adjust" => c.adjustment \in Adjustments
         /\ c.op = "complete" => c.open \in SUBSET Adjustments
  <1>1. CASE c \in [op : {"start"}, doc : Recos, read : RecoStatus, lines : SUBSET BankLines]
    <2>1. c.op = "start" /\ c.doc \in Recos /\ c.lines \in SUBSET BankLines  BY <1>1
    <2> QED  BY <2>1
  <1>2. CASE c \in [op : {"adjust"}, doc : Recos, read : RecoStatus, adjustment : Adjustments]
    <2>1. c.op = "adjust" /\ c.doc \in Recos /\ c.adjustment \in Adjustments  BY <1>2
    <2> QED  BY <2>1
  <1>3. CASE c \in [op : {"complete"}, doc : Recos, read : RecoStatus, open : SUBSET Adjustments]
    <2>1. c.op = "complete" /\ c.doc \in Recos /\ c.open \in SUBSET Adjustments  BY <1>3
    <2> QED  BY <2>1
  <1>4. CASE c = NoCall
    <2>1. c.op = "idle"  BY <1>4 DEF NoCall
    <2> QED  BY <2>1
  <1> QED  BY <1>1, <1>2, <1>3, <1>4 DEF BankCall

LEMMA ItemsWritten ==
  ASSUME NEW row \in ItemRow, NEW unmatched \in SUBSET Items, NEW paired \in SUBSET Items
  PROVE  /\ [row EXCEPT !.open = unmatched] \in ItemRow
         /\ [row EXCEPT !.open = unmatched, !.matched = paired] \in ItemRow
  <1>1. [row EXCEPT !.open = unmatched] \in ItemRow  BY DEF ItemRow
  <1>2. [row EXCEPT !.open = unmatched, !.matched = paired] \in ItemRow  BY DEF ItemRow
  <1> QED  BY <1>1, <1>2

LEMMA BankInductive ==
  ASSUME BankTypeOK, [BankNext]_bankVars
  PROVE  BankTypeOK'
  <1> USE BankAssumption DEF BankAssumption
  <1>0. /\ call \in [Users -> BankCall \cup {NoCall}]
        /\ reco \in [Recos -> RecoStatus] /\ item \in [Recos -> ItemRow]
        /\ booked \in [Recos -> Seq(SUBSET Adjustments)]
        /\ \A r \in Recos : Len(booked[r]) <= MaxPosted
    BY DEF BankTypeOK
  <1>1. ASSUME NEW r \in Recos
        PROVE  item[r] \in ItemRow /\ item[r].open \in SUBSET Items /\ item[r].matched \in SUBSET Items
    BY <1>0 DEF ItemRow
  <1>2. ASSUME NEW r \in Recos, NEW row \in ItemRow, item' = [item EXCEPT ![r] = row],
               reco' \in [Recos -> RecoStatus], UNCHANGED booked,
               call' \in [Users -> BankCall \cup {NoCall}]
        PROVE  BankTypeOK'
    <2>1. item' \in [Recos -> ItemRow]  BY <1>0, <1>2
    <2> QED  BY <1>0, <1>2, <2>1 DEF BankTypeOK
  <1>3. ASSUME UNCHANGED bankTables, NEW u \in Users, NEW c \in BankCall \cup {NoCall},
               call' = [call EXCEPT ![u] = c]
        PROVE  BankTypeOK'
    <2>1. call' \in [Users -> BankCall \cup {NoCall}]  BY <1>0, <1>3
    <2> QED  BY <1>0, <1>3, <2>1 DEF BankTypeOK, bankTables
  <1>4. ASSUME NEW u \in Users, Leave(u)
        PROVE  call' \in [Users -> BankCall \cup {NoCall}]
    BY <1>0, <1>4 DEF Leave
  <1>5. ASSUME NEW u \in Users, NEW r \in Recos, StartReco(u, r)
        PROVE  BankTypeOK'
    <2> DEFINE c == [op |-> "start", doc |-> r, read |-> "none", lines |-> BankLines \ MatchedLines]
    <2>1. c \in BankCall  BY DEF BankCall, RecoStatus
    <2>2. call' = [call EXCEPT ![u] = c]  BY <1>5 DEF StartReco, Enter
    <2> HIDE DEF c
    <2> QED  BY <1>3, <1>5, <2>1, <2>2 DEF StartReco
  <1>6. ASSUME NEW u \in Users, FinishReco(u)
        PROVE  BankTypeOK'
    <2>1. PICK r \in Recos, lines \in SUBSET BankLines : r = call[u].doc /\ lines = call[u].lines
      BY <1>6, <1>0, BankCallIs DEF FinishReco
    <2> DEFINE row == [item[r] EXCEPT !.open = lines]
    <2>2. lines \in SUBSET Items /\ item[r].matched \in SUBSET Items /\ item[r] \in ItemRow
      BY <1>1 DEF Items
    <2>3. row \in ItemRow  BY Zenon, <2>2, ItemsWritten
    <2>4. /\ item' = [item EXCEPT ![r] = row] /\ reco' = [reco EXCEPT ![r] = "in_progress"]
          /\ UNCHANGED booked
      BY <1>6, <2>1 DEF FinishReco
    <2>5. reco' \in [Recos -> RecoStatus]  BY <1>0, <2>4 DEF RecoStatus
    <2>6. call' \in [Users -> BankCall \cup {NoCall}]  BY <1>4, <1>6 DEF FinishReco
    <2> HIDE DEF row
    <2> QED  BY <1>2, <2>3, <2>4, <2>5, <2>6
  <1>7. ASSUME NEW r \in Recos, NEW i \in Items, NEW j \in Items, MatchItem(r, i, j)
        PROVE  BankTypeOK'
    <2> DEFINE unmatched == item[r].open \ {i}  paired == (item[r].matched \ {i}) \cup {j}
               row == [item[r] EXCEPT !.open = unmatched, !.matched = paired]
    <2>1. unmatched \in SUBSET Items /\ paired \in SUBSET Items /\ item[r] \in ItemRow  BY <1>1
    <2>2. item' = [item EXCEPT ![r] = row] /\ UNCHANGED <<reco, booked, call>>
      BY <1>7 DEF MatchItem
    <2> HIDE DEF unmatched, paired
    <2>3. row \in ItemRow  BY Zenon, <2>1, ItemsWritten
    <2> HIDE DEF row
    <2> QED  BY <1>0, <1>2, <2>2, <2>3
  <1>8. ASSUME NEW r \in Recos, NEW i \in Items, Unmatch(r, i)
        PROVE  BankTypeOK'
    <2> DEFINE unmatched == item[r].open \cup {i}  paired == item[r].matched \ {i}
               row == [item[r] EXCEPT !.open = unmatched, !.matched = paired]
    <2>1. unmatched \in SUBSET Items /\ paired \in SUBSET Items /\ item[r] \in ItemRow  BY <1>1
    <2>2. item' = [item EXCEPT ![r] = row] /\ UNCHANGED <<reco, booked, call>>
      BY <1>8 DEF Unmatch
    <2> HIDE DEF unmatched, paired
    <2>3. row \in ItemRow  BY Zenon, <2>1, ItemsWritten
    <2> HIDE DEF row
    <2> QED  BY <1>0, <1>2, <2>2, <2>3
  <1>9. ASSUME NEW u \in Users, NEW r \in Recos, NEW a \in Adjustments, StartAdjustment(u, r, a)
        PROVE  BankTypeOK'
    <2> DEFINE c == [op |-> "adjust", doc |-> r, read |-> reco[r], adjustment |-> a]
    <2>1. c \in BankCall  BY <1>0 DEF BankCall
    <2>2. call' = [call EXCEPT ![u] = c]  BY <1>9 DEF StartAdjustment, Enter
    <2> HIDE DEF c
    <2> QED  BY <1>3, <1>9, <2>1, <2>2 DEF StartAdjustment
  <1>10. ASSUME NEW u \in Users, FinishAdjustment(u)
         PROVE  BankTypeOK'
    <2>1. PICK r \in Recos, a \in Adjustments : r = call[u].doc /\ a = call[u].adjustment
      BY <1>10, <1>0, BankCallIs DEF FinishAdjustment
    <2> DEFINE unmatched == item[r].open \cup {a}  row == [item[r] EXCEPT !.open = unmatched]
    <2>2. unmatched \in SUBSET Items /\ item[r].matched \in SUBSET Items /\ item[r] \in ItemRow
      BY <1>1 DEF Items
    <2>3. item' = [item EXCEPT ![r] = row] /\ UNCHANGED <<reco, booked>>
      BY <1>10, <2>1 DEF FinishAdjustment
    <2>4. call' \in [Users -> BankCall \cup {NoCall}]  BY <1>4, <1>10 DEF FinishAdjustment
    <2> HIDE DEF unmatched
    <2>5. row \in ItemRow  BY Zenon, <2>2, ItemsWritten
    <2> HIDE DEF row
    <2> QED  BY <1>0, <1>2, <2>3, <2>4, <2>5
  <1>11. ASSUME NEW u \in Users, NEW r \in Recos, StartCompletion(u, r)
         PROVE  BankTypeOK'
    <2> DEFINE fees == item[r].open \cap Adjustments
               c == [op |-> "complete", doc |-> r, read |-> reco[r], open |-> fees]
    <2>1. fees \in SUBSET Adjustments /\ reco[r] \in RecoStatus  BY <1>0
    <2>2. call' = [call EXCEPT ![u] = c]  BY <1>11 DEF StartCompletion, Enter
    <2> HIDE DEF fees
    <2>3. c \in BankCall  BY <2>1 DEF BankCall
    <2> HIDE DEF c
    <2> QED  BY <1>3, <1>11, <2>2, <2>3 DEF StartCompletion
  <1>12. ASSUME NEW u \in Users, FinishCompletion(u)
         PROVE  BankTypeOK'
    <2>1. PICK r \in Recos, fees \in SUBSET Adjustments : r = call[u].doc /\ fees = call[u].open
      BY <1>12, <1>0, BankCallIs DEF FinishCompletion
    <2>2. /\ Len(booked[r]) < MaxPosted /\ reco' = [reco EXCEPT ![r] = "completed"]
          /\ booked' = IF fees = {} THEN booked ELSE [booked EXCEPT ![r] = Append(booked[r], fees)]
          /\ UNCHANGED item
      BY <1>12, <2>1 DEF FinishCompletion
    <2>3. Append(booked[r], fees) \in Seq(SUBSET Adjustments)
          /\ Len(Append(booked[r], fees)) = Len(booked[r]) + 1 /\ Len(booked[r]) \in Nat
      BY <1>0
    <2>4. booked' \in [Recos -> Seq(SUBSET Adjustments)] /\ \A q \in Recos : Len(booked'[q]) <= MaxPosted
      BY <1>0, <2>2, <2>3
    <2>5. reco' \in [Recos -> RecoStatus]  BY <1>0, <2>2 DEF RecoStatus
    <2>6. call' \in [Users -> BankCall \cup {NoCall}]  BY <1>4, <1>12 DEF FinishCompletion
    <2> QED  BY <1>0, <2>2, <2>4, <2>5, <2>6 DEF BankTypeOK
  <1>13. ASSUME NEW u \in Users, BankFails(u)
         PROVE  BankTypeOK'
    BY <1>3, <1>13 DEF BankFails, Fails, Leave
  <1>14. CASE UNCHANGED bankVars
    BY <1>0, <1>14 DEF bankVars, bankTables, BankTypeOK
  <1> QED
    BY <1>5, <1>6, <1>7, <1>8, <1>9, <1>10, <1>11, <1>12, <1>13, <1>14 DEF BankNext

LEMMA BankStart == BankInit => BankTypeOK
  BY BankAssumption
  DEF BankAssumption, BankInit, CallsInit, BankTypeOK, RecoStatus, ItemRow

(* adjust and complete had read the reconciliation in progress.            *)
ReadsAtWork == \A u \in Users : call[u].op \in {"adjust", "complete"} => call[u].read = "in_progress"

LEMMA ReadsAtWorkStill ==
  ASSUME BankTypeOK, ReadsAtWork, [BankNext]_bankVars
  PROVE  ReadsAtWork'
  <1>0. call \in [Users -> BankCall \cup {NoCall}]  BY DEF BankTypeOK
  <1>1. ASSUME NEW u \in Users, NEW c, call' = [call EXCEPT ![u] = c],
               c.op \in {"adjust", "complete"} => c.read = "in_progress"
        PROVE  ReadsAtWork'
    BY <1>0, <1>1 DEF ReadsAtWork
  <1>2. ASSUME NEW u \in Users, NEW r \in Recos,
               \/ StartReco(u, r) \/ StartCompletion(u, r)
               \/ \E a \in Adjustments : StartAdjustment(u, r, a)
        PROVE  ReadsAtWork'
    BY <1>1, <1>2 DEF StartReco, StartCompletion, StartAdjustment, AtWork, Enter
  <1>3. ASSUME NEW u \in Users, Leave(u)
        PROVE  ReadsAtWork'
    BY <1>1, <1>3 DEF Leave, NoCall
  <1>4. ASSUME NEW u \in Users,
               FinishReco(u) \/ FinishAdjustment(u) \/ FinishCompletion(u) \/ BankFails(u)
        PROVE  Leave(u)
    BY Zenon, <1>4 DEF FinishReco, FinishAdjustment, FinishCompletion, BankFails, Fails
  <1>5. \/ UNCHANGED bankVars
        \/ \E r \in Recos, i \in Items : Unmatch(r, i) \/ \E j \in Items : MatchItem(r, i, j)
        => UNCHANGED call
    BY DEF Unmatch, MatchItem, bankVars
  <1>6. UNCHANGED call => ReadsAtWork'  BY DEF ReadsAtWork
  <1> QED  BY <1>2, <1>3, <1>4, <1>5, <1>6 DEF BankNext

LEMMA CompletedRecoStays ==
  ASSUME BankTypeOK, ReadsAtWork, [BankNext]_bankVars,
         NEW r \in Recos, reco[r] = "completed", Fresh(r, "completed")
  PROVE  /\ reco'[r] = "completed" /\ booked'[r] = booked[r]
         /\ (item'[r].open \cup item'[r].matched) \cap Adjustments
              \subseteq item[r].open \cup item[r].matched
  <1> DEFINE Held(row) == (row.open \cup row.matched) \cap Adjustments
  <1>0. /\ reco \in [Recos -> RecoStatus] /\ item \in [Recos -> ItemRow]
        /\ booked \in [Recos -> Seq(SUBSET Adjustments)]
    BY DEF BankTypeOK
  <1>1. ASSUME NEW u \in Users, FinishReco(u) \/ FinishAdjustment(u) \/ FinishCompletion(u)
        PROVE  call[u].doc # r
    BY <1>1 DEF FinishReco, FinishAdjustment, FinishCompletion, ReadsAtWork, Fresh, NoCall
  <1>2. ASSUME NEW u \in Users, FinishReco(u) \/ FinishAdjustment(u) \/ FinishCompletion(u)
        PROVE  reco'[r] = reco[r] /\ booked'[r] = booked[r] /\ item'[r] = item[r]
    BY <1>0, <1>1, <1>2 DEF FinishReco, FinishAdjustment, FinishCompletion
  <1>3. ASSUME NEW s \in Recos, NEW i \in Items, NEW j \in Items, MatchItem(s, i, j)
        PROVE  UNCHANGED <<reco, booked>> /\ Held(item'[r]) \subseteq Held(item[r])
    <2>1. /\ item' = [item EXCEPT ![s].open = @ \ {i}, ![s].matched = (@ \ {i}) \cup {j}]
          /\ i \in item[s].open \cup item[s].matched /\ (j = i \/ j \notin Adjustments)
          /\ UNCHANGED <<reco, booked>>
      BY BankAssumption, <1>3 DEF BankAssumption, MatchItem
    <2> DEFINE row == [item[s] EXCEPT !.open = item[s].open \ {i},
                                      !.matched = (item[s].matched \ {i}) \cup {j}]
    <2>2. item' = [item EXCEPT ![s] = row]  BY <1>0, <2>1
    <2>3. row.open = item[s].open \ {i} /\ row.matched = (item[s].matched \ {i}) \cup {j}
      BY <1>0 DEF ItemRow
    <2> HIDE DEF row
    <2>4. Held(row) \subseteq Held(item[s])  BY <2>1, <2>3
    <2>5. item'[r] = IF r = s THEN row ELSE item[r]  BY <1>0, <2>2
    <2> QED  BY <2>1, <2>4, <2>5
  <1>4. ASSUME NEW s \in Recos, NEW i \in Items, Unmatch(s, i)
        PROVE  UNCHANGED <<reco, booked>> /\ Held(item'[r]) \subseteq Held(item[r])
    <2>1. /\ item' = [item EXCEPT ![s].open = @ \cup {i}, ![s].matched = @ \ {i}]
          /\ i \in item[s].matched /\ UNCHANGED <<reco, booked>>
      BY <1>4 DEF Unmatch
    <2> DEFINE row == [item[s] EXCEPT !.open = item[s].open \cup {i},
                                      !.matched = item[s].matched \ {i}]
    <2>2. item' = [item EXCEPT ![s] = row]  BY <1>0, <2>1
    <2>3. row.open = item[s].open \cup {i} /\ row.matched = item[s].matched \ {i}
      BY <1>0 DEF ItemRow
    <2> HIDE DEF row
    <2>4. Held(row) \subseteq Held(item[s])  BY <2>1, <2>3
    <2>5. item'[r] = IF r = s THEN row ELSE item[r]  BY <1>0, <2>2
    <2> QED  BY <2>1, <2>4, <2>5
  <1>5. \/ UNCHANGED <<reco, item, booked>>
        \/ \E s \in Recos, i \in Items : Unmatch(s, i) \/ \E j \in Items : MatchItem(s, i, j)
        \/ \E u \in Users : FinishReco(u) \/ FinishAdjustment(u) \/ FinishCompletion(u)
    BY Zenon DEF BankNext, bankVars, bankTables, StartReco, StartCompletion, StartAdjustment, BankFails
  <1> QED  BY <1>2, <1>3, <1>4, <1>5
===============================================================================
