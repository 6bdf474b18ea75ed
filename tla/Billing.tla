-------------------------------- MODULE Billing --------------------------------
(***************************************************************************)
(* The invoices of a subscription's periods and their payments:            *)
(* billing.service.ts of modules/admin/licensing.  The sweep that writes   *)
(* the invoices runs beside the administrators who settle them.  A period  *)
(* is named by its end.                                                    *)
(***************************************************************************)
EXTENDS Requests

CONSTANTS
  LastPeriod,   \* bound: periods the subscription lives through
  References,   \* of payments, as the bank gives them
  NoReference,  \* a payment recorded without one
  MaxRecorded   \* bound: payments of an invoice recorded with one reference, or with none

ASSUME BillingAssumption ==
  /\ LastPeriod \in Nat \ {0} /\ MaxRecorded \in Nat
  /\ NoReference \notin References

VARIABLES
  current,      \* the subscription's period
  ended,        \* its end lies in the past
  billed,       \* license_invoices of each period: their status
  licensePayments  \* license_payments of each invoice, by their reference

billingTables == <<current, ended, billed, licensePayments>>
billingVars == <<billingTables, call>>

Periods == 1..LastPeriod
Given == References \cup {NoReference}
BillStatus == {"none", "open", "paid", "failed", "voided"}

BillingCall ==
  [op : {"sweep", "markFailed", "retry", "void"}, doc : Periods, read : BillStatus]
  \cup [op : {"markPaid", "paying"}, doc : Periods, ref : Given, read : BillStatus]

BillingInit ==
  /\ current = 1
  /\ ended = FALSE
  /\ billed = [p \in Periods |-> "none"]
  /\ licensePayments = [p \in Periods |-> [r \in Given |-> 0]]
  /\ CallsInit

PeriodEnds ==
  /\ ended' = TRUE
  /\ UNCHANGED <<current, billed, licensePayments, call>>

(* A device renews the subscription, before the period's end or after it. *)
PeriodRenewed ==
  /\ current < LastPeriod
  /\ current' = current + 1
  /\ ended' = FALSE
  /\ UNCHANGED <<billed, licensePayments, call>>

-----------------------------------------------------------------------------

(* generatePeriodInvoices reads the subscriptions whose period has ended. *)
StartSweep(u) ==
  /\ ended
  /\ Enter(u, [op |-> "sweep", doc |-> current, read |-> billed[current]])
  /\ UNCHANGED billingTables

(* It looks for the invoice and creates it; the unique index refuses the   *)
(* second of two sweeps, which passes on.                                  *)
SweepPeriod(u) ==
  LET p == call[u].doc
  IN  /\ call[u].op = "sweep"
      /\ billed' = [billed EXCEPT ![p] = IF @ = "none" THEN "open" ELSE @]
      /\ Leave(u)
      /\ UNCHANGED <<current, ended, licensePayments>>

-----------------------------------------------------------------------------
StartMarkPaid(u, p, r) ==
  /\ billed[p] \notin {"none", "voided"}
  /\ Enter(u, [op |-> "markPaid", doc |-> p, ref |-> r, read |-> billed[p]])
  /\ UNCHANGED billingTables

(* A payment with this reference is there: the call answers with it.       *)
FindPayment(u) ==
  LET c == call[u]
      found == c.ref # NoReference /\ licensePayments[c.doc][c.ref] > 0
  IN  /\ c.op = "markPaid"
      /\ IF found THEN Leave(u) ELSE Proceed(u, [c EXCEPT !.op = "paying"])
      /\ UNCHANGED billingTables

(* Mutant: the table has no unique index. *)
Admits_Any(p, r) == TRUE

(* The unique index on the invoice and the reference, where there is one. *)
Admits(p, r) == r = NoReference \/ licensePayments[p][r] = 0

(* The payment and the status are written in one transaction, which fails  *)
(* when the reference has come in since it was looked for.                 *)
FinishMarkPaid(u) ==
  LET c == call[u]
  IN  /\ c.op = "paying"
      /\ Admits(c.doc, c.ref)
      /\ licensePayments[c.doc][c.ref] < MaxRecorded
      /\ licensePayments' = [licensePayments EXCEPT ![c.doc][c.ref] = @ + 1]
      /\ billed' = [billed EXCEPT ![c.doc] = "paid"]
      /\ Leave(u)
      /\ UNCHANGED <<current, ended>>

(* What each of the other three asks of the status, and writes. *)
BillStepFrom(op) ==
  CASE op = "markFailed" -> {"open", "failed"}
    [] op = "retry" -> {"failed"}
    [] op = "void" -> {"open", "failed"}

BillStepTo(op) ==
  CASE op = "markFailed" -> "failed"
    [] op = "retry" -> "open"
    [] op = "void" -> "voided"

StartBillStep(u, p, op) ==
  /\ billed[p] \in BillStepFrom(op)
  /\ Enter(u, [op |-> op, doc |-> p, read |-> billed[p]])
  /\ UNCHANGED billingTables

FinishBillStep(u) ==
  LET c == call[u]
  IN  /\ c.op \in {"markFailed", "retry", "void"}
      /\ billed' = [billed EXCEPT ![c.doc] = BillStepTo(c.op)]
      /\ Leave(u)
      /\ UNCHANGED <<current, ended, licensePayments>>

BillingFails(u) == Fails(u) /\ UNCHANGED billingTables

BillingNext ==
  \/ PeriodEnds \/ PeriodRenewed
  \/ \E u \in Users, p \in Periods, r \in Given : StartMarkPaid(u, p, r)
  \/ \E u \in Users, p \in Periods, op \in {"markFailed", "retry", "void"} :
       StartBillStep(u, p, op)
  \/ \E u \in Users :
       \/ StartSweep(u) \/ SweepPeriod(u) \/ FindPayment(u) \/ FinishMarkPaid(u)
       \/ FinishBillStep(u) \/ BillingFails(u)

BillingSpec == BillingInit /\ [][BillingNext]_billingVars

-----------------------------------------------------------------------------
BillingTypeOK ==
  /\ current \in Periods
  /\ ended \in BOOLEAN
  /\ billed \in [Periods -> BillStatus]
  /\ licensePayments \in [Periods -> [Given -> 0..MaxRecorded]]
  /\ call \in [Users -> BillingCall \cup {NoCall}]

(* However often a payment is reported, one after the other or at once, it *)
(* is recorded once, and no report that was refused leaves an invoice paid *)
(* without a payment of it.                                                *)
RetriesDoNotAddUp ==
  \A p \in Periods :
    /\ \A r \in References : licensePayments[p][r] <= 1
    /\ billed[p] = "paid" => \E r \in Given : licensePayments[p][r] > 0

(* A paid or voided invoice keeps its status, whether it is paid again or  *)
(* swept again: only a request that had read an earlier one overwrites it. *)
InvoiceSettled ==
  [][\A p \in Periods :
       /\ billed[p] \in {"paid", "voided"}
       /\ \A u \in Users : call[u].op \notin {"idle", "sweep"} /\ call[u].doc = p
            => call[u].read = billed[p]
       => billed'[p] = billed[p]]_billingVars

(* No period is invoiced before it has ended, though the sweep writes      *)
(* after renewals that it has not read.                                    *)
BilledAfterItsEnd ==
  \A p \in Periods : billed[p] # "none" => p < current \/ (p = current /\ ended)
=============================================================================
