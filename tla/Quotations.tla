------------------------------ MODULE Quotations ------------------------------
(***************************************************************************)
(* Quotations and the sales orders made from them: quotations.service.ts.  *)
(* Every method reads the quotation with its lines, checks the status and  *)
(* writes by id alone.  Nothing compares the current date with validUntil, *)
(* and nothing sets the status expired.                                    *)
(***************************************************************************)
EXTENDS Requests, Sequences

CONSTANTS
  Quotes,
  MaxVersions,   \* bound: versions of a quotation's lines
  MaxOrders      \* bound: orders made from a quotation

ASSUME QuotationsAssumption == MaxVersions \in Nat \ {0} /\ MaxOrders \in Nat \ {0}

VARIABLES
  quote,         \* quotations
  madeFrom       \* sales_orders by sourceQuotationId: the lines they were given

quotationsTables == <<quote, madeFrom>>
quotationsVars == <<quotationsTables, call>>

QuoteStatus == {"none", "draft", "sent", "accepted", "rejected", "converted"}
Quote == [status : QuoteStatus, lines : 0..MaxVersions, order : 0..MaxOrders]
NoQuote == [status |-> "none", lines |-> 0, order |-> 0]

QuoteCall == [op : {"update", "send", "accept", "reject", "convert"}, doc : Quotes, read : Quote]

QuotationsInit ==
  /\ quote = [q \in Quotes |-> NoQuote]
  /\ madeFrom = [q \in Quotes |-> <<>>]
  /\ CallsInit

CreateQuote(q) ==
  /\ quote[q] = NoQuote
  /\ quote' = [quote EXCEPT ![q] = [status |-> "draft", lines |-> 1, order |-> 0]]
  /\ UNCHANGED <<madeFrom, call>>

(* The statuses each method goes on from. *)
QuoteStepFrom(op) ==
  CASE op \in {"update", "send"} -> {"draft"}
    [] op \in {"accept", "reject"} -> {"sent", "draft"}
    [] op = "convert" -> {"sent", "accepted"}

StartQuoteStep(u, q, op) ==
  /\ quote[q].status \in QuoteStepFrom(op)
  /\ Enter(u, [op |-> op, doc |-> q, read |-> quote[q]])
  /\ UNCHANGED quotationsTables

(* The lines are deleted and written anew, with the totals of both. *)
FinishQuoteUpdate(u) ==
  LET q == call[u].doc
  IN  /\ call[u].op = "update"
      /\ quote[q].lines < MaxVersions
      /\ quote' = [quote EXCEPT ![q].lines = @ + 1]
      /\ Leave(u)
      /\ UNCHANGED madeFrom

FinishQuoteStep(u) ==
  LET c == call[u]
  IN  /\ c.op \in {"send", "accept", "reject"}
      /\ quote' = [quote EXCEPT ![c.doc].status =
                     CASE c.op = "send" -> "sent"
                       [] c.op = "accept" -> "accepted"
                       [] c.op = "reject" -> "rejected"]
      /\ Leave(u)
      /\ UNCHANGED madeFrom

(* A draft order with the lines that were read; the quotation is marked in *)
(* the same transaction.                                                   *)
FinishConvert(u) ==
  LET c == call[u]
      q == c.doc
  IN  /\ c.op = "convert"
      /\ Len(madeFrom[q]) < MaxOrders
      /\ madeFrom' = [madeFrom EXCEPT ![q] = Append(@, c.read.lines)]
      /\ quote' = [quote EXCEPT ![q].status = "converted", ![q].order = Len(madeFrom'[q])]
      /\ Leave(u)

QuoteFails(u) == Fails(u) /\ UNCHANGED quotationsTables

QuotationsNext ==
  \/ \E q \in Quotes : CreateQuote(q)
  \/ \E u \in Users, q \in Quotes, op \in {"update", "send", "accept", "reject", "convert"} :
       StartQuoteStep(u, q, op)
  \/ \E u \in Users :
       FinishQuoteUpdate(u) \/ FinishQuoteStep(u) \/ FinishConvert(u) \/ QuoteFails(u)

QuotationsSpec == QuotationsInit /\ [][QuotationsNext]_quotationsVars

-----------------------------------------------------------------------------
QuotationsTypeOK ==
  /\ quote \in [Quotes -> Quote]
  /\ madeFrom \in [Quotes -> Seq(1..MaxVersions)]
  /\ \A q \in Quotes : Len(madeFrom[q]) <= MaxOrders
  /\ call \in [Users -> QuoteCall \cup {NoCall}]

(* A quotation names the last order made from it, if there is one, however *)
(* conversions and answers of the customer overlap; a converted one names  *)
(* an order.                                                               *)
ConvertedNamesItsOrder ==
  \A q \in Quotes :
    /\ quote[q].order = Len(madeFrom[q])
    /\ quote[q].status = "converted" => quote[q].order > 0

(* What was sent to the customer stays what the quotation says, and a      *)
(* rejected or converted one stays as it is: only a call that had read an  *)
(* earlier status changes it, or makes another order of it.                *)
QuoteFrozen ==
  [][\A q \in Quotes :
       /\ quote[q].status # "none"
       /\ \A u \in Users : call[u] # NoCall /\ call[u].doc = q
            => call[u].read.status = quote[q].status
       => /\ quote[q].status # "draft" => quote'[q].lines = quote[q].lines
          /\ quote[q].status \in {"rejected", "converted"} => quote'[q] = quote[q]]_quotationsVars
=============================================================================
