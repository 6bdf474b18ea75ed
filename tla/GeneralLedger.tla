----------------------------- MODULE GeneralLedger -----------------------------
(***************************************************************************)
(* The chart of accounts, the posted entries, and what the reports read of *)
(* them: gl.service.ts and financial-reports.service.ts.  An entry here is *)
(* one debit and one credit of the same unit amount, so that a sum of      *)
(* amounts is a count of entries.  Which period an entry may be posted in, *)
(* and who may post it twice, are matters of Posting.                      *)
(*                                                                         *)
(* A report is several queries and no transaction: entries are posted and  *)
(* reversed, and accounts changed, between any two of them.                *)
(***************************************************************************)
EXTENDS Requests, Functions

CONSTANTS
  Accounts,
  Categories,     \* the categories the company uses
  LastDate,       \* bound on the dates
  YearLength,     \* days of a year
  MaxJournal      \* bound on the entries

AssetCategories == {"fixed_assets", "current_assets"}
IncomeCategories == {"revenue", "expense"}
Category == AssetCategories \cup IncomeCategories \cup {"liabilities", "equity"}

ASSUME GlAssumption ==
  /\ LastDate \in Nat /\ YearLength \in Nat \ {0} /\ MaxJournal \in Nat
  /\ Categories \subseteq Category
  /\ IsFiniteSet(Accounts)

VARIABLES
  chart,          \* chart_of_accounts
  journal         \* journal_entries; reversedBy: 0 or the id of the mirror entry

glTables == <<chart, journal>>
glVars == <<glTables, call>>

Dates == 1..LastDate
Account == [category : Category \cup {"none"}, active : BOOLEAN]
JournalRow == [id : 1..MaxJournal, debit : Accounts, credit : Accounts, on : Dates,
               reversedBy : 0..MaxJournal]
Listing == [Accounts -> Category \cup {"none"}]
GlCall ==
  [op : {"update"}, doc : Accounts, to : Category, used : BOOLEAN]
  \cup [op : {"ledger"}, doc : Accounts, category : Category, from : Dates, to : Dates,
        left : SUBSET {"lines", "debit", "credit"}, closing : Int, upto : 0..MaxJournal]
  \cup [op : {"sheet", "sheetSummed", "income", "sheetDone"}, asOf : Dates,
        listed : Listing, earning : Listing, out : Int, upto : 0..MaxJournal]

GlInit ==
  /\ chart = [a \in Accounts |-> [category |-> "none", active |-> TRUE]]
  /\ journal = {}
  /\ CallsInit

Exists(a) == chart[a].category # "none"
InUse(a) == \E e \in journal : a \in {e.debit, e.credit}

-----------------------------------------------------------------------------
(* What a report reads: the lines of entries whose status is 'posted',     *)
(* which a reversed entry has left; its mirror has it.                     *)

Posted == {e \in journal : e.reversedBy = 0}
Debits(a, days) == Cardinality({e \in Posted : e.debit = a /\ e.on \in days})
Credits(a, days) == Cardinality({e \in Posted : e.credit = a /\ e.on \in days})

SignedBalance(category, debit, credit) ==
  IF category \in AssetCategories \cup {"expense"} THEN debit - credit ELSE credit - debit

AccountBalance(a, asOf) ==
  SignedBalance(chart[a].category, Debits(a, 1..asOf), Credits(a, 1..asOf))

(* accountLedger reads the account first ...                               *)
StartLedger(u, a) ==
  /\ Exists(a)
  /\ \E from, to \in Dates :
       /\ from <= to
       /\ Enter(u, [op |-> "ledger", doc |-> a, category |-> chart[a].category,
                    from |-> from, to |-> to, left |-> {"lines", "debit", "credit"},
                    closing |-> 0, upto |-> Cardinality(journal)])
  /\ UNCHANGED glTables

(* Mutant: the opening balance counts the entries of the first day, which  *)
(* are listed as well.                                                     *)
Opening_FirstDayToo(from) == 1..from

Opening(from) == 1..(from - 1)

(* ... then the lines of the span, then the two sums of the days before    *)
(* it, which come back in either order.                                    *)
ReadLedger(u, part) ==
  LET c == call[u]
      sum == CASE part = "lines" -> SignedBalance(c.category, Debits(c.doc, c.from..c.to),
                                                              Credits(c.doc, c.from..c.to))
               [] part = "debit" -> SignedBalance(c.category, Debits(c.doc, Opening(c.from)), 0)
               [] part = "credit" -> SignedBalance(c.category, 0, Credits(c.doc, Opening(c.from)))
  IN  /\ c.op = "ledger"
      /\ part \in c.left
      /\ part # "lines" => "lines" \notin c.left
      /\ Proceed(u, [c EXCEPT !.left = @ \ {part}, !.closing = @ + sum])
      /\ UNCHANGED glTables

-----------------------------------------------------------------------------
(* The active accounts of some categories, as one query reads them. *)
ActiveOf(categories) ==
  [a \in Accounts |-> IF chart[a].active /\ chart[a].category \in categories
                        THEN chart[a].category ELSE "none"]

(* A section of a statement.  In it a category of assets, or expense, is   *)
(* signed by its debits.                                                   *)
Section(listed, categories, days) ==
  SumFunctionOnSet([a \in Accounts |-> SignedBalance(listed[a], Debits(a, days), Credits(a, days))],
                   {a \in Accounts : listed[a] \in categories})

NetIncome(listed, days) ==
  Section(listed, {"revenue"}, days) - Section(listed, {"expense"}, days)


YearOf(date) == (YearLength * ((date - 1) \div YearLength) + 1)..date

(* balanceSheet reads the accounts, then sums their entries; incomeStatement *)
(* reads the accounts of revenue and expense, then sums those of the year. *)
StartSheet(u) ==
  /\ \E asOf \in Dates :
       Enter(u, [op |-> "sheet", asOf |-> asOf,
                 listed |-> ActiveOf(AssetCategories \cup {"liabilities", "equity"}),
                 earning |-> [a \in Accounts |-> "none"], out |-> 0,
                 upto |-> Cardinality(journal)])
  /\ UNCHANGED glTables

(* By what the assets exceed the other side. *)
SumSheet(u) ==
  LET c == call[u]
      total(categories) == Section(c.listed, categories, 1..c.asOf)
  IN  /\ c.op = "sheet"
      /\ Proceed(u, [c EXCEPT !.op = "sheetSummed",
                              !.out = total(AssetCategories) - total({"liabilities", "equity"})])
      /\ UNCHANGED glTables

ListEarning(u) ==
  /\ call[u].op = "sheetSummed"
  /\ Proceed(u, [call[u] EXCEPT !.op = "income", !.earning = ActiveOf(IncomeCategories)])
  /\ UNCHANGED glTables

SumIncome(u) ==
  LET c == call[u]
  IN  /\ c.op = "income"
      /\ Proceed(u, [c EXCEPT !.op = "sheetDone",
                              !.out = @ - NetIncome(c.earning, YearOf(c.asOf))])
      /\ UNCHANGED glTables

-----------------------------------------------------------------------------
CreateAccount(a, c) ==
  /\ ~ Exists(a)
  /\ chart' = [chart EXCEPT ![a].category = c]
  /\ UNCHANGED <<journal, call>>

(* Whatever the account's balance.                                         *)
SetActive(a, b) ==
  /\ Exists(a)
  /\ chart[a].active # b
  /\ chart' = [chart EXCEPT ![a].active = b]
  /\ UNCHANGED <<journal, call>>

(* updateAccount with a category: the lines are counted here, if it is     *)
(* another one ...                                                         *)
StartUpdate(u, a, c) ==
  /\ Exists(a)
  /\ Enter(u, [op |-> "update", doc |-> a, to |-> c,
               used |-> c # chart[a].category /\ InUse(a)])
  /\ UNCHANGED glTables

(* ... and the row is written here.                                        *)
FinishUpdate(u) ==
  /\ call[u].op = "update"
  /\ ~ call[u].used
  /\ chart' = [chart EXCEPT ![call[u].doc].category = call[u].to]
  /\ Leave(u)
  /\ UNCHANGED journal

(* It has answered, or fails. *)
GlEnds(u) == Fails(u) /\ UNCHANGED glTables

NextId == Cardinality(journal) + 1
Line(d, c, date) == [id |-> NextId, debit |-> d, credit |-> c, on |-> date, reversedBy |-> 0]

(* postJournalEntry: the accounts exist; none asks whether they are active. *)
PostEntry(d, c, date) ==
  /\ Exists(d) /\ Exists(c)
  /\ NextId <= MaxJournal
  /\ journal' = journal \cup {Line(d, c, date)}
  /\ UNCHANGED <<chart, call>>

(* reverse: the mirror is posted and the original marked, in a transaction. *)
ReverseEntry(e, date) ==
  /\ e.reversedBy = 0
  /\ NextId <= MaxJournal
  /\ journal' = (journal \ {e}) \cup {[e EXCEPT !.reversedBy = NextId], Line(e.credit, e.debit, date)}
  /\ UNCHANGED <<chart, call>>

GlNext ==
  \/ \E a \in Accounts :
       \/ \E c \in Categories : CreateAccount(a, c) \/ (\E u \in Users : StartUpdate(u, a, c))
       \/ \E b \in BOOLEAN : SetActive(a, b)
       \/ \E u \in Users : StartLedger(u, a)
  \/ \E u \in Users, part \in {"lines", "debit", "credit"} : ReadLedger(u, part)
  \/ \E u \in Users :
       \/ StartSheet(u) \/ SumSheet(u) \/ ListEarning(u) \/ SumIncome(u)
       \/ FinishUpdate(u) \/ GlEnds(u)
  \/ \E date \in Dates :
       \/ \E d, c \in Accounts : d # c /\ PostEntry(d, c, date)
       \/ \E e \in journal : ReverseEntry(e, date)

GlSpec == GlInit /\ [][GlNext]_glVars

-----------------------------------------------------------------------------
GlTypeOK ==
  /\ chart \in [Accounts -> Account]
  /\ journal \subseteq JournalRow
  /\ call \in [Users -> GlCall \cup {NoCall}]

(* The entries posted or reversed since a report began.                    *)
Moved(c) == {e \in journal : e.id > c.upto \/ e.reversedBy > c.upto}
Within(n, difference) == difference \in -n..n

(* An account's ledger over any span closes within the entries moved while *)
(* it was read of the balance of its last day: between its queries no      *)
(* other entry is dropped, and none counted twice at the span's first day. *)
LedgerOutByMovement ==
  \A u \in Users : call[u].op = "ledger" /\ call[u].left = {} =>
    LET c == call[u]
    IN  Within(Cardinality(Moved(c)),
               c.closing - SignedBalance(c.category, Debits(c.doc, 1..c.to),
                                                     Credits(c.doc, 1..c.to)))


(* The lines of an account in use are never moved to another statement:    *)
(* only an update that had counted its lines before the first was posted   *)
(* changes its category.                                                   *)
CategorySealed ==
  [][\A a \in Accounts :
       /\ InUse(a)
       /\ \A u \in Users : call[u].op = "update" /\ call[u].doc = a =>
            call[u].used \/ call[u].to = chart[a].category
       => chart'[a].category = chart[a].category]_glVars

IsMirror(e) == \E f \in journal : f.reversedBy = e.id

(* A reversal cancels, says the playbook: when every entry is one that was *)
(* reversed or the mirror of one, no account has a balance.  The code      *)
(* reads the mirror and no longer the original, so the balance is the      *)
(* opposite of what the entry had made it.                                 *)
ReversalCancels ==
  (\A e \in journal : IsMirror(e) <=> e.reversedBy = 0)
    => \A a \in Accounts : AccountBalance(a, LastDate) = 0
=============================================================================
