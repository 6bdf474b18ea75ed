--------------------------- MODULE BankReconciliation ---------------------------
(***************************************************************************)
(* A bank account reconciled with the bank's statements: finance/banks     *)
(* /reconciliation.service.ts.  The lines of the account that no other     *)
(* reconciliation has matched become its items, with the bank's own fees   *)
(* as adjustments, which are posted when it is completed.                  *)
(***************************************************************************)
EXTENDS Requests, Sequences

CONSTANTS
  Recos,
  BankLines,      \* journal entry lines of the bank's account
  Adjustments,    \* bank fees and interest, which the books lack
  MaxPosted       \* bound on the entries posted for a reconciliation

ASSUME BankAssumption == BankLines \cap Adjustments = {} /\ MaxPosted \in Nat

VARIABLES
  reco,           \* bank_reconciliations
  item,           \* bank_reconciliation_items by reconciliation; those not matched, those matched
  booked          \* the journal entries posted for the reconciliation, by what each adjusts

bankTables == <<reco, item, booked>>
bankVars == <<bankTables, call>>

Items == BankLines \cup Adjustments
RecoStatus == {"none", "in_progress", "completed"}
ItemRow == [open : SUBSET Items, matched : SUBSET Items]

BankCall ==
  [op : {"start"}, doc : Recos, read : RecoStatus, lines : SUBSET BankLines]
  \cup [op : {"adjust"}, doc : Recos, read : RecoStatus, adjustment : Adjustments]
  \cup [op : {"complete"}, doc : Recos, read : RecoStatus, open : SUBSET Adjustments]

BankInit ==
  /\ reco = [r \in Recos |-> "none"]
  /\ item = [r \in Recos |-> [open |-> {}, matched |-> {}]]
  /\ booked = [r \in Recos |-> <<>>]
  /\ CallsInit

MatchedLines == UNION {item[r].matched \cap BankLines : r \in Recos}

(* start reads which lines are matched, then creates the reconciliation. *)
StartReco(u, r) ==
  /\ reco[r] = "none"
  /\ Enter(u, [op |-> "start", doc |-> r, read |-> "none", lines |-> BankLines \ MatchedLines])
  /\ UNCHANGED bankTables

FinishReco(u) ==
  LET r == call[u].doc
  IN  /\ call[u].op = "start"
      /\ reco[r] = "none"
      /\ reco' = [reco EXCEPT ![r] = "in_progress"]
      /\ item' = [item EXCEPT ![r].open = call[u].lines]
      /\ Leave(u)
      /\ UNCHANGED booked

(* matchItem and unmatch, in any status.  An item matched with a line of   *)
(* the books becomes that line's item, whichever it was and whether or not *)
(* the line has one: two items of a line in the same state count as one.   *)
MatchItem(r, i, j) ==
  /\ i \in item[r].open \cup item[r].matched
  /\ j = i \/ j \in BankLines
  /\ item' = [item EXCEPT ![r].open = @ \ {i}, ![r].matched = (@ \ {i}) \cup {j}]
  /\ UNCHANGED <<reco, booked, call>>

Unmatch(r, i) ==
  /\ i \in item[r].matched
  /\ item' = [item EXCEPT ![r].open = @ \cup {i}, ![r].matched = @ \ {i}]
  /\ UNCHANGED <<reco, booked, call>>

AtWork(r) == reco[r] = "in_progress"

StartAdjustment(u, r, a) ==
  /\ AtWork(r)
  /\ a \notin item[r].open \cup item[r].matched
  /\ Enter(u, [op |-> "adjust", doc |-> r, read |-> reco[r], adjustment |-> a])
  /\ UNCHANGED bankTables

FinishAdjustment(u) ==
  /\ call[u].op = "adjust"
  /\ item' = [item EXCEPT ![call[u].doc].open = @ \cup {call[u].adjustment}]
  /\ Leave(u)
  /\ UNCHANGED <<reco, booked>>

-----------------------------------------------------------------------------
(* The items are read before the transaction ... *)
StartCompletion(u, r) ==
  /\ AtWork(r)
  /\ Enter(u, [op |-> "complete", doc |-> r, read |-> reco[r], open |-> item[r].open \cap Adjustments])
  /\ UNCHANGED bankTables

(* ... in which those not matched are posted, as one entry, and the row is *)
(* written whatever its status.                                            *)
FinishCompletion(u) ==
  LET c == call[u]
  IN  /\ c.op = "complete"
      /\ Len(booked[c.doc]) < MaxPosted
      /\ reco' = [reco EXCEPT ![c.doc] = "completed"]
      /\ booked' = IF c.open = {} THEN booked ELSE [booked EXCEPT ![c.doc] = Append(@, c.open)]
      /\ Leave(u)
      /\ UNCHANGED item

BankFails(u) == Fails(u) /\ UNCHANGED bankTables

BankNext ==
  \/ \E r \in Recos, i \in Items :
       \/ Unmatch(r, i)
       \/ \E j \in Items : MatchItem(r, i, j)
  \/ \E u \in Users, r \in Recos :
       \/ StartReco(u, r) \/ StartCompletion(u, r)
       \/ \E a \in Adjustments : StartAdjustment(u, r, a)
  \/ \E u \in Users : FinishReco(u) \/ FinishAdjustment(u) \/ FinishCompletion(u) \/ BankFails(u)

BankSpec == BankInit /\ [][BankNext]_bankVars

-----------------------------------------------------------------------------
BankTypeOK ==
  /\ reco \in [Recos -> RecoStatus]
  /\ item \in [Recos -> ItemRow]
  /\ booked \in [Recos -> Seq(SUBSET Adjustments)]
  /\ \A r \in Recos : Len(booked[r]) <= MaxPosted
  /\ call \in [Users -> BankCall \cup {NoCall}]

(* A reconciliation that is completed posts nothing more and gets no other *)
(* adjustment: only a call that had read it in progress still does that.   *)
RecoSealed ==
  [][\A r \in Recos :
       reco[r] = "completed" /\ Fresh(r, "completed")
         => /\ reco'[r] = "completed" /\ booked'[r] = booked[r]
            /\ (item'[r].open \cup item'[r].matched) \cap Adjustments
                 \subseteq item[r].open \cup item[r].matched]_bankVars
=============================================================================
