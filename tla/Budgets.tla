-------------------------------- MODULE Budgets --------------------------------
(***************************************************************************)
(* Yearly budgets: budget.service.ts.  Activating one closes the one that  *)
(* was active; a partial unique index lets one be active in a year.        *)
(***************************************************************************)
EXTENDS Requests

CONSTANTS
  BudgetIds,      \* of one fiscal year, whose periods exist
  MaxEdits        \* bound on the times the lines of a budget are replaced

ASSUME BudgetsAssumption == MaxEdits \in Nat \ {0}

VARIABLE budget   \* budgets; lines: which version of its lines it has, 0 for none

budgetsTables == <<budget>>
budgetsVars == <<budgetsTables, call>>

BudgetStatus == {"none", "draft", "active", "closed"}
Budget == [status : BudgetStatus, lines : 0..MaxEdits]
NoBudget == [status |-> "none", lines |-> 0]

BudgetOps == {"update", "activate", "close"}
BudgetCall ==
  [op : BudgetOps, doc : BudgetIds, read : BudgetStatus]
  \cup [op : {"activating"}, doc : BudgetIds, read : BudgetStatus, others : SUBSET BudgetIds]

BudgetsInit ==
  /\ budget = [b \in BudgetIds |-> NoBudget]
  /\ CallsInit

CreateBudget(b, n) ==
  /\ budget[b].status = "none"
  /\ budget' = [budget EXCEPT ![b] = [status |-> "draft", lines |-> n]]
  /\ UNCHANGED call

BudgetStepFrom(op) ==
  CASE op = "update"   -> {"draft"}
    [] op = "activate" -> {"draft"}
    [] op = "close"    -> {"draft", "active"}

(* activate returns early for an active budget, close for a closed one. *)
StartBudgetStep(u, b, op) ==
  /\ budget[b].status \in BudgetStepFrom(op)
  /\ op = "activate" => budget[b].lines > 0
  /\ Enter(u, [op |-> op, doc |-> b, read |-> budget[b].status])
  /\ UNCHANGED budgetsTables

(* The lines are deleted and created anew, in one transaction. *)
FinishUpdateBudget(u) ==
  LET b == call[u].doc
  IN  /\ call[u].op = "update"
      /\ \/ budget[b].lines < MaxEdits /\ budget' = [budget EXCEPT ![b].lines = @ + 1]
         \/ budget' = [budget EXCEPT ![b].lines = 0]
      /\ Leave(u)

FinishCloseBudget(u) ==
  /\ call[u].op = "close"
  /\ budget' = [budget EXCEPT ![call[u].doc].status = "closed"]
  /\ Leave(u)

ActiveOthers(b) == {o \in BudgetIds \ {b} : budget[o].status = "active"}

FindActive(u) ==
  LET c == call[u]
  IN  /\ c.op = "activate"
      /\ Proceed(u, [op |-> "activating", doc |-> c.doc, read |-> c.read,
                     others |-> ActiveOthers(c.doc)])
      /\ UNCHANGED budgetsTables

(* It closes the one it had found; the index refuses it another. *)
FinishActivate(u) ==
  LET c == call[u]
  IN  /\ c.op = "activating"
      /\ ActiveOthers(c.doc) \subseteq c.others
      /\ budget' = [b \in BudgetIds |-> IF b = c.doc THEN [budget[b] EXCEPT !.status = "active"]
                                        ELSE IF b \in c.others THEN [budget[b] EXCEPT !.status = "closed"]
                                        ELSE budget[b]]
      /\ Leave(u)

BudgetFails(u) == Fails(u) /\ UNCHANGED budgetsTables

BudgetsNext ==
  \/ \E b \in BudgetIds, n \in {0, 1} : CreateBudget(b, n)
  \/ \E u \in Users, b \in BudgetIds, op \in BudgetOps : StartBudgetStep(u, b, op)
  \/ \E u \in Users :
       \/ FinishUpdateBudget(u) \/ FinishCloseBudget(u)
       \/ FindActive(u) \/ FinishActivate(u) \/ BudgetFails(u)

BudgetsSpec == BudgetsInit /\ [][BudgetsNext]_budgetsVars

-----------------------------------------------------------------------------
BudgetsTypeOK ==
  /\ budget \in [BudgetIds -> Budget]
  /\ call \in [Users -> BudgetCall \cup {NoCall}]

(* One budget is active in a year, whatever two activations that overlap   *)
(* have found.                                                             *)
OneActivePerYear ==
  \A a, b \in BudgetIds : budget[a].status = "active" /\ budget[b].status = "active" => a = b

(* A closed budget keeps its status and its lines, an active one its       *)
(* lines: only a call that had read an earlier status changes them.        *)
BudgetSealed ==
  [][\A b \in BudgetIds :
       budget[b].status \in {"active", "closed"} /\ Fresh(b, budget[b].status)
         => /\ budget'[b].lines = budget[b].lines
            /\ budget[b].status = "closed" => budget'[b].status = "closed"]_budgetsVars
=============================================================================
