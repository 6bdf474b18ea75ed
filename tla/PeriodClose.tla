------------------------------ MODULE PeriodClose ------------------------------
(***************************************************************************)
(* The accounting period and its closing workflow,                         *)
(* apps/api/src/modules/finance/period/period-close.service.ts.  A period  *)
(* is open, soft-closed or hard-closed.  close and reopen read the period, *)
(* decide, and write its new status in a later statement, with no          *)
(* transaction and no condition on what the status has become.             *)
(***************************************************************************)
EXTENDS Naturals

CONSTANTS
  Users,     \* callers of the closing workflow
  Periods,   \* accounting periods: one per year and month
  Steps      \* the close steps the callers ask for

ASSUME PeriodAssumption == Steps \subseteq 1..7

VARIABLES
  period,    \* period[pd]: its status, "none" before it is created
  expired,   \* expired[pd]: was it soft-closed more than 30 days ago?
  call       \* call[u]: the call user u has in progress

periodVars == <<period, expired, call>>

Status == {"none", "open", "soft_closed", "hard_closed"}

Call == [op : {"idle"}]
        \cup [op : {"start", "reopen"}, pd : Periods]
        \cup [op : {"close"}, pd : Periods, step : Steps]
NoCall == [op |-> "idle"]

PeriodInit ==
  /\ period = [pd \in Periods |-> "none"]
  /\ expired = [pd \in Periods |-> FALSE]
  /\ call = [u \in Users |-> NoCall]

-----------------------------------------------------------------------------
Enter(u, c) ==
  /\ call[u] = NoCall
  /\ call' = [call EXCEPT ![u] = c]
  /\ UNCHANGED <<period, expired>>

Leave(u) == call' = [call EXCEPT ![u] = NoCall]

(* startClose finds no period of the month and goes on to create it. *)
StartClose(u, pd) == period[pd] = "none" /\ Enter(u, [op |-> "start", pd |-> pd])

(* The INSERT, or its failure on the unique (companyId, year, month). *)
CreatePeriod(u) ==
  /\ call[u].op = "start"
  /\ period' = [period EXCEPT ![call[u].pd] = IF @ = "none" THEN "open" ELSE @]
  /\ Leave(u)
  /\ UNCHANGED expired

(* Mutant: a hard-closed period goes through the steps again. *)
Close_AnyStatus(u, pd, n) ==
  /\ period[pd] # "none"
  /\ Enter(u, [op |-> "close", pd |-> pd, step |-> n])

(* close reads the period and checks what its step asks for.  The count of *)
(* drafts of step 1 may stop it at any time.                               *)
Close(u, pd, n) ==
  /\ period[pd] \in {"open", "soft_closed"}
  /\ n = 7 => period[pd] = "soft_closed"
  /\ Enter(u, [op |-> "close", pd |-> pd, step |-> n])

(* The write of the step, if it has one, and its audit record. *)
FinishClose(u) ==
  LET pd == call[u].pd
      n == call[u].step
  IN  /\ call[u].op = "close"
      /\ period' = [period EXCEPT ![pd] = CASE n = 5 -> "soft_closed"
                                            [] n = 7 -> "hard_closed"
                                            [] OTHER -> @]
      /\ expired' = IF n = 5 THEN [expired EXCEPT ![pd] = FALSE] ELSE expired
      /\ Leave(u)

(* reopen, by a super_admin, of a period soft-closed at most 30 days ago. *)
Reopen(u, pd) ==
  /\ period[pd] = "soft_closed"
  /\ ~expired[pd]
  /\ Enter(u, [op |-> "reopen", pd |-> pd])

(* The write of reopen: the period is open again and closedAt null. *)
FinishReopen(u) ==
  /\ call[u].op = "reopen"
  /\ period' = [period EXCEPT ![call[u].pd] = "open"]
  /\ expired' = [expired EXCEPT ![call[u].pd] = FALSE]
  /\ Leave(u)

(* The process dies between the read and the write. *)
DropCall(u) ==
  /\ call[u] # NoCall
  /\ Leave(u)
  /\ UNCHANGED <<period, expired>>

(* Thirty days pass after the soft close. *)
Expire(pd) ==
  /\ period[pd] = "soft_closed"
  /\ ~expired[pd]
  /\ expired' = [expired EXCEPT ![pd] = TRUE]
  /\ UNCHANGED <<period, call>>

PeriodNext ==
  \/ \E u \in Users, pd \in Periods :
       StartClose(u, pd) \/ Reopen(u, pd) \/ \E n \in Steps : Close(u, pd, n)
  \/ \E u \in Users : CreatePeriod(u) \/ FinishClose(u) \/ FinishReopen(u) \/ DropCall(u)
  \/ \E pd \in Periods : Expire(pd)

PeriodSpec == PeriodInit /\ [][PeriodNext]_periodVars

-----------------------------------------------------------------------------
(* Periods and calls keep their types; only a closed period has a date of  *)
(* its soft close that can grow old.                                       *)
PeriodTypeOK ==
  /\ period \in [Periods -> Status]
  /\ expired \in [Periods -> BOOLEAN]
  /\ call \in [Users -> Call]
  /\ \A pd \in Periods : expired[pd] => period[pd] \in {"soft_closed", "hard_closed"}
=============================================================================
