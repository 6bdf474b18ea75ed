---------------------------- MODULE HumanResources ----------------------------
(***************************************************************************)
(* Leave, attendance and pay of an employee: leaves.service.ts,            *)
(* attendance.service.ts and payroll.service.ts of                         *)
(* apps/api/src/modules/hr.                                                *)
(*                                                                         *)
(* The three meet in attendance_records: attendance writes the days, a     *)
(* leave marks them, a payroll run counts them.  A handler reads a row and *)
(* later writes it by its id; the transactions of approve and cancel of a  *)
(* leave write the row of the request first, which makes the second of two *)
(* wait, and then the days.                                                *)
(***************************************************************************)
EXTENDS Requests

CONSTANTS
  Days,
  LeaveRequests,
  LeaveDays,    \* the days a request asks for, of a type with an entitlement
  Entitled,     \* the days of that type in the year
  Runs,         \* payroll runs: the only one of a company, branch and month
  NoRequest,
  MaxEntries    \* bound: the entries posted for a run

ASSUME HumanResourcesAssumption ==
  /\ LeaveDays \in [LeaveRequests -> SUBSET Days]
  /\ Entitled \in Nat /\ MaxEntries \in Nat /\ NoRequest \notin LeaveRequests

VARIABLES
  leave,   \* leave_requests
  day,     \* attendance_records
  run,     \* payroll_runs; deducts: a line deducts an absence; entries: the entries posted
  started  \* the days that have begun

hrTables == <<leave, day, run, started>>
hrVars == <<hrTables, call>>

DayRow == [exists : BOOLEAN, checkedIn : BOOLEAN, absent : BOOLEAN,
           leaveOf : LeaveRequests \cup {NoRequest}]
RunRow == [status : {"none", "calculated", "reviewed", "approved", "posted", "paid", "draft"},
           deducts : BOOLEAN, entries : 0..MaxEntries]

HrCall ==
  [op : {"request", "approveLeave", "rejectLeave", "cancelLeave"}, doc : LeaveRequests]
  \cup [op : {"checkIn", "manual", "absent"}, doc : Days, found : BOOLEAN]
  \cup [op : {"create", "review", "approve", "post", "pay", "reverse"}, doc : Runs,
        read : {"none", "calculated", "reviewed", "approved", "posted", "paid", "draft"}]

HrInit ==
  /\ leave = [r \in LeaveRequests |-> "none"]
  /\ day = [d \in Days |-> [exists |-> FALSE, checkedIn |-> FALSE, absent |-> FALSE,
                            leaveOf |-> NoRequest]]
  /\ run = [p \in Runs |-> [status |-> "none", deducts |-> FALSE, entries |-> 0]]
  /\ started = {}
  /\ CallsInit

DayBegins(d) ==
  /\ d \notin started
  /\ started' = started \cup {d}
  /\ UNCHANGED <<leave, day, run, call>>

-----------------------------------------------------------------------------
(* request finds the balance: the entitlement less the days approved.      *)
Used == UNION {LeaveDays[r] : r \in {q \in LeaveRequests : leave[q] = "approved"}}

(* request, approve, reject and cancel of a leave. *)
StartLeaveStep(u, r) ==
  /\ \E op \in {"request", "approveLeave", "rejectLeave", "cancelLeave"} :
       /\ CASE op = "request" -> /\ leave[r] = "none"
                                 /\ Cardinality(LeaveDays[r]) <= Entitled - Cardinality(Used)
            [] op = "cancelLeave" -> leave[r] = "approved" /\ LeaveDays[r] \cap started = {}
            [] OTHER -> leave[r] = "submitted"
       /\ Enter(u, [op |-> op, doc |-> r])
  /\ UNCHANGED hrTables

FinishLeaveAnswer(u) ==
  /\ call[u].op \in {"request", "rejectLeave"}
  /\ call[u].op = "request" => leave[call[u].doc] = "none"
  /\ leave' = [leave EXCEPT ![call[u].doc] =
                 IF call[u].op = "request" THEN "submitted" ELSE "rejected"]
  /\ Leave(u)
  /\ UNCHANGED <<day, run, started>>

(* approve makes every day of the request one of leave, its record created *)
(* or written over.                                                        *)
ApproveLeave(u) ==
  LET r == call[u].doc
  IN  /\ call[u].op = "approveLeave"
      /\ leave' = [leave EXCEPT ![r] = "approved"]
      /\ day' = [d \in Days |-> IF d \in LeaveDays[r]
                                  THEN [day[d] EXCEPT !.exists = TRUE, !.absent = FALSE,
                                                      !.leaveOf = r]
                                  ELSE day[d]]
      /\ Leave(u)
      /\ UNCHANGED <<run, started>>

(* Mutant: only the days not worked are taken back. *)
CancelLeave_KeepsWorked(u) ==
  LET r == call[u].doc
  IN  /\ call[u].op = "cancelLeave"
      /\ leave' = [leave EXCEPT ![r] = "cancelled"]
      /\ day' = [d \in Days |-> IF day[d].leaveOf = r /\ ~day[d].checkedIn
                                  THEN [day[d] EXCEPT !.leaveOf = NoRequest] ELSE day[d]]
      /\ Leave(u)
      /\ UNCHANGED <<run, started>>

(* cancel takes back the days that carry the request by then. *)
CancelLeave(u) ==
  LET r == call[u].doc
  IN  /\ call[u].op = "cancelLeave"
      /\ leave' = [leave EXCEPT ![r] = "cancelled"]
      /\ day' = [d \in Days |-> IF day[d].leaveOf = r
                                  THEN [day[d] EXCEPT !.leaveOf = NoRequest] ELSE day[d]]
      /\ Leave(u)
      /\ UNCHANGED <<run, started>>

-----------------------------------------------------------------------------
(* recordCheckIn (today, once), manualEntry and markAbsent look for the    *)
(* record of the day; syncFromZkTeco does as recordCheckIn.  A check-out   *)
(* writes the hours.                                                       *)
StartAttendance(u, d) ==
  /\ \E op \in {"checkIn", "manual", "absent"} :
       /\ op = "checkIn" => d \in started /\ ~day[d].checkedIn
       /\ Enter(u, [op |-> op, doc |-> d, found |-> day[d].exists])
  /\ UNCHANGED hrTables

(* They write the record found or create one, which the unique index on    *)
(* employee and date refuses when there is one by now.                     *)
FinishAttendance(u) ==
  LET d == call[u].doc
      op == call[u].op
  IN  /\ op \in {"checkIn", "manual", "absent"}
      /\ call[u].found \/ ~day[d].exists
      /\ day' = [day EXCEPT
                   ![d].exists = TRUE,
                   ![d].checkedIn = @ \/ op # "absent",
                   ![d].absent = CASE op = "absent" -> TRUE [] op = "manual" -> FALSE [] OTHER -> @]
      /\ Leave(u)
      /\ UNCHANGED <<leave, run, started>>

-----------------------------------------------------------------------------

(* createRun, review, approve, post, markPaid and reverse of a run. *)
StartRunStep(u, p) ==
  /\ \E op \in {"create", "review", "approve", "post", "pay", "reverse"} :
       /\ run[p].status \in CASE op = "create"  -> {"none", "draft"}
                              [] op = "review"  -> {"calculated"}
                              [] op = "approve" -> {"reviewed"}
                              [] op = "post"    -> {"approved"}
                              [] op = "pay"     -> {"posted"}
                              [] op = "reverse" -> {"posted", "approved", "reviewed", "calculated"}
       /\ Enter(u, [op |-> op, doc |-> p, read |-> run[p].status])
  /\ UNCHANGED hrTables

(* createRun inserts the run, once per company, month and branch, and      *)
(* counts the days absent.                                                 *)
CreateRun(u) ==
  /\ call[u].op = "create"
  /\ run[call[u].doc].status = "none"
  /\ run' = [run EXCEPT ![call[u].doc].status = "calculated",
                        ![call[u].doc].deducts = \E d \in Days : day[d].exists /\ day[d].absent]
  /\ Leave(u)
  /\ UNCHANGED <<leave, day, started>>

(* Each writes its status whatever it has become.  The entry that post     *)
(* needs has the gross pay on one side, and the net pay, tax and social    *)
(* security on the other: with a day's pay deducted it is unbalanced and   *)
(* refused.  reverse leaves the entry in the ledger.                       *)
FinishRunStep(u) ==
  LET p == call[u].doc
      op == call[u].op
  IN  /\ op \in {"review", "approve", "post", "pay", "reverse"}
      /\ op = "post" => ~run[p].deducts /\ run[p].entries < MaxEntries
      /\ run' = [run EXCEPT
                   ![p].status = CASE op = "review" -> "reviewed" [] op = "approve" -> "approved"
                                   [] op = "post" -> "posted" [] op = "pay" -> "paid"
                                   [] op = "reverse" -> "draft",
                   ![p].entries = IF op = "post" THEN @ + 1 ELSE @]
      /\ Leave(u)
      /\ UNCHANGED <<leave, day, started>>

HrFails(u) == Fails(u) /\ UNCHANGED hrTables

HrNext ==
  \/ \E d \in Days : DayBegins(d) \/ \E u \in Users : StartAttendance(u, d)
  \/ \E u \in Users, r \in LeaveRequests : StartLeaveStep(u, r)
  \/ \E u \in Users, p \in Runs : StartRunStep(u, p)
  \/ \E u \in Users :
       \/ FinishLeaveAnswer(u) \/ ApproveLeave(u) \/ CancelLeave(u) \/ FinishAttendance(u)
       \/ CreateRun(u) \/ FinishRunStep(u) \/ HrFails(u)

HrSpec == HrInit /\ [][HrNext]_hrVars

-----------------------------------------------------------------------------
HrTypeOK ==
  /\ leave \in [LeaveRequests -> {"none", "submitted", "approved", "rejected", "cancelled"}]
  /\ day \in [Days -> DayRow]
  /\ run \in [Runs -> RunRow]
  /\ started \subseteq Days
  /\ call \in [Users -> HrCall \cup {NoCall}]

(* A cancelled leave holds no day, and none is held before its approval:   *)
(* however approve, reject, cancel and attendance overlap, a payroll run   *)
(* never takes a day for one of cancelled leave.                           *)
CancelledHoldsNoDay ==
  \A d \in Days : day[d].leaveOf # NoRequest => leave[day[d].leaveOf] \in {"approved", "rejected"}

(* Every payment of a run has its entry in the ledger: no run is paid that *)
(* was never posted, whatever overlaps, and only a call that had read it   *)
(* before can overwrite a paid or reversed run.                            *)
RunSealed ==
  [][\A p \in Runs :
       /\ run'[p].status = "paid" => run'[p].entries > 0
       /\ /\ run[p].status \in {"paid", "draft"}
          /\ Fresh(p, run[p].status)
          => run'[p] = run[p]]_hrVars
=============================================================================
