------------------------------- MODULE PlanChange -------------------------------
(***************************************************************************)
(* A subscription moved to another plan within its period:                 *)
(* platform/licensing/plan-change.service.ts.  The rest of the period is   *)
(* refunded at the old plan's monthly price and charged at the new one's.  *)
(***************************************************************************)
EXTENDS Requests

CONSTANTS
  Plans,
  MonthlyPrice,   \* of a plan
  PeriodDays,     \* of the subscription's period
  MaxCharges      \* bound on the plan changes recorded

ASSUME PlanChangeAssumption ==
  /\ Plans # {} /\ IsFiniteSet(Plans) /\ MonthlyPrice \in [Plans -> Nat]
  /\ PeriodDays \in Nat \ {0} /\ MaxCharges \in Nat

VARIABLES
  plan,           \* subscriptions.planId
  status,         \* subscriptions.status
  charged          \* license_events: the change recorded, and its prorated charge

planChangeTables == <<plan, status, charged>>
planChangeVars == <<planChangeTables, call>>

Changeable == {"active", "trial", "grace"}
PlanStatus == Changeable \cup {"expired"}
Largest == CHOOSE n \in {MonthlyPrice[p] : p \in Plans} : \A p \in Plans : MonthlyPrice[p] <= n
Net == -Largest..Largest
Charge == [id : 1..MaxCharges, from : Plans, to : Plans, on : 0..PeriodDays, net : Net]
PlanCall == [op : {"changePlan"}, doc : {"subscription"}, read : Plans, to : Plans, on : 0..PeriodDays]

PlanChangeInit ==
  /\ plan = CHOOSE p \in Plans : TRUE
  /\ status = "trial"
  /\ charged = {}
  /\ CallsInit

(* The plan's price for the days that remain, rounded half up. *)
Prorated(p, day) ==
  (2 * MonthlyPrice[p] * (PeriodDays - day) + PeriodDays) \div (2 * PeriodDays)

(* The effective date is the caller's, clamped to the period. *)
StartChangePlan(u, p, day) ==
  /\ status \in Changeable
  /\ p # plan
  /\ Enter(u, [op |-> "changePlan", doc |-> "subscription", read |-> plan, to |-> p, on |-> day])
  /\ UNCHANGED planChangeTables

(* Mutant: the charge is for the new plan alone. *)
NetDelta_NoRefund(c) == Prorated(c.to, c.on)

NetDelta(c) == Prorated(c.to, c.on) - Prorated(c.read, c.on)

(* The plan and the two events, in one transaction. *)
FinishChangePlan(u) ==
  LET c == call[u]
  IN  /\ c.op = "changePlan"
      /\ Cardinality(charged) < MaxCharges
      /\ plan' = c.to
      /\ charged' = charged \cup {[id |-> Cardinality(charged) + 1, from |-> c.read, to |-> c.to,
                                 on |-> c.on, net |-> NetDelta(c)]}
      /\ Leave(u)
      /\ UNCHANGED status

(* Other services of the licence move its status. *)
StatusMoves(s) ==
  /\ status' = s
  /\ UNCHANGED <<plan, charged, call>>

PlanChangeFails(u) == Fails(u) /\ UNCHANGED planChangeTables

PlanChangeNext ==
  \/ \E u \in Users :
       \/ \E p \in Plans, day \in 0..PeriodDays : StartChangePlan(u, p, day)
       \/ FinishChangePlan(u) \/ PlanChangeFails(u)
  \/ \E s \in PlanStatus \ {status} : StatusMoves(s)

PlanChangeSpec == PlanChangeInit /\ [][PlanChangeNext]_planChangeVars

-----------------------------------------------------------------------------
PlanChangeTypeOK ==
  /\ plan \in Plans /\ status \in PlanStatus
  /\ charged \subseteq Charge
  /\ call \in [Users -> PlanCall \cup {NoCall}]

(* Changes of one day that follow one another charge, all together, the     *)
(* difference of the first and the last plan: going there and back on a    *)
(* day costs nothing, however the amounts are rounded.                     *)
ThereAndBackIsFree ==
  \A e, f \in charged :
    e.on = f.on /\ f.from = e.to /\ f.to = e.from => e.net + f.net = 0
=============================================================================
