--------------------------------- MODULE Trials ---------------------------------
(***************************************************************************)
(* The status of a tenant's subscription: trial.service.ts,                *)
(* trial-expiry.processor.ts and expiry-watcher.processor.ts of            *)
(* platform/licensing, setStatus and extendTrial of                        *)
(* admin-licensing.service.ts.                                             *)
(*                                                                         *)
(* The daily jobs claim a row of a log before they act, so that a day's    *)
(* second run does nothing; the others write what follows from their       *)
(* reading of the row.                                                     *)
(***************************************************************************)
EXTENDS Requests

CONSTANTS
  Grace,     \* days of grace
  LastDay    \* bound: days that pass

ASSUME TrialsAssumption == Grace \in Nat /\ LastDay \in Nat \ {0}

VARIABLES
  today,
  trial,     \* subscriptions: status, trialEndsAt, gracePeriodEndsAt (0 is NULL), currentPeriodEndAt
  claimed,   \* license_reminder_log
  notices    \* how often the notice of each threshold went out

trialsTables == <<today, trial, claimed, notices>>
trialsVars == <<trialsTables, call>>

(* TRIAL_TO_GRACE and GRACE_TO_EXPIRED, and one of the reminders. *)
Thresholds == {"grace", "expired", "reminder"}

TrialRow == [status : {"trial", "grace", "active", "suspended", "expired"},
             ends : Nat, graceEnds : Nat]

TrialsCall ==
  [op : {"scan", "claimed"}, due : Thresholds]
  \cup [op : {"extend", "admin extend", "convert"}, read : TrialRow]

(* startTrial *)
TrialsInit ==
  /\ today = 1
  /\ trial = [status |-> "trial", ends |-> 2, graceEnds |-> 2 + Grace]
  /\ claimed = {}
  /\ notices = [t \in Thresholds |-> 0]
  /\ CallsInit

NextDay ==
  /\ today < LastDay
  /\ today' = today + 1
  /\ UNCHANGED <<trial, claimed, notices, call>>

-----------------------------------------------------------------------------
(* setStatus writes the other status over any. *)
SetStatus(status) ==
  /\ trial.status # status
  /\ trial' = [trial EXCEPT !.status = status]
  /\ UNCHANGED <<today, claimed, notices, call>>

(* issue and renew make it active; renew ends the grace. *)
MakeActive(graceEnds) ==
  /\ trial' = [trial EXCEPT !.status = "active", !.graceEnds = graceEnds]
  /\ UNCHANGED <<today, claimed, notices, call>>

(* extendTrial and convertTrialToPaid take a trial or a grace period, the  *)
(* administrator's extendTrial a subscription of any status.               *)
StartTrialStep(u) ==
  /\ \E op \in {"extend", "admin extend", "convert"} :
       /\ op # "admin extend" => trial.status \in {"trial", "grace"}
       /\ op = "extend" => trial.graceEnds > 0
       /\ Enter(u, [op |-> op, read |-> trial])
  /\ UNCHANGED trialsTables

ExtendTrial(u) ==
  LET read == call[u].read
  IN  /\ call[u].op = "extend" /\ read.ends < LastDay
      /\ trial' = [status |-> "trial", ends |-> read.ends + 1, graceEnds |-> read.graceEnds + 1]
      /\ Leave(u)
      /\ UNCHANGED <<today, claimed, notices>>

(* The administrator's leaves the grace as it is, and puts the status back *)
(* that it read.                                                           *)
AdminExtendTrial(u) ==
  LET read == call[u].read
  IN  /\ call[u].op = "admin extend" /\ read.ends < LastDay
      /\ trial' = [trial EXCEPT !.status = IF read.status = "expired" THEN "trial" ELSE read.status,
                                !.ends = read.ends + 1]
      /\ Leave(u)
      /\ UNCHANGED <<today, claimed, notices>>

ConvertTrial(u) ==
  /\ call[u].op = "convert"
  /\ trial' = [trial EXCEPT !.status = "active"]
  /\ Leave(u)
  /\ UNCHANGED <<today, claimed, notices>>

-----------------------------------------------------------------------------

(* What the daily jobs look for.  Each of their queries is a scan of its   *)
(* own here.  The reminder is that of a trial or of a period that ends.    *)
Due(t) ==
  \/ t = "grace" /\ trial.status = "trial" /\ trial.ends <= today
  \/ t = "expired" /\ trial.status = "grace" /\ trial.graceEnds \in 1..today
  \/ t = "reminder" /\ trial.status \in {"trial", "active", "grace"} /\ trial.ends > today

StartScan(u, t) ==
  /\ Due(t)
  /\ Enter(u, [op |-> "scan", due |-> t])
  /\ UNCHANGED trialsTables

(* claimLogRow: the unique index lets one job have the threshold, ever.    *)
(* The others leave.                                                       *)
Claim(u) ==
  LET c == call[u]
  IN  /\ c.op = "scan"
      /\ c.due \notin claimed
      /\ claimed' = claimed \cup {c.due}
      /\ Proceed(u, [c EXCEPT !.op = "claimed"])
      /\ UNCHANGED <<today, trial, notices>>

(* The status is written whatever it has become, and the notice sent. *)
FinishScan(u) ==
  LET t == call[u].due
  IN  /\ call[u].op = "claimed"
      /\ trial' = IF t = "reminder" THEN trial ELSE [trial EXCEPT !.status = t]
      /\ notices' = [notices EXCEPT ![t] = @ + 1]
      /\ Leave(u)
      /\ UNCHANGED <<today, claimed>>

TrialsFails(u) == Fails(u) /\ UNCHANGED trialsTables

TrialsNext ==
  \/ NextDay
  \/ \E status \in {"active", "suspended"} : SetStatus(status)
  \/ \E graceEnds \in {0, trial.graceEnds} : MakeActive(graceEnds)
  \/ \E u \in Users, t \in Thresholds : StartScan(u, t)
  \/ \E u \in Users :
       \/ StartTrialStep(u) \/ ExtendTrial(u) \/ AdminExtendTrial(u) \/ ConvertTrial(u)
       \/ Claim(u) \/ FinishScan(u) \/ TrialsFails(u)

TrialsSpec == TrialsInit /\ [][TrialsNext]_trialsVars

-----------------------------------------------------------------------------
TrialsTypeOK ==
  /\ today \in 1..LastDay
  /\ trial \in TrialRow
  /\ claimed \subseteq Thresholds
  /\ notices \in [Thresholds -> Nat]
  /\ call \in [Users -> TrialsCall \cup {NoCall}]

(* A notice goes out once, however often the jobs run, overlap, stop       *)
(* between the claim and the sending, and whatever happens to the          *)
(* subscription in between.                                                *)
NoticeOnce == \A t \in Thresholds : notices[t] <= IF t \in claimed THEN 1 ELSE 0

(* No tenant expires without the grace that was promised: the jobs have    *)
(* put its trial in grace before, whoever writes the status meanwhile.     *)
ExpiredAfterGrace ==
  /\ trial.status = "grace" => "grace" \in claimed
  /\ trial.status = "expired" => {"grace", "expired"} \subseteq claimed
=============================================================================
