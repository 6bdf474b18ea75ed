--------------------------------- MODULE Hiring ---------------------------------
(***************************************************************************)
(* From the application to the contract: hr/recruitment                    *)
(* /recruitment.service.ts, application-state-machine.ts and               *)
(* hr/contracts/contracts.service.ts.  An interview and an offer are       *)
(* written in one statement, the application's status in another.          *)
(***************************************************************************)
EXTENDS Requests

CONSTANTS
  Applications,
  Rounds,
  Contracts,      \* with an end date within thirty days
  MaxNotices      \* bound on the renewal notices sent for a contract

ASSUME HiringAssumption == MaxNotices \in Nat

VARIABLES
  application,    \* applications; the rounds of interview_stages; offer_letters
  contract        \* employment_contracts; sent: the renewal notices

hiringTables == <<application, contract>>
hiringVars == <<hiringTables, call>>

AppStatus == {"none", "new", "screened", "interview", "offer", "hired", "rejected"}
Application == [status : AppStatus, rounds : SUBSET Rounds, offer : {"none", "draft", "sent"}]
Contract == [status : {"none", "draft", "active"}, notified : BOOLEAN, sent : 0..MaxNotices]

HiringCall ==
  [op : {"transition"}, doc : Applications, read : AppStatus, to : AppStatus]
  \cup [op : {"schedule", "scheduled"}, doc : Applications, read : AppStatus, round : Rounds]
  \cup [op : {"createOffer", "offered", "sendOffer"}, doc : Applications, read : AppStatus]
  \cup [op : {"sweep", "swept"}, doc : Contracts, read : {"active"}]

HiringInit ==
  /\ application = [a \in Applications |-> [status |-> "none", rounds |-> {}, offer |-> "none"]]
  /\ contract = [c \in Contracts |-> [status |-> "none", notified |-> FALSE, sent |-> 0]]
  /\ CallsInit

(* submitApplication: the score decides which of the two it starts as. *)
Submit(a, s) ==
  /\ application[a].status = "none"
  /\ application' = [application EXCEPT ![a].status = s]
  /\ UNCHANGED <<contract, call>>

Allowed(from) ==
  CASE from = "new"       -> {"screened", "rejected"}
    [] from = "screened"  -> {"interview", "rejected"}
    [] from = "interview" -> {"offer", "rejected"}
    [] from = "offer"     -> {"hired", "rejected"}
    [] OTHER              -> {}

StartStatusChange(u, a, to) ==
  /\ to \in Allowed(application[a].status)
  /\ Enter(u, [op |-> "transition", doc |-> a, read |-> application[a].status, to |-> to])
  /\ UNCHANGED hiringTables

FinishStatusChange(u) ==
  /\ call[u].op = "transition"
  /\ application' = [application EXCEPT ![call[u].doc].status = call[u].to]
  /\ Leave(u)
  /\ UNCHANGED contract

StartSchedule(u, a, k) ==
  /\ application[a].status \in {"interview", "screened"}
  /\ Enter(u, [op |-> "schedule", doc |-> a, read |-> application[a].status, round |-> k])
  /\ UNCHANGED hiringTables

(* A round is created once: the query for it, and the unique index. *)
CreateStage(u) ==
  LET c == call[u]
  IN  /\ c.op = "schedule"
      /\ c.round \notin application[c.doc].rounds
      /\ application' = [application EXCEPT ![c.doc].rounds = @ \cup {c.round}]
      /\ IF c.read = "screened" THEN Proceed(u, [c EXCEPT !.op = "scheduled"]) ELSE Leave(u)
      /\ UNCHANGED contract

StartOffer(u, a) ==
  /\ application[a].status \in {"interview", "offer"}
  /\ application[a].offer = "none"
  /\ Enter(u, [op |-> "createOffer", doc |-> a, read |-> application[a].status])
  /\ UNCHANGED hiringTables

(* One letter for an application, by the unique index. *)
CreateLetter(u) ==
  LET c == call[u]
  IN  /\ c.op = "createOffer"
      /\ application[c.doc].offer = "none"
      /\ application' = [application EXCEPT ![c.doc].offer = "draft"]
      /\ IF c.read = "interview" THEN Proceed(u, [c EXCEPT !.op = "offered"]) ELSE Leave(u)
      /\ UNCHANGED contract

(* The second statement of scheduleInterview and of createOffer. *)
Advance(u) ==
  LET to == IF call[u].op = "scheduled" THEN "interview" ELSE "offer"
  IN  /\ call[u].op \in {"scheduled", "offered"}
      /\ application' = [application EXCEPT ![call[u].doc].status = to]
      /\ Leave(u)
      /\ UNCHANGED contract

(* Neither asks for the status of the application. *)
SendOffer(a) ==
  /\ application[a].offer = "draft"
  /\ application' = [application EXCEPT ![a].offer = "sent"]
  /\ UNCHANGED <<contract, call>>

-----------------------------------------------------------------------------
CreateContract(c) ==
  /\ contract[c].status = "none"
  /\ contract' = [contract EXCEPT ![c].status = "draft"]
  /\ UNCHANGED <<application, call>>

ActivateContract(c) ==
  /\ contract[c].status = "draft"
  /\ contract' = [contract EXCEPT ![c].status = "active"]
  /\ UNCHANGED <<application, call>>

DueForRenewal(c) == contract[c].status = "active" /\ ~ contract[c].notified

(* runRenewalSweep: the notice goes out, then the row says so. *)
StartSweepContract(u, c) ==
  /\ DueForRenewal(c)
  /\ Enter(u, [op |-> "sweep", doc |-> c, read |-> "active"])
  /\ UNCHANGED hiringTables

SendNotice(u) ==
  LET c == call[u]
  IN  /\ c.op = "sweep"
      /\ contract[c.doc].sent < MaxNotices
      /\ contract' = [contract EXCEPT ![c.doc].sent = @ + 1]
      /\ Proceed(u, [c EXCEPT !.op = "swept"])
      /\ UNCHANGED application

(* Mutant: the row is marked before the notice goes out. *)
MarkNotified_First(u) ==
  /\ call[u].op \in {"sweep", "swept"}
  /\ contract' = [contract EXCEPT ![call[u].doc].notified = TRUE]
  /\ Leave(u)
  /\ UNCHANGED application

MarkNotified(u) ==
  /\ call[u].op = "swept"
  /\ contract' = [contract EXCEPT ![call[u].doc].notified = TRUE]
  /\ Leave(u)
  /\ UNCHANGED application

HiringFails(u) == Fails(u) /\ UNCHANGED hiringTables

HiringNext ==
  \/ \E a \in Applications :
       \/ \E s \in {"new", "screened"} : Submit(a, s)
       \/ SendOffer(a)
       \/ \E u \in Users :
            \/ \E to \in AppStatus : StartStatusChange(u, a, to)
            \/ \E k \in Rounds : StartSchedule(u, a, k)
            \/ StartOffer(u, a)
  \/ \E c \in Contracts :
       \/ CreateContract(c) \/ ActivateContract(c)
       \/ \E u \in Users : StartSweepContract(u, c)
  \/ \E u \in Users :
       \/ FinishStatusChange(u) \/ CreateStage(u) \/ CreateLetter(u) \/ Advance(u)
       \/ SendNotice(u) \/ MarkNotified(u) \/ HiringFails(u)

HiringSpec == HiringInit /\ [][HiringNext]_hiringVars

-----------------------------------------------------------------------------
HiringTypeOK ==
  /\ application \in [Applications -> Application]
  /\ contract \in [Contracts -> Contract]
  /\ call \in [Users -> HiringCall \cup {NoCall}]

(* Hired and rejected are final: only a call that had read an earlier      *)
(* status takes an application back.                                       *)
ApplicationFinal ==
  [][\A a \in Applications :
       application[a].status \in {"hired", "rejected"} /\ Fresh(a, application[a].status)
         => application'[a].status = application[a].status]_hiringVars

(* A contract marked as notified was: a sweep that dies between the two    *)
(* sends its notice again, and never leaves one unsent.                    *)
NotifiedWasSent == \A c \in Contracts : contract[c].notified => contract[c].sent > 0
=============================================================================
