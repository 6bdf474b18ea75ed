------------------------------- MODULE AuditChain -------------------------------
(***************************************************************************)
(* The audit trail: audit.service.ts.  Each row holds the hash of the row  *)
(* before it.  The last row is read, the clock is read, and the row is     *)
(* written, in three steps and outside the caller's transaction.           *)
(***************************************************************************)
EXTENDS Requests

CONSTANTS
  MaxAudited,     \* bound on the rows of a company
  LastTick,       \* bound on the clock
  Limit           \* how many rows verifyChain takes

ASSUME AuditAssumption == MaxAudited \in Nat /\ LastTick \in Nat /\ Limit \in Nat

VARIABLES
  auditLog,       \* audit_logs: the row's hash, that of the row before, the time
  clock,          \* the milliseconds two rows may share
  apart           \* no operation has logged while another was logging

auditTables == <<auditLog, clock, apart>>
auditVars == <<auditTables, call>>

Zero == 0         \* the previous hash of the first row
Hashes == 1..MaxAudited
AuditRow == [hash : Hashes, prev : Hashes \cup {Zero}, at : 0..LastTick]

AuditCall ==
  [op : {"log"}, prev : Hashes \cup {Zero}]
  \cup [op : {"stamped"}, prev : Hashes \cup {Zero}, at : 0..LastTick]

AuditInit == auditLog = {} /\ clock = 0 /\ apart = TRUE /\ CallsInit

(* Mutant: the first row is taken for the last. *)
Latest_Oldest == {r \in auditLog : \A s \in auditLog : r.at <= s.at}

(* orderBy occurredAt: any of those that share the time. *)
Latest == {r \in auditLog : \A s \in auditLog : s.at <= r.at}

ReadLast(u) ==
  /\ \/ auditLog = {} /\ Enter(u, [op |-> "log", prev |-> Zero])
     \/ \E r \in Latest : Enter(u, [op |-> "log", prev |-> r.hash])
  /\ apart' = (apart /\ \A v \in Users : call[v] = NoCall)
  /\ UNCHANGED <<auditLog, clock>>

Stamp(u) ==
  /\ call[u].op = "log"
  /\ Proceed(u, [op |-> "stamped", prev |-> call[u].prev, at |-> clock])
  /\ UNCHANGED auditTables

WriteRow(u) ==
  /\ call[u].op = "stamped"
  /\ Cardinality(auditLog) < MaxAudited
  /\ auditLog' = auditLog \cup {[hash |-> Cardinality(auditLog) + 1, prev |-> call[u].prev,
                                 at |-> call[u].at]}
  /\ Leave(u)
  /\ UNCHANGED <<clock, apart>>

(* An error is logged and the operation goes on without its row. *)
LogFails(u) == Fails(u) /\ UNCHANGED auditTables

Tick == clock < LastTick /\ clock' = clock + 1 /\ UNCHANGED <<auditLog, apart, call>>

AuditNext == Tick \/ \E u \in Users : ReadLast(u) \/ Stamp(u) \/ WriteRow(u) \/ LogFails(u)

AuditSpec == AuditInit /\ [][AuditNext]_auditVars

-----------------------------------------------------------------------------
(* verifyChain takes the oldest rows, up to the limit, by their time: s may *)
(* come next after r in an order that the database gives them in.          *)
MayFollow(r, s) ==
  /\ r # s /\ r.at <= s.at
  /\ \A t \in auditLog : ~ (r.at < t.at /\ t.at < s.at)
  /\ Cardinality({t \in auditLog : t.at < s.at} \cup {r}) < Limit

(* It returns true, in whichever order it gets the rows of one time.       *)
Verifies == \A r, s \in auditLog : MayFollow(r, s) => s.prev = r.hash

AuditTypeOK ==
  /\ auditLog \subseteq AuditRow
  /\ clock \in 0..LastTick
  /\ apart \in BOOLEAN
  /\ call \in [Users -> AuditCall \cup {NoCall}]

(* Operations of which none logged while another did, and no two in the    *)
(* same millisecond, leave a trail that verifies: only overlapping ones,   *)
(* or ones of one millisecond, make an untouched trail look tampered with. *)
ChainVerifies ==
  apart /\ (\A r, s \in auditLog : r.at = s.at => r = s) => Verifies
=============================================================================
