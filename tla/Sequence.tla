------------------------------- MODULE Sequence -------------------------------
(***************************************************************************)
(* The Sequence Engine, apps/api/src/engines/sequence/sequence.service.ts: *)
(* human-readable document numbers, counted per company, branch, prefix    *)
(* and year in the table document_sequences.                               *)
(*                                                                         *)
(* nextNumber runs a transaction of its own: an upsert that inserts the    *)
(* row with lastValue 1 or adds 1 to it, then a SELECT that reads the      *)
(* value back, then the commit.  reserveRange is the same upsert by        *)
(* count, and takes the value from RETURNING.  PostgreSQL at READ          *)
(* COMMITTED: the upsert holds the row (or the pending index entry) until  *)
(* the transaction ends, a plain SELECT sees committed rows and the        *)
(* transaction's own.                                                      *)
(*                                                                         *)
(* A key is one <<companyId, branchId, prefix, year>>: a new year is a new *)
(* key.  The unique index on those four columns has a nullable branchId.   *)
(* With NULLS DISTINCT (PostgreSQL's default, and what schema.prisma       *)
(* builds) two rows with a NULL branchId never conflict, so a company-wide *)
(* key gets a row per call.                                                *)
(***************************************************************************)
EXTENDS Integers, Sequences

CONSTANTS
  Procs,          \* callers, each in a transaction of its own
  Keys,           \* <<companyId, branchId, prefix, year>> combinations
  CompanyWide,    \* the keys whose branchId is NULL
  NullsDiffer,    \* does the unique index take NULLs as distinct?
  MaxBlock,       \* bound: the largest count given to reserveRange
  MaxIssued,      \* bound: no call starts under a key with that many blocks issued
  NoProc          \* "no holder" of a row lock

ASSUME SequenceAssumption ==
  /\ CompanyWide \subseteq Keys
  /\ NullsDiffer \in BOOLEAN
  /\ MaxBlock \in Nat \ {0}
  /\ MaxIssued \in Nat
  /\ NoProc \notin Procs

VARIABLES
  lastValue,  \* lastValue[k]: the committed counter of a key with one row, 0: no row
  nullRows,   \* nullRows[k]: the committed lastValues of a key with a row per call
  holder,     \* holder[k]: the transaction that holds the row of k, or NoProc
  tx,         \* tx[p]: the transaction of caller p
  issued      \* issued[k]: the blocks returned to callers, in commit order

sequenceVars == <<lastValue, nullRows, holder, tx, issued>>

(* The keys for which ON CONFLICT finds the row: one row, one counter. *)
OneRow == IF NullsDiffer THEN Keys \ CompanyWide ELSE Keys

Block == [from : Nat \ {0}, to : Nat]

(* count is 1 for nextNumber; row is the lastValue the upsert wrote, value *)
(* the lastValue the caller goes on with.                                  *)
Tx == [step : {"idle"}]
      \cup [step : {"called", "written", "read"}, op : {"next", "range"},
            key : Keys, count : 1..MaxBlock, row : Nat, value : Nat]

NoNumber == [step |-> "idle"]

(* Transaction t at the given step, holding the given row and value. *)
At(t, step, row, value) ==
  [step |-> step, op |-> t.op, key |-> t.key, count |-> t.count,
   row |-> row, value |-> value]

SequenceInit ==
  /\ lastValue = [k \in Keys |-> 0]
  /\ nullRows = [k \in Keys |-> {}]
  /\ holder = [k \in Keys |-> NoProc]
  /\ tx = [p \in Procs |-> NoNumber]
  /\ issued = [k \in Keys |-> <<>>]

-----------------------------------------------------------------------------
CallEngine(p, op, k, n) ==
  /\ tx[p].step = "idle"
  /\ Len(issued[k]) < MaxIssued
  /\ tx' = [tx EXCEPT ![p] = [step |-> "called", op |-> op, key |-> k,
                              count |-> n, row |-> 0, value |-> 0]]
  /\ UNCHANGED <<lastValue, nullRows, holder, issued>>

NextNumber(p) == \E k \in Keys : CallEngine(p, "next", k, 1)

ReserveRange(p) == \E k \in Keys, n \in 1..MaxBlock : CallEngine(p, "range", k, n)

(* Mutant: read the counter and write it back without holding the row. *)
UpsertRow_NoRowLock(p) ==
  LET v == lastValue[tx[p].key] + tx[p].count
  IN  /\ tx[p].step = "called"
      /\ tx[p].key \in OneRow
      /\ tx' = [tx EXCEPT ![p] = At(@, "written", v, v)]
      /\ UNCHANGED <<lastValue, nullRows, holder, issued>>

(* Mutant: the conflict clause sets lastValue to count instead of adding it. *)
UpsertRow_SetsCount(p) ==
  LET k == tx[p].key
      v == tx[p].count
  IN  /\ tx[p].step = "called"
      /\ k \in OneRow
      /\ holder[k] = NoProc
      /\ holder' = [holder EXCEPT ![k] = p]
      /\ tx' = [tx EXCEPT ![p] = At(@, "written", v, v)]
      /\ UNCHANGED <<lastValue, nullRows, issued>>

(* INSERT ... ON CONFLICT DO UPDATE on the row of a key that has one. *)
UpsertRow(p) ==
  LET k == tx[p].key
      v == lastValue[k] + tx[p].count
  IN  /\ tx[p].step = "called"
      /\ k \in OneRow
      /\ holder[k] = NoProc
      /\ holder' = [holder EXCEPT ![k] = p]
      /\ tx' = [tx EXCEPT ![p] = 
                  At(@, IF tx[p].op = "range" THEN "read" ELSE "written", v, v)]
      /\ UNCHANGED <<lastValue, nullRows, issued>>

(* The same statement with a NULL branchId under NULLS DISTINCT: nothing   *)
(* to conflict with, a fresh row with lastValue = count.                   *)
InsertNullRow(p) ==
  /\ tx[p].step = "called"
  /\ tx[p].key \notin OneRow
  /\ tx' = [tx EXCEPT ![p] = 
              At(@, IF tx[p].op = "range" THEN "read" ELSE "written",
                 tx[p].count, tx[p].count)]
  /\ UNCHANGED <<lastValue, nullRows, holder, issued>>

(* nextNumber's SELECT: findUniqueOrThrow on the one row of the key, or    *)
(* findFirstOrThrow, without an order, among the rows with a NULL branch.  *)
ReadBack(p) ==
  LET k == tx[p].key
      visible == IF k \in OneRow THEN {tx[p].row} ELSE nullRows[k] \cup {tx[p].row}
  IN  /\ tx[p].step = "written"
      /\ \E v \in visible :
            tx' = [tx EXCEPT ![p] = At(@, "read", tx[p].row, v)]
      /\ UNCHANGED <<lastValue, nullRows, holder, issued>>

(* Mutant: reserveRange returns from = result - count. *)
CommitNumber_FromOffByOne(p) ==
  LET k == tx[p].key
  IN  /\ tx[p].step = "read"
      /\ lastValue' = [lastValue EXCEPT ![k] = tx[p].row]
      /\ holder' = [holder EXCEPT ![k] = NoProc]
      /\ issued' = [issued EXCEPT ![k] = Append(@,
                       [from |-> tx[p].value - tx[p].count, to |-> tx[p].value])]
      /\ tx' = [tx EXCEPT ![p] = NoNumber]
      /\ UNCHANGED nullRows

(* COMMIT, then the number is formatted and returned; for reserveRange the *)
(* block result - count + 1 .. result.                                     *)
CommitNumber(p) ==
  LET k == tx[p].key
      block == [from |-> tx[p].value - tx[p].count + 1, to |-> tx[p].value]
  IN  /\ tx[p].step = "read"
      /\ IF k \in OneRow
           THEN /\ lastValue' = [lastValue EXCEPT ![k] = tx[p].row]
                /\ holder' = [holder EXCEPT ![k] = NoProc]
                /\ UNCHANGED nullRows
           ELSE /\ nullRows' = [nullRows EXCEPT ![k] = @ \cup {tx[p].row}]
                /\ UNCHANGED <<lastValue, holder>>
      /\ issued' = [issued EXCEPT ![k] = Append(@, block)]
      /\ tx' = [tx EXCEPT ![p] = NoNumber]

(* Mutant: the counter survives a rollback, as one kept outside the        *)
(* transaction would.                                                      *)
RollBackNumber_KeepsCounter(p) ==
  LET k == tx[p].key
  IN  /\ tx[p].step # "idle"
      /\ holder' = [key \in Keys |-> IF holder[key] = p THEN NoProc ELSE holder[key]]
      /\ lastValue' = IF holder[k] = p THEN [lastValue EXCEPT ![k] = tx[p].row] ELSE lastValue
      /\ tx' = [tx EXCEPT ![p] = NoNumber]
      /\ UNCHANGED <<nullRows, issued>>

(* A lost connection, a Prisma transaction timeout or a process crash. *)
RollBackNumber(p) ==
  /\ tx[p].step # "idle"
  /\ holder' = [k \in Keys |-> IF holder[k] = p THEN NoProc ELSE holder[k]]
  /\ tx' = [tx EXCEPT ![p] = NoNumber]
  /\ UNCHANGED <<lastValue, nullRows, issued>>

Step(p) ==
  \/ NextNumber(p) \/ ReserveRange(p)
  \/ UpsertRow(p) \/ InsertNullRow(p) \/ ReadBack(p) \/ CommitNumber(p)
  \/ RollBackNumber(p)

SequenceNext == \E p \in Procs : Step(p)

SequenceSpec == SequenceInit /\ [][SequenceNext]_sequenceVars

-----------------------------------------------------------------------------
(* Every variable keeps its type: the rows of document_sequences, the      *)
(* locks, the callers' transactions and the numbers returned to them.      *)
SequenceTypeOK ==
  /\ lastValue \in [Keys -> Nat]
  /\ nullRows \in [Keys -> SUBSET Nat]
  /\ holder \in [Keys -> Procs \cup {NoProc}]
  /\ tx \in [Procs -> Tx]
  /\ issued \in [Keys -> Seq(Block)]

(* nextNumber and reserveRange never hand out a number twice under a key   *)
(* with one row: of two blocks, the later lies wholly above the earlier,   *)
(* whatever callers overlap, read back late or roll back.                  *)
StrictlyMonotonic ==
  \A k \in OneRow : \A i, j \in 1..Len(issued[k]) :
    i < j => issued[k][i].to < issued[k][j].from

(* A rolled-back call burns no number of such a key: the blocks returned   *)
(* cover 1..lastValue without a hole ("no gaps under concurrent writes",   *)
(* the rules at the head of sequence.service.ts).                          *)
NoGaps ==
  \A k \in OneRow :
    {n \in 1..lastValue[k] : \E i \in 1..Len(issued[k]) :
        issued[k][i].from <= n /\ n <= issued[k][i].to} = 1..lastValue[k]

(* Seen from its callers, the engine on keys with one row is the atomic    *)
(* dispenser of NumberDispenser: the three statements of the transaction   *)
(* take effect at the commit.                                              *)
Dispenser == INSTANCE NumberDispenser
               WITH Keys <- OneRow, issued <- [k \in OneRow |-> issued[k]]

ImplementsDispenser == Dispenser!Spec

(* What the uniqueness test of the repository says of the service: numbers *)
(* are unique per company, branch, prefix and year, with no exception for  *)
(* a NULL branch, which is how quotations, orders, invoices, receipts,     *)
(* shifts and journal entries call it.                                     *)
UniquePerKey ==
  \A k \in Keys : \A i, j \in 1..Len(issued[k]) :
    i < j => issued[k][i].to < issued[k][j].from
=============================================================================
