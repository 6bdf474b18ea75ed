-------------------------------- MODULE Posting --------------------------------
(***************************************************************************)
(* The Posting Engine, apps/api/src/engines/posting/posting.service.ts,    *)
(* next to the closing of the periods it posts into.  post, inside the     *)
(* transaction of a business document, checks the period with a plain      *)
(* SELECT, draws the entry number, takes the hash of the last entry as     *)
(* previousHash and inserts the entry with its lines; the caller commits   *)
(* later.  reverse reads the status of the original before its             *)
(* transaction, posts the mirror entry and marks the original reversed.    *)
(*                                                                         *)
(* The balance of the lines is checked at the head of post, on the request *)
(* alone; amounts are left out.  A hash is the id of the entry it is of:   *)
(* two entries have the same hash only if they are the same entry.         *)
(*                                                                         *)
(* A number carries the calendar year it is drawn in; the module is one    *)
(* such year.                                                              *)
(***************************************************************************)
EXTENDS PeriodClose

CONSTANTS
  Posters,        \* request handlers that post
  Codes,          \* the branch codes of postings, and "no branch"
  ReversalCode,   \* the empty company code that reverseEntry passes
  NullsDistinct,  \* does the index of document_sequences take NULLs as distinct?
  MaxEntries      \* bound: entries inserted, committed or not

ASSUME PostingAssumption ==
  /\ ReversalCode \notin Codes
  /\ NullsDistinct \in BOOLEAN
  /\ MaxEntries \in Nat

VARIABLES
  journal,   \* journal_entries, committed
  inserted,  \* the number of entries inserted so far: createdAt of the next
  ptx        \* ptx[p]: the posting transaction of p

vars == <<periodVars, journal, inserted, ptx>>

(* prev: the entry whose hash it carries, 0 for none; reverses: the entry  *)
(* it mirrors; reversedBy: the mirror entry that marked it; 0 for none.    *)
Entry == [id : 1..MaxEntries, code : Codes \cup {ReversalCode}, pd : Periods,
          prev : 0..MaxEntries, reverses : 0..MaxEntries, reversedBy : 0..MaxEntries]

(* target: the entry to reverse, 0 for a posting; last: the last entry as  *)
(* read; own: the entry inserted.                                          *)
Active == [step : {"begun", "checked", "hashed", "inserted"}, pd : Periods,
           code : Codes \cup {ReversalCode}, target : 0..MaxEntries,
           last : 0..MaxEntries, own : SUBSET Entry]
Idle == [step |-> "idle"]

Init ==
  /\ PeriodInit
  /\ journal = {}
  /\ inserted = 0
  /\ ptx = [p \in Posters |-> Idle]

-----------------------------------------------------------------------------
Begin(p, code, pd, target) ==
  /\ ptx[p] = Idle
  /\ ptx' = [ptx EXCEPT ![p] = [step |-> "begun", code |-> code, pd |-> pd,
                                target |-> target, last |-> 0, own |-> {}]]
  /\ UNCHANGED <<periodVars, journal, inserted>>

(* postTemplate or postJournalEntry finds the period of the date. *)
Post(p) ==
  \E code \in Codes, pd \in Periods : period[pd] # "none" /\ Begin(p, code, pd, 0)

(* reverse finds the original posted. *)
Reverse(p) ==
  \E e \in journal : e.reversedBy = 0 /\ Begin(p, ReversalCode, e.pd, e.id)

Discard(p) ==
  /\ ptx' = [ptx EXCEPT ![p] = Idle]
  /\ UNCHANGED <<periodVars, journal, inserted>>

(* The period is read, and found open or not. *)
CheckPeriod(p) ==
  /\ ptx[p].step = "begun"
  /\ period[ptx[p].pd] = "open"
  /\ ptx' = [ptx EXCEPT ![p].step = "checked"]
  /\ UNCHANGED <<periodVars, journal, inserted>>

PeriodNotOpen(p) ==
  /\ ptx[p].step = "begun"
  /\ period[ptx[p].pd] # "open"
  /\ Discard(p)

(* Mutant: every entry draws a number of its own. *)
NumberTaken_Never(code) == FALSE

(* The number is drawn for the company, without the branchId: with NULLs   *)
(* distinct it is 1 every time, and the text JE-company-code-year-000001   *)
(* is taken once a posting of the same code is committed.                  *)
NumberTaken(code) == NullsDistinct /\ \E e \in journal : e.code = code

NumberPending(p, code) ==
  NullsDistinct /\ \E q \in Posters \ {p} :
                      ptx[q].step = "inserted" /\ ptx[q].code = code

(* Mutant: the hash of the last entry inserted, committed or not. *)
LastEntry_Dirty == inserted

(* The committed entry with the latest createdAt, 0 if there is none. *)
LastEntry ==
  IF journal = {} THEN 0
  ELSE (CHOOSE e \in journal : \A f \in journal : f.id <= e.id).id

(* The hash of the last entry is read, with no lock on it. *)
ReadLastHash(p) ==
  /\ ptx[p].step = "checked"
  /\ ptx' = [ptx EXCEPT ![p].step = "hashed", ![p].last = LastEntry]
  /\ UNCHANGED <<periodVars, journal, inserted>>

(* The entry and its lines are inserted; an entry of the same number that  *)
(* is not committed yet makes the INSERT wait.                             *)
InsertEntry(p) ==
  LET t == ptx[p]
      e == [id |-> inserted + 1, code |-> t.code, pd |-> t.pd, prev |-> t.last,
            reverses |-> t.target, reversedBy |-> 0]
  IN  /\ t.step = "hashed"
      /\ inserted < MaxEntries
      /\ ~NumberPending(p, t.code)
      /\ ~NumberTaken(t.code)
      /\ inserted' = inserted + 1
      /\ ptx' = [ptx EXCEPT ![p].step = "inserted", ![p].own = {e}]
      /\ UNCHANGED <<periodVars, journal>>

(* The INSERT violates the unique (companyId, entryNumber). *)
NumberCollides(p) ==
  /\ ptx[p].step = "hashed"
  /\ NumberTaken(ptx[p].code)
  /\ Discard(p)

(* Mutant: the marked original is inserted next to the unmarked one. *)
Commit_CopiesOriginal(p) ==
  LET t == ptx[p]
      id == (CHOOSE e \in t.own : TRUE).id
  IN  /\ t.step = "inserted"
      /\ journal' = journal \cup t.own \cup
           {[e EXCEPT !.reversedBy = id] : e \in {f \in journal : f.id = t.target}}
      /\ ptx' = [ptx EXCEPT ![p] = Idle]
      /\ UNCHANGED <<periodVars, inserted>>

(* The original of a reversal is marked, and the transaction committed. *)
Commit(p) ==
  LET t == ptx[p]
      id == (CHOOSE e \in t.own : TRUE).id
  IN  /\ t.step = "inserted"
      /\ journal' = t.own \cup
           {IF e.id = t.target THEN [e EXCEPT !.reversedBy = id] ELSE e : e \in journal}
      /\ ptx' = [ptx EXCEPT ![p] = Idle]
      /\ UNCHANGED <<periodVars, inserted>>

(* The business document fails after the posting, or the process dies. *)
Rollback(p) == ptx[p] # Idle /\ Discard(p)

PostingStep(p) ==
  \/ Post(p) \/ Reverse(p) \/ CheckPeriod(p) \/ PeriodNotOpen(p)
  \/ ReadLastHash(p) \/ InsertEntry(p) \/ NumberCollides(p) \/ Commit(p) \/ Rollback(p)

Next ==
  \/ PeriodNext /\ UNCHANGED <<journal, inserted, ptx>>
  \/ \E p \in Posters : PostingStep(p)

Spec == Init /\ [][Next]_vars

-----------------------------------------------------------------------------
(* Periods, entries and transactions keep their types; ids are not reused. *)
TypeOK ==
  /\ PeriodTypeOK
  /\ journal \subseteq Entry
  /\ \A e, f \in journal : e.id = f.id => e = f
  /\ inserted \in 0..MaxEntries
  /\ ptx \in [Posters -> {Idle} \cup Active]

(* Every entry carries the hash of an older entry of the journal, or of    *)
(* none: an entry rolled back never leaves its hash behind.                *)
ChainGrounded ==
  \A e \in journal : e.prev = 0 \/ \E f \in journal : f.id = e.prev /\ f.id < e.id

(* An entry marked reversed has exactly one mirror entry, the one it       *)
(* names; an entry not marked has none.                                    *)
ReversedOnce ==
  \A e \in journal :
    {f.id : f \in {g \in journal : g.reverses = e.id}} =
      IF e.reversedBy = 0 THEN {} ELSE {e.reversedBy}

(* Hard-closed, and the calls that had read the period before are over. *)
Sealed(pd) ==
  /\ period[pd] = "hard_closed"
  /\ \A u \in Users : call[u].op \in {"close", "reopen"} => call[u].pd # pd
  /\ \A p \in Posters :
       ptx[p].step \in {"checked", "hashed", "inserted"} => ptx[p].pd # pd

EntriesOf(pd) == {e \in journal : e.pd = pd}

(* A hard close is the end of a period: once the closing calls and the     *)
(* postings that had read it before are over, no later call of any user    *)
(* opens it again, adds an entry to it or marks one of it reversed.        *)
PeriodSealed ==
  [][\A pd \in Periods :
       Sealed(pd) => Sealed(pd)' /\ EntriesOf(pd)' = EntriesOf(pd)]_vars

(* Nothing is written to a period that is not open. *)
PeriodLock ==
  [][\A e \in journal' :
       (\A f \in journal : f.id # e.id) => period[e.pd] = "open"]_journal
=============================================================================
