------------------------------- MODULE Requests -------------------------------
(***************************************************************************)
(* A handler of the API that reads what it needs, decides, and writes in a *)
(* later statement or transaction: between the two, other requests run.    *)
(* The modules that extend this one say what a call remembers of its read  *)
(* and what it writes.  A call that fails or dies before its commit leaves *)
(* nothing.                                                                *)
(***************************************************************************)
EXTENDS Integers, FiniteSets

CONSTANT Users  \* those whose requests overlap

ASSUME UsersAssumption == IsFiniteSet(Users)

VARIABLE call   \* call[u]: what u's handler has read so far, or NoCall

NoCall == [op |-> "idle"]

CallsInit == call = [u \in Users |-> NoCall]

(* The handler passes its checks on what it has read. *)
Enter(u, c) ==
  /\ call[u] = NoCall
  /\ call' = [call EXCEPT ![u] = c]

(* It reads or writes once more, and goes on. *)
Proceed(u, c) == call' = [call EXCEPT ![u] = c]

Leave(u) == call' = [call EXCEPT ![u] = NoCall]

(* Every call at work on the document has read the status it has now. *)
Fresh(doc, status) ==
  \A u \in Users : call[u] # NoCall /\ call[u].doc = doc => call[u].read = status

(* It throws, its connection is lost, or the process dies. *)
Fails(u) == call[u] # NoCall /\ Leave(u)
=============================================================================
