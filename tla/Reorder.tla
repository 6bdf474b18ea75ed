-------------------------------- MODULE Reorder --------------------------------
(***************************************************************************)
(* Low stock, its flags and the draft purchase orders that answer it:      *)
(* intelligence.service.ts (the scan, of its twelve rules only Q03, the    *)
(* one orders are drafted from) and auto-reorder.service.ts.  A SKU is a   *)
(* variant in a warehouse.  A run is started by a user, by the autopilot   *)
(* job each morning or by a job of the queue.                              *)
(***************************************************************************)
EXTENDS Requests

CONSTANTS
  Skus,
  Suppliers,
  SupplierOf,   \* the supplier a SKU is ordered from; none for some
  MaxDrafts     \* bound: draft orders that hold a SKU at a time

ASSUME ReorderAssumption == SupplierOf \in [Skus -> SUBSET Suppliers] /\ MaxDrafts \in Nat

VARIABLES
  low,          \* the SKUs at or below their reorder point
  flag,         \* inventory_flags of Q03: none, open or resolved
  drafts,       \* draft purchase orders with a line for the SKU
  runRow        \* auto_reorder_runs: the row of the run each user has started last

reorderTables == <<low, flag, drafts, runRow>>
reorderVars == <<reorderTables, call>>

ReorderCall ==
  [op : {"raise", "resolve"}, todo : SUBSET Skus, seen : SUBSET Skus]
  \cup [op : {"collect"}] \cup [op : {"draft"}, todo : SUBSET Skus]

ReorderInit ==
  /\ low \in SUBSET Skus
  /\ flag = [s \in Skus |-> "none"]
  /\ drafts = [s \in Skus |-> 0]
  /\ runRow = [u \in Users |-> "none"]
  /\ CallsInit

(* Goods are sold, or received. *)
StockChanges(s) ==
  /\ low' = IF s \in low THEN low \ {s} ELSE low \cup {s}
  /\ UNCHANGED <<flag, drafts, runRow, call>>

(* The buyer submits a draft, or cancels it. *)
DraftHandled(s) ==
  /\ drafts[s] > 0
  /\ drafts' = [drafts EXCEPT ![s] = @ - 1]
  /\ UNCHANGED <<low, flag, runRow, call>>

ResolveFlag(s) ==
  /\ flag[s] # "none"
  /\ flag' = [flag EXCEPT ![s] = "resolved"]
  /\ UNCHANGED <<low, drafts, runRow, call>>

-----------------------------------------------------------------------------
(* A run scans first, unless its caller asked it not to. *)
StartReorder(u) ==
  /\ \/ Enter(u, [op |-> "raise", todo |-> low, seen |-> low])
     \/ Enter(u, [op |-> "collect"])
  /\ runRow' = [runRow EXCEPT ![u] = "running"]
  /\ UNCHANGED <<low, flag, drafts>>

RaiseFlag(u) ==
  LET c == call[u]
  IN  /\ c.op = "raise"
      /\ \E s \in c.todo :
           /\ flag' = [flag EXCEPT ![s] = "open"]
           /\ Proceed(u, [c EXCEPT !.todo = @ \ {s}])
      /\ UNCHANGED <<low, drafts, runRow>>

(* What is open and was not low in this scan. *)
ReadStale(u) ==
  LET c == call[u]
  IN  /\ c.op = "raise" /\ c.todo = {}
      /\ Proceed(u, [c EXCEPT !.op = "resolve",
                              !.todo = {s \in Skus : flag[s] = "open"} \ c.seen])
      /\ UNCHANGED reorderTables

ResolveStale(u) ==
  LET c == call[u]
  IN  /\ c.op = "resolve"
      /\ flag' = [s \in Skus |-> IF s \in c.todo THEN "resolved" ELSE flag[s]]
      /\ Proceed(u, [op |-> "collect"])
      /\ UNCHANGED <<low, drafts, runRow>>

(* Every open flag whose SKU has a supplier. *)
Collect(u) ==
  /\ call[u].op = "collect"
  /\ Proceed(u, [op |-> "draft",
                 todo |-> {s \in Skus : flag[s] = "open" /\ SupplierOf[s] # {}}])
  /\ UNCHANGED reorderTables

(* One order for each supplier; one that cannot be written is logged and   *)
(* passed over.                                                            *)
DraftOrder(u) ==
  LET c == call[u]
  IN  /\ c.op = "draft"
      /\ \E p \in Suppliers :
           LET lines == {s \in c.todo : p \in SupplierOf[s]}
           IN  /\ lines # {}
               /\ \/ /\ \A s \in lines : drafts[s] < MaxDrafts
                     /\ drafts' = [s \in Skus |-> drafts[s] + IF s \in lines THEN 1 ELSE 0]
                  \/ UNCHANGED drafts
               /\ Proceed(u, [c EXCEPT !.todo = @ \ lines])
      /\ UNCHANGED <<low, flag, runRow>>

FinishReorder(u) ==
  /\ call[u].op = "draft" /\ call[u].todo = {}
  /\ runRow' = [runRow EXCEPT ![u] = "completed"]
  /\ Leave(u)
  /\ UNCHANGED <<low, flag, drafts>>

(* An error is caught and written to the run's row; a process that dies    *)
(* leaves the row as it is.  What was written before stays.                *)
ReorderFails(u) ==
  /\ Fails(u)
  /\ runRow' \in {runRow, [runRow EXCEPT ![u] = "failed"]}
  /\ UNCHANGED <<low, flag, drafts>>

ReorderNext ==
  \/ \E s \in Skus : StockChanges(s) \/ DraftHandled(s) \/ ResolveFlag(s)
  \/ \E u \in Users :
       \/ StartReorder(u) \/ RaiseFlag(u) \/ ReadStale(u) \/ ResolveStale(u)
       \/ Collect(u) \/ DraftOrder(u) \/ FinishReorder(u) \/ ReorderFails(u)

ReorderSpec == ReorderInit /\ [][ReorderNext]_reorderVars

-----------------------------------------------------------------------------
ReorderTypeOK ==
  /\ low \subseteq Skus
  /\ flag \in [Skus -> {"none", "open", "resolved"}]
  /\ drafts \in [Skus -> 0..MaxDrafts]
  /\ runRow \in [Users -> {"none", "running", "completed", "failed"}]
  /\ call \in [Users -> ReorderCall \cup {NoCall}]
=============================================================================
