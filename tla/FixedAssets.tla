------------------------------ MODULE FixedAssets ------------------------------
(***************************************************************************)
(* Fixed assets and their depreciation: assets.service.ts and              *)
(* depreciation.service.ts of apps/api/src/modules/assets.                 *)
(*                                                                         *)
(* A run of a month reads all active assets once and then depreciates them *)
(* one transaction at a time.  Every handler writes the amounts of an      *)
(* asset that follow from its own reading.                                 *)
(***************************************************************************)
EXTENDS Requests, FiniteSetsExt, Functions

CONSTANTS
  Assets,
  Months,
  Cost,        \* purchaseCostIqd; there is no salvage value
  MaxCharge,   \* bound: the charge of a month by any of the methods
  MaxCost,     \* bound: the cost with what maintenance added
  MaxRows      \* bound: how often the row of a month is inserted

ASSUME AssetsAssumption ==
  /\ Cost \in Nat \ {0} /\ MaxCharge \in Nat \ {0}
  /\ MaxCost \in Nat /\ MaxCost >= Cost /\ MaxRows \in Nat
  /\ IsFiniteSet(Months)

VARIABLES
  asset,      \* fixed_assets
  charge,     \* charge[a][m]: the asset_depreciation row of month m, its amount 0 if there
              \* is none, and how many were inserted so far, which identifies it
  expensed    \* expensed[a]: its depreciation in the general ledger

assetsTables == <<asset, charge, expensed>>
assetsVars == <<assetsTables, call>>

AssetRow == [status : {"none", "active", "disposed"}, cost : 0..MaxCost, accum : Int, book : Int]

ChargeRow == [amount : Nat, row : 0..MaxRows]

AssetsCall ==
  [op : {"maintain", "dispose"}, doc : Assets, read : AssetRow]
  \cup [op : {"generate"}, month : Months, read : [Assets -> AssetRow], todo : SUBSET Assets]
  \cup [op : {"reverse"}, doc : Assets, month : Months, charge : ChargeRow]
  \cup [op : {"reversing"}, doc : Assets, month : Months, charge : ChargeRow, read : AssetRow]

AssetsInit ==
  /\ asset = [a \in Assets |-> [status |-> "none", cost |-> 0, accum |-> 0, book |-> 0]]
  /\ charge = [a \in Assets |-> [m \in Months |-> [amount |-> 0, row |-> 0]]]
  /\ expensed = [a \in Assets |-> 0]
  /\ CallsInit

-----------------------------------------------------------------------------
Acquire(a) ==
  /\ asset[a].status = "none"
  /\ asset' = [asset EXCEPT ![a] = [status |-> "active", cost |-> Cost, accum |-> 0, book |-> Cost]]
  /\ UNCHANGED <<charge, expensed, call>>

(* recordMaintenance asks nothing of the status, dispose that it be active. *)
StartAssetStep(u, a) ==
  /\ \E op \in {"maintain", "dispose"} :
       /\ asset[a].status \in (IF op = "maintain" THEN {"active", "disposed"} ELSE {"active"})
       /\ Enter(u, [op |-> op, doc |-> a, read |-> asset[a]])
  /\ UNCHANGED assetsTables

(* Capital maintenance adds to the cost. *)
FinishMaintenance(u) ==
  LET cost == call[u].read.cost + 1
  IN  /\ call[u].op = "maintain"
      /\ cost <= MaxCost
      /\ asset' = [asset EXCEPT ![call[u].doc].cost = cost,
                                ![call[u].doc].book = cost - call[u].read.accum]
      /\ Leave(u)
      /\ UNCHANGED <<charge, expensed>>

FinishDisposal(u) ==
  /\ call[u].op = "dispose"
  /\ asset' = [asset EXCEPT ![call[u].doc].status = "disposed", ![call[u].doc].book = 0]
  /\ Leave(u)
  /\ UNCHANGED <<charge, expensed>>

-----------------------------------------------------------------------------

StartGenerate(u, m) ==
  /\ Enter(u, [op |-> "generate", month |-> m, read |-> asset,
               todo |-> {a \in Assets : asset[a].status = "active"}])
  /\ UNCHANGED assetsTables

(* The run passes over an asset that has its row, or nothing left to       *)
(* depreciate.                                                             *)
SkipAsset(u, a) ==
  LET c == call[u]
  IN  /\ c.op = "generate" /\ a \in c.todo
      /\ charge[a][c.month].amount > 0 \/ c.read[a].accum >= c.read[a].cost
      /\ Proceed(u, [c EXCEPT !.todo = @ \ {a}])
      /\ UNCHANGED assetsTables

(* Mutant: no index keeps a second row of the month out. *)
Depreciate_NoIndex(u, a) ==
  LET c == call[u]
  IN  /\ c.op = "generate" /\ a \in c.todo
      /\ charge[a][c.month].row < MaxRows
      /\ \E due \in 1..MaxCharge :
           LET amount == Min({due, c.read[a].cost - c.read[a].accum})
               accum == c.read[a].accum + amount
           IN  /\ amount > 0
               /\ charge' = [charge EXCEPT ![a][c.month] = [amount |-> amount, row |-> @.row + 1]]
               /\ expensed' = [expensed EXCEPT ![a] = @ + amount]
               /\ asset' = [asset EXCEPT ![a].accum = accum, ![a].book = c.read[a].cost - accum]
      /\ Proceed(u, [c EXCEPT !.todo = @ \ {a}])

(* It found no row, and inserts one with its entry: the unique index on    *)
(* asset and month refuses a second, whose transaction and run then fail.  *)
Depreciate(u, a) ==
  LET c == call[u]
  IN  /\ c.op = "generate" /\ a \in c.todo
      /\ charge[a][c.month].amount = 0 /\ charge[a][c.month].row < MaxRows
      /\ \E due \in 1..MaxCharge :
           LET amount == Min({due, c.read[a].cost - c.read[a].accum})
               accum == c.read[a].accum + amount
           IN  /\ amount > 0
               /\ charge' = [charge EXCEPT ![a][c.month] = [amount |-> amount, row |-> @.row + 1]]
               /\ expensed' = [expensed EXCEPT ![a] = @ + amount]
               /\ asset' = [asset EXCEPT ![a].accum = accum, ![a].book = c.read[a].cost - accum]
      /\ Proceed(u, [c EXCEPT !.todo = @ \ {a}])

FinishGenerate(u) ==
  /\ call[u].op = "generate" /\ call[u].todo = {}
  /\ Leave(u)
  /\ UNCHANGED assetsTables

-----------------------------------------------------------------------------
(* reverseDepreciation reads the row, then the asset, of any status. *)
StartReverse(u, a, m) ==
  /\ charge[a][m].amount > 0
  /\ Enter(u, [op |-> "reverse", doc |-> a, month |-> m, charge |-> charge[a][m]])
  /\ UNCHANGED assetsTables

ReadReversed(u) ==
  LET c == call[u]
  IN  /\ c.op = "reverse"
      /\ Proceed(u, [op |-> "reversing", doc |-> c.doc, month |-> c.month, charge |-> c.charge,
                     read |-> asset[c.doc]])
      /\ UNCHANGED assetsTables

(* It posts the opposite entry and deletes the row, which fails when it is *)
(* no longer the row it read.                                              *)
FinishReverse(u) ==
  LET c == call[u]
  IN  /\ c.op = "reversing"
      /\ charge[c.doc][c.month] = c.charge
      /\ charge' = [charge EXCEPT ![c.doc][c.month].amount = 0]
      /\ expensed' = [expensed EXCEPT ![c.doc] = @ - c.charge.amount]
      /\ asset' = [asset EXCEPT ![c.doc].accum = c.read.accum - c.charge.amount,
                                ![c.doc].book = c.read.book + c.charge.amount]
      /\ Leave(u)

AssetsFails(u) == Fails(u) /\ UNCHANGED assetsTables

AssetsNext ==
  \/ \E a \in Assets : Acquire(a)
  \/ \E u \in Users, a \in Assets :
       \/ StartAssetStep(u, a) \/ SkipAsset(u, a) \/ Depreciate(u, a)
       \/ \E m \in Months : StartReverse(u, a, m)
  \/ \E u \in Users, m \in Months : StartGenerate(u, m)
  \/ \E u \in Users :
       \/ FinishMaintenance(u) \/ FinishDisposal(u) \/ FinishGenerate(u)
       \/ ReadReversed(u) \/ FinishReverse(u) \/ AssetsFails(u)

AssetsSpec == AssetsInit /\ [][AssetsNext]_assetsVars

-----------------------------------------------------------------------------
AssetsTypeOK ==
  /\ asset \in [Assets -> AssetRow]
  /\ charge \in [Assets -> [Months -> ChargeRow]]
  /\ expensed \in [Assets -> Int]
  /\ call \in [Users -> AssetsCall \cup {NoCall}]

(* The general ledger holds the depreciation of the rows and no other,     *)
(* however runs of a month and reversals overlap and wherever a run stops: *)
(* each row had its entry posted once and, if it went, reversed once.      *)
LedgerMatchesSchedule ==
  \A a \in Assets : expensed[a] = SumFunction([m \in Months |-> charge[a][m].amount])

(* A disposed asset gets no row of depreciation any more, but from a run   *)
(* that had read it active.                                                *)
NoChargeAfterDisposal ==
  [][\A a \in Assets :
       /\ asset[a].status = "disposed"
       /\ \A u \in Users : call[u].op = "generate" /\ a \in call[u].todo
            => call[u].read[a].status = "disposed"
       => \A m \in Months : charge'[a][m].row = charge[a][m].row]_assetsVars
=============================================================================
