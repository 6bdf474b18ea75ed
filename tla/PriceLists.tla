------------------------------ MODULE PriceLists ------------------------------
(***************************************************************************)
(* Price lists and the prices of one variant in one of them:               *)
(* price-lists.service.ts.  setPrice ends the open prices and inserts the  *)
(* new one, and create takes the default from the other lists and inserts  *)
(* its own, each in two statements and no transaction.  bulkSetPrices is   *)
(* one setPrice after another, whatever became of those before.  Dates are *)
(* days.                                                                   *)
(***************************************************************************)
EXTENDS Requests, Sequences

CONSTANTS
  Lists,         \* price_lists to be
  LastPriceDay,  \* bound on days
  MaxItems       \* bound: prices set for the variant

ASSUME PriceListsAssumption == LastPriceDay \in Nat \ {0} /\ MaxItems \in Nat

VARIABLES
  priceList,     \* price_lists
  items          \* price_list_items, in the order of their creation

priceListsTables == <<priceList, items>>
priceListsVars == <<priceListsTables, call>>

PriceDays == 1..LastPriceDay
Open == LastPriceDay + 1  \* effectiveTo is null: no day is after it
PriceItem == [from : PriceDays, to : 1..Open]
ListRow == {"none", "plain", "default"}

PriceListsCall ==
  [op : {"setPrice"}, from : PriceDays, to : 1..Open]
  \cup [op : {"createList"}, doc : Lists, row : {"plain", "default"}]

PriceListsInit ==
  /\ priceList = [l \in Lists |-> "none"]
  /\ items = <<>>
  /\ CallsInit

-----------------------------------------------------------------------------
StartCreateList(u, l, row) ==
  /\ priceList[l] = "none"
  /\ Enter(u, [op |-> "createList", doc |-> l, row |-> row])
  /\ priceList' = [m \in Lists |->
                     IF row = "default" /\ priceList[m] = "default" THEN "plain" ELSE priceList[m]]
  /\ UNCHANGED items

FinishCreateList(u) ==
  LET c == call[u]
  IN  /\ c.op = "createList"
      /\ priceList[c.doc] = "none"
      /\ priceList' = [priceList EXCEPT ![c.doc] = c.row]
      /\ Leave(u)
      /\ UNCHANGED items

(* The open prices, but for those that start later. *)
Ends(item, from) == item.to = Open /\ item.from <= from

(* A price that ends does so after its first day. *)
StartSetPrice(u, from, to) ==
  /\ from < to
  /\ Enter(u, [op |-> "setPrice", from |-> from, to |-> to])
  /\ items' = [i \in DOMAIN items |->
                 IF Ends(items[i], from) THEN [items[i] EXCEPT !.to = from] ELSE items[i]]
  /\ UNCHANGED priceList

FinishSetPrice(u) ==
  LET c == call[u]
  IN  /\ c.op = "setPrice"
      /\ Len(items) < MaxItems
      /\ items' = Append(items, [from |-> c.from, to |-> c.to])
      /\ Leave(u)
      /\ UNCHANGED priceList

PriceListFails(u) == Fails(u) /\ UNCHANGED priceListsTables

PriceListsNext ==
  \E u \in Users :
    \/ \E l \in Lists, row \in {"plain", "default"} : StartCreateList(u, l, row)
    \/ FinishCreateList(u)
    \/ \E from \in PriceDays, to \in 1..Open : StartSetPrice(u, from, to)
    \/ FinishSetPrice(u) \/ PriceListFails(u)

PriceListsSpec == PriceListsInit /\ [][PriceListsNext]_priceListsVars

-----------------------------------------------------------------------------
(* getCurrentPrice on a day: of the prices in effect, those that start     *)
(* last; of several that start on one day the query may return any.        *)
InEffect(d) == {i \in DOMAIN items : items[i].from <= d /\ d <= items[i].to}
CurrentPrice(d) == {i \in InEffect(d) : \A j \in InEffect(d) : items[j].from <= items[i].from}

PriceListsTypeOK ==
  /\ priceList \in [Lists -> ListRow]
  /\ items \in Seq(PriceItem) /\ Len(items) <= MaxItems
  /\ call \in [Users -> PriceListsCall \cup {NoCall}]

(* Setting a price from a day on changes what is quoted neither of the     *)
(* days before nor of those for which a later price is in effect, however  *)
(* the two statements of the calls interleave.                             *)
PricesStand ==
  [][\A d \in PriceDays : CurrentPrice(d)' # CurrentPrice(d) =>
       \E u \in Users : \E c \in {call[u], call'[u]} :
         /\ call'[u] # call[u] /\ c.op = "setPrice" /\ c.from <= d
         /\ \A i \in InEffect(d) : items[i].from <= c.from]_priceListsVars
=============================================================================
