----------------------------- MODULE MCPointOfSale -----------------------------
(* Small instances of PointOfSale for TLC. *)
EXTENDS PointOfSale, TLC

CONSTANTS w1, u1, u2, po

AllOps == {"receive", "sell", "void"}
AllDocs == {u1, u2, po}
TwoReceipts == {u1, u2}
OneReceipt == {u1}
(* u1 is paid by card, u2 in cash. *)
Tender == [u \in Ulids |-> IF u = u1 THEN 0 ELSE 1]
CashTender == [u \in Ulids |-> 1]
FirstShift == [u \in Ulids |-> CHOOSE s \in Shifts : TRUE]
Perms == Permutations(Workers)
=============================================================================
