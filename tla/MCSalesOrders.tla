----------------------------- MODULE MCSalesOrders -----------------------------
(* Small instances of SalesOrders for TLC. *)
EXTENDS SalesOrders, TLC

CONSTANTS w1, so1, so2, so3, po, sale

AllOps == {"receive", "issue", "place", "confirm", "cancel"}
ThreeOrders == {so1, so2, so3}
AllDocs == {so1, so2, so3, po, sale}
Lines == [o \in Orders |-> [wh |-> w1, qty |-> IF o = so1 THEN 1 ELSE 2]]
Years == [o \in Orders |-> IF o = so3 THEN 2027 ELSE 2026]
Perms == Permutations(Workers)
=============================================================================
