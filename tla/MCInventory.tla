------------------------------ MODULE MCInventory ------------------------------
(* Small instances of Inventory for TLC. *)
EXTENDS Inventory, TLC

CONSTANTS w1, w2, t1, t2, s1, s2, po, so

AllOps == {"receive", "issue", "transfer", "openSession", "count", "approveCount"}
TwoTransfers == {t1, t2}
OneTransfer == {t1}
TwoSessions == {s1, s2}
OneSession == {s1}
AllDocs == {t1, t2, s1, s2, po, so}
NoSessions == {}
NoTransfers == {}
Perms == Permutations(Workers)
BothCountFirst == [s \in Sessions |-> w1]

=============================================================================
