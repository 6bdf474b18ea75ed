---------------------------- MODULE NumberDispenser ----------------------------
(***************************************************************************)
(* What the Sequence Engine promises in the header of                      *)
(* apps/api/src/engines/sequence/sequence.service.ts: per company, branch, *)
(* prefix and year, document numbers are handed out one block after the    *)
(* other, each block starting where the one before it ended, whatever      *)
(* number of callers ask at once.                                          *)
(*                                                                         *)
(* A key stands for one <<company, branch, prefix, year>>; a block is the  *)
(* numbers from..to (one number for nextNumber, several for reserveRange). *)
(***************************************************************************)
EXTENDS Integers, Sequences

CONSTANTS
  Keys,       \* the keys numbers are handed out for
  MaxBlock    \* the largest block a caller may reserve

VARIABLE issued   \* issued[k]: the blocks handed out under key k, in order

(* The last number handed out under k. *)
Last(k) == IF issued[k] = <<>> THEN 0 ELSE issued[k][Len(issued[k])].to

Init == issued = [k \in Keys |-> <<>>]

Issue(k, n) ==
  issued' = [issued EXCEPT ![k] =
               Append(@, [from |-> Last(k) + 1, to |-> Last(k) + n])]

Next == \E k \in Keys, n \in 1..MaxBlock : Issue(k, n)

Spec == Init /\ [][Next]_issued
=============================================================================
