------------------------------ MODULE MCPosting ------------------------------
(* Small instances of Posting for TLC. *)
EXTENDS Posting, TLC

Perms == Permutations(Users) \cup Permutations(Posters) \cup Permutations(Codes)
=============================================================================
