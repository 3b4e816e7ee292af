--------------------------- MODULE MCLoginLimiter ---------------------------
(***************************************************************************)
(* Two addresses and two accounts, of which three pairs fit in the table.  *)
(***************************************************************************)
EXTENDS LoginLimiter, TLC

Symmetry == Permutations(Clients) \cup Permutations(Users)
=============================================================================
