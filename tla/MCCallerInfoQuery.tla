------------------------- MODULE MCCallerInfoQuery -------------------------
(* CallerInfoQuery for TLC. *)
EXTENDS CallerInfoQuery, TLC

QuerySymmetry == Permutations(Queries)
=============================================================================
