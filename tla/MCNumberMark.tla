---------------------------- MODULE MCNumberMark ----------------------------
(* NumberMark with two spellings of one number. *)
EXTENDS NumberMark, TLC

MCStandard == ("138" :> "138") @@ ("+86138" :> "138")
MCNumbers == {"138"}
MCSpellings == DOMAIN MCStandard

ThreadSymmetry == Permutations(Threads)
=============================================================================
