-------------------------- MODULE MCUpdateSchedule --------------------------
(* UpdateSchedule with two handlers; they are symmetric. *)
EXTENDS UpdateSchedule, TLC

HandlerSymmetry == Permutations(Handlers)
=============================================================================
