--------------------------- MODULE MCResultStore ---------------------------
(***************************************************************************)
(* ResultStore on two runs.  Nothing but their timestamps tells runs apart,  *)
(* so they may be permuted.                                                  *)
(***************************************************************************)
EXTENDS ResultStore, TLC

RunSymmetry == Permutations(Runs)
=============================================================================
