----------------------------- MODULE MCExplorer -----------------------------
(***************************************************************************)
(* Explorer with one run more than may be compared, and one to spare.  Runs  *)
(* may be permuted.                                                          *)
(***************************************************************************)
EXTENDS Explorer, TLC

IdSymmetry == Permutations(Ids)
=============================================================================
