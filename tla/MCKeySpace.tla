----------------------------- MODULE MCKeySpace -----------------------------
(***************************************************************************)
(* KeySpace on small instances: symmetry of the workers for the safety     *)
(* runs.                                                                   *)
(***************************************************************************)
EXTENDS KeySpace, TLC

Symmetry == Permutations(Workers)
=============================================================================
