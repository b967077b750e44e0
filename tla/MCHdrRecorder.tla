--------------------------- MODULE MCHdrRecorder ---------------------------
(***************************************************************************)
(* HdrRecorder on small instances.                                         *)
(***************************************************************************)
EXTENDS HdrRecorder, Functions, TLC

\* Total is the sum of the counts; a count below zero would count nothing.
ASSUME TotalIsTheSum ==
    \A n \in 0 .. 3 : \A f \in [1 .. n -> 0 .. 3] : Total(f) = SumFunction(f)

Symmetry == Permutations(Workers)
=============================================================================
