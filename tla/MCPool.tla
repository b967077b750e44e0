------------------------------- MODULE MCPool -------------------------------
(***************************************************************************)
(* Pool on small instances, in its three modes.                            *)
(***************************************************************************)
EXTENDS Pool
=============================================================================
