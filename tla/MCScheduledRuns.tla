-------------------------- MODULE MCScheduledRuns --------------------------
(***************************************************************************)
(* ScheduledRuns on small instances.  The slots are interchangeable, but      *)
(* liveness is checked: there is no symmetry.                                *)
(***************************************************************************)
EXTENDS ScheduledRuns, TLC
=============================================================================
