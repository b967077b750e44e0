--------------------------- MODULE MCOrchestrator ---------------------------
(***************************************************************************)
(* Orchestrator on small instances.  The threads are numbered, and the last  *)
(* one differs from the others: there is no symmetry.                        *)
(***************************************************************************)
EXTENDS Orchestrator, TLC
=============================================================================
