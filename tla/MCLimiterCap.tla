---------------------------- MODULE MCLimiterCap ----------------------------
(***************************************************************************)
(* LimiterCap on small targets; a limiter that was stopped and emptied has  *)
(* nothing left to do.                                                     *)
(***************************************************************************)
EXTENDS LimiterCap
=============================================================================
