---------------------------- MODULE MCScheduler ----------------------------
(***************************************************************************)
(* The scheduler on a timeline of four instants and three event             *)
(* identifiers: enough for two events at one time, one in the past of the   *)
(* clock, a cancelled entry behind a live one and an overflowing delay.     *)
(***************************************************************************)
EXTENDS Scheduler
=============================================================================
