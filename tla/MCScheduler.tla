---------------------------- MODULE MCScheduler -----------------------------
(***************************************************************************)
(* The scheduler for TLC.  The bounds are in the .cfg files; what they     *)
(* cannot write is here.                                                   *)
(***************************************************************************)
EXTENDS SchedulerProperties

\* One hint between the smallest and the largest back-off.
Hints == {2}
=============================================================================
