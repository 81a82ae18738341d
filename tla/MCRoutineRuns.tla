---------------------------- MODULE MCRoutineRuns ----------------------------
(* One or two routines and one or two runs, in one slot. *)
EXTENDS RoutineRuns
=============================================================================
