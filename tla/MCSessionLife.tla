--------------------------- MODULE MCSessionLife ---------------------------
(* A shell and a routine session, and a machine with few pids. *)
EXTENDS SessionLife, TLC

\* The daemon compares pids with each other only
PidsAlike == Permutations(Pids)
=============================================================================
