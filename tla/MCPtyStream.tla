---------------------------- MODULE MCPtyStream ----------------------------
(* Viewers of one session, with water marks small enough to cross. *)
EXTENDS PtyStream, TLC

\* Viewers are interchangeable in every safety property
ViewerSymmetry == Permutations(Viewers)
=============================================================================
