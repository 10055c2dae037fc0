-------------------------- MODULE MCLogicalSession --------------------------
(* Instance of LogicalSession for TLC.                                      *)
EXTENDS LogicalSession, TLC

\* The streams are interchangeable (for the runs without liveness).
StreamSymmetry == Permutations(Streams)
=============================================================================
