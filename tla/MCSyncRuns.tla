----------------------------- MODULE MCSyncRuns -----------------------------
(* Instance of SyncRuns for TLC: the keys are interchangeable.              *)
EXTENDS SyncRuns, TLC

KeySymmetry == Permutations(Keys)
=============================================================================
