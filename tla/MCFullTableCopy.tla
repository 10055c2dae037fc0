--------------------------- MODULE MCFullTableCopy ---------------------------
(* Instance of FullTableCopy for TLC.                                        *)
EXTENDS FullTableCopy
=============================================================================
