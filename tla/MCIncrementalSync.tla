-------------------------- MODULE MCIncrementalSync --------------------------
(* Instance of IncrementalSync for TLC.                                      *)
EXTENDS IncrementalSync, TLC

\* The rows are interchangeable.
RowSymmetry == Permutations(Rows)

\* 1 is a timestamp before the first year, 2 and 3 are bookmarked as they are, 4
\* is the time 24:00:00 and 5 is a float that JSON cannot express.  No table has
\* keys of all of these types, and none has behaviours that this one lacks.
MCConverted == << 3, 2, 3, 2, None >>
=============================================================================
