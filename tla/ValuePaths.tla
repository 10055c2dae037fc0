----------------------------- MODULE ValuePaths -----------------------------
(***************************************************************************)
(* One value of one column on its two ways to the target: by the initial   *)
(* copy, and by the change in the WAL that a session reads later, for the  *)
(* same row, in the same stream, under the same schema.                    *)
(***************************************************************************)
EXTENDS DataTypes

CONSTANTS
    MaxDepth,      \* bound: how deep arrays nest
    NotRecorded    \* no RECORD yet

ASSUME MaxDepthAssumption == MaxDepth \in Nat
ASSUME NotRecordedAssumption == NotRecorded \notin [depth : 0 .. MaxDepth, json : STRING]

VARIABLES
    column,    \* the column, as discovery finds it
    value,     \* what the row has in it
    copied,    \* the value in the copy's RECORD
    streamed   \* the value in the session's RECORD

vars == <<column, value, copied, streamed>>

Init ==
    /\ column \in Syncable
    /\ value \in Values(column, MaxDepth)
    /\ copied = NotRecorded
    /\ streamed = NotRecorded

\* The row is read by the query of the copy.
Copy ==
    /\ copied = NotRecorded
    /\ copied' = CopyValue(column, value)
    /\ UNCHANGED <<column, value, streamed>>

\* The change that wrote the row is read from the WAL.
Stream ==
    /\ streamed = NotRecorded
    /\ streamed' = DecodeValue(column, value)
    /\ UNCHANGED <<column, value, copied>>

Next == Copy \/ Stream

Spec == Init /\ [][Next]_vars
-----------------------------------------------------------------------------
(***************************************************************************)
(* Properties.                                                             *)
(***************************************************************************)

\* JSON scalars and infinite numerics are emitted although the schema has no
\* place for them, and a NaN key becomes a null its schema excludes.
Misfit ==
    \/ column.data_type \in JSON_TYPES /\ value.scalar = "string"
    \/ column.data_type \in NUMERIC_TYPES /\ value.scalar = "Infinity"
    \/ column.is_primary_key /\ ~column.is_array /\ value.scalar \in {"NaN", "Infinity"}

\* Whatever value a column has, what the copy or the session makes of it is a
\* value of the schema that discovery declared, unless it fails the run: the
\* three agree on every type, in arrays of any depth, the values above apart
\* (SPEC.md 3.4, 3.5, 5, 6.3.6).
ValuesFitSchema ==
    ~Misfit => \A record \in {copied, streamed} \ {NotRecorded} :
                   record.json = "raises" \/ Admits(column, record)

\* Values the two paths treat differently: arrays of more than two levels
\* and of unmapped types, hour 24 in an array, temporal values out of range
\* unless they are scalar timestamps, and of scalar numerics the infinite ones,
\* which the WAL has as null, and those of more digits than a float keeps.
Divergent ==
    LET t == column.data_type
    IN  \/ value.depth > 2
        \/ column.is_array /\ t \in UnmappedTypes
        \/ column.is_array /\ t \in TIME_TYPES /\ value.scalar = "24:00"
        \/ t = "date" /\ value.scalar \in {"beyond 9999", "infinity"}
        \/ column.is_array /\ t \in DATETIME_TYPES /\ value.scalar # "date-time"
        \/ /\ ~column.is_array /\ t \in NUMERIC_TYPES
           /\ value.scalar \in {"long fraction", "Infinity"}

\* A row is the same in the target whether the copy or the WAL brought it
\* (SPEC.md 10.2.3: snapshot and CDC output are consistent): the two
\* conversions differ on the values named above and on no others, as far as
\* Scalars tells values apart.  Of the long fractions SPEC.md 9 asks more:
\* "numeric values must never pass through binary floats".
PathsAgree ==
    NotRecorded \notin {copied, streamed} => (copied = streamed) = ~Divergent
=============================================================================
