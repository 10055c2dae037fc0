------------------------------ MODULE DataTypes ------------------------------
(***************************************************************************)
(* The types of columns and the values in them, as three pieces of code    *)
(* that never call each other see them: discovery, which declares a JSON   *)
(* schema (discovery.py), the conversion of rows a query returned          *)
(* (conversion.py, with the clamps of sqlgen.py), and the decoding of      *)
(* changes from the WAL (logical.py).  A stream goes from its copy to the  *)
(* WAL, so the two must produce the same record from the same value, and   *)
(* one the schema admits.                                                  *)
(*                                                                         *)
(* A database value is [depth, scalar]: depth nested arrays around a       *)
(* scalar, of which only the kind matters ("Infinity", "24:00").  A record *)
(* value is [depth, json] likewise; "raises" stands for an exception.      *)
(***************************************************************************)
EXTENDS Integers

INTEGER_TYPES   == {"smallint", "integer", "bigint"}
NUMERIC_TYPES   == {"numeric", "decimal"}
FLOAT_TYPES     == {"real", "double precision"}
JSON_TYPES      == {"json", "jsonb"}
STRING_TYPES    == {"character varying", "character", "text", "citext", "uuid", "money",
                    "cidr", "inet", "macaddr"}
DATETIME_TYPES  == {"timestamp without time zone", "timestamp with time zone"}
TIMESTAMP_TYPES == DATETIME_TYPES \cup {"date"}
TIME_TYPES      == {"time without time zone", "time with time zone"}

EnumType == "mood"
UnmappedTypes == {"interval", "bytea", "bit varying"}

DataType ==
    INTEGER_TYPES \cup NUMERIC_TYPES \cup FLOAT_TYPES \cup JSON_TYPES \cup STRING_TYPES
    \cup TIMESTAMP_TYPES \cup TIME_TYPES \cup {"boolean", "bit", "hstore", EnumType}
    \cup UnmappedTypes

\* character_maximum_length of a bit column; 1 for all others.
ColumnInfo ==
    [data_type : DataType, length : {1, 5}, is_array : BOOLEAN, is_primary_key : BOOLEAN]

ColumnInfos == {c \in ColumnInfo : c.data_type # "bit" => c.length = 1}

-----------------------------------------------------------------------------
(***************************************************************************)
(* Discovery: the JSON types (or the format) a column's values may have.   *)
(***************************************************************************)

\* _scalar_column_schema, without "null"; {} is the empty schema.
ScalarSchema(column) ==
    LET t == column.data_type
    IN  CASE t \in INTEGER_TYPES                     -> {"integer"}
          [] t \in NUMERIC_TYPES \cup FLOAT_TYPES    -> {"number"}
          [] t = "boolean"                           -> {"boolean"}
          [] t = "bit"           -> IF column.length > 1 THEN {} ELSE {"boolean"}
          [] t \in STRING_TYPES \cup {EnumType}      -> {"string"}
          [] t \in JSON_TYPES                        -> {"object", "array"}
          [] t = "hstore"                            -> {"object"}
          [] t \in TIMESTAMP_TYPES                   -> {"date-time"}
          [] t \in TIME_TYPES                        -> {"time"}
          [] OTHER                                   -> {}

\* MUTANT: arrays of bits are declared as arrays of text.
ItemSchema_BitAsText(t) ==
    CASE t \in INTEGER_TYPES                    -> {"integer"}
      [] t \in NUMERIC_TYPES \cup FLOAT_TYPES   -> {"number"}
      [] t = "boolean"                          -> {"boolean"}
      [] t \in JSON_TYPES \cup {"hstore"}       -> {"object", "array"}
      [] t \in TIMESTAMP_TYPES                  -> {"date-time"}
      [] OTHER                                  -> {"string", "time"}

\* _array_column_schema: the scalars the recursive definition admits, besides null.
ItemSchema(t) ==
    CASE t \in INTEGER_TYPES                    -> {"integer"}
      [] t \in NUMERIC_TYPES \cup FLOAT_TYPES   -> {"number"}
      [] t \in {"boolean", "bit"}               -> {"boolean"}
      [] t \in JSON_TYPES \cup {"hstore"}       -> {"object", "array"}
      [] t \in TIMESTAMP_TYPES                  -> {"date-time"}
      [] OTHER                                  -> {"string", "time"}

\* build_stream_entry: unsupported comes first, whatever the key says.
Inclusion(column) ==
    IF ~column.is_array /\ ScalarSchema(column) = {} THEN "unsupported"
    ELSE IF column.is_primary_key THEN "automatic" ELSE "available"

\* The JSON type of a record's scalar.
JsonType(json) ==
    CASE json \in {"true", "false"}         -> "boolean"
      [] json \in {"long fraction", "rounded"} -> "number"
      [] json \in {"date-time", "sentinel", "last instant"} -> "date-time"
      [] OTHER                              -> json

\* The declared schema admits a record value.
Admits(column, value) ==
    IF value.depth = 0 /\ value.json = "null" THEN ~column.is_primary_key
    ELSE IF column.is_array
         THEN value.depth > 0 /\ JsonType(value.json) \in ItemSchema(column.data_type) \cup {"null"}
         ELSE value.depth = 0 /\ JsonType(value.json) \in ScalarSchema(column)

-----------------------------------------------------------------------------
(***************************************************************************)
(* Rows of a query.                                                        *)
(***************************************************************************)

\* The kinds of values a type has.  A long fraction is a numeric that is no
\* integer and has more digits than a binary float keeps.
Scalars(column) ==
    LET t == column.data_type
    IN  CASE t \in INTEGER_TYPES                   -> {"integer"}
          [] t \in NUMERIC_TYPES -> {"number", "long fraction", "NaN", "Infinity"}
          [] t \in FLOAT_TYPES                     -> {"number", "NaN", "Infinity"}
          [] t = "boolean"                         -> {"true", "false"}
          [] t = "bit" -> IF column.length > 1 THEN {"bits"} ELSE {"true", "false"}
          [] t \in JSON_TYPES                      -> {"object", "array", "string"}
          [] t = "hstore"                          -> {"object"}
          [] t \in TIMESTAMP_TYPES -> {"date-time", "BC", "beyond 9999", "infinity"}
          [] t \in TIME_TYPES                      -> {"time", "24:00"}
          [] OTHER                                 -> {"string"}

\* What psycopg2 makes of it, with register_type_adapters.  Times arrive as
\* text, but in arrays they are parsed; datetime has no year beyond 9999 or
\* BC, and its last (or first) instant for infinity; unmapped types are
\* timedelta or memoryview, their arrays also a literal nobody parses.
Driver(t, scalar, in_array) ==
    CASE t \in TIMESTAMP_TYPES /\ scalar \in {"BC", "beyond 9999"} -> "raises"
      [] t \in TIMESTAMP_TYPES /\ scalar = "infinity"              -> "last instant"
      [] t \in TIME_TYPES /\ in_array /\ scalar = "24:00"          -> "raises"
      [] t \in UnmappedTypes                                       -> "no mapping"
      [] OTHER                                                     -> scalar

\* MUTANT: values below the range keep their place.
Clamped_AboveOnly(t, scalar) ==
    IF t \in DATETIME_TYPES /\ scalar \in {"beyond 9999", "infinity"} THEN "sentinel" ELSE scalar

\* select_expression: scalar timestamps out of range become the maximum.
Clamped(t, scalar) ==
    IF t \in DATETIME_TYPES /\ scalar \in {"BC", "beyond 9999", "infinity"}
    THEN "sentinel" ELSE scalar

\* fix_hour_24
FixHour24(time) == IF time = "24:00" THEN "time" ELSE time

\* conversion.selected_value_to_singer_value of a scalar, after JSON, bit and
\* time by the class of what the driver delivered.
ConvertScalar(t, value) ==
    CASE value = "no mapping"                        -> "raises"
      [] t = "bit" /\ value = "bits"                 -> "false"
      [] t \in TIME_TYPES                            -> FixHour24(value)
      [] t \in NUMERIC_TYPES /\ value = "NaN"        -> "null"
      [] t \in FLOAT_TYPES /\ value \in {"NaN", "Infinity"} -> "null"
      [] OTHER                                       -> value

\* A copied value: arrays convert to any depth, and are not clamped.
CopyValue(column, value) ==
    LET t == column.data_type
        in_array == value.depth > 0
    IN  [depth |-> value.depth,
         json  |-> ConvertScalar(t, Driver(t, IF in_array THEN value.scalar
                                              ELSE Clamped(t, value.scalar), in_array))]

-----------------------------------------------------------------------------
(***************************************************************************)
(* Changes from the WAL.                                                   *)
(***************************************************************************)

\* A scalar as consume_message has it: wal2json writes no NaN or infinity, and
\* json.loads makes a float of every number with a fraction.  Arrays are text
\* in the message, cast on the server.
Payload(t, scalar, in_array) ==
    IF in_array THEN scalar
    ELSE CASE t \in NUMERIC_TYPES \cup FLOAT_TYPES /\ scalar \in {"NaN", "Infinity"} -> "null"
           [] t \in NUMERIC_TYPES /\ scalar = "long fraction" -> "rounded"
           [] OTHER -> scalar

\* logical.selected_value_to_singer_value of a scalar.
DecodeScalar(t, scalar) ==
    CASE t \in DATETIME_TYPES -> IF scalar = "date-time" THEN scalar ELSE "sentinel"
      [] t = "date" -> IF scalar = "beyond 9999" THEN "sentinel"
                       ELSE IF scalar = "date-time" THEN scalar ELSE "raises"
      [] t \in TIME_TYPES                            -> FixHour24(scalar)
      [] t = "bit" /\ scalar = "bits"                -> "false"
      [] t \in NUMERIC_TYPES /\ scalar = "NaN"       -> "null"
      [] t \in FLOAT_TYPES /\ scalar \in {"NaN", "Infinity"} -> "null"
      [] OTHER                                       -> scalar

\* The same of a list, which is what the rules for scalars are given when
\* arrays nest deeper than the two levels the code unfolds.
DecodeList(t) ==
    CASE t \in DATETIME_TYPES -> "sentinel"
      [] t = "bit"            -> "true"
      [] t = "boolean"        -> "false"
      [] t = "money"          -> "string"
      [] t \in JSON_TYPES     -> "array"
      [] t = "hstore"         -> "object"   \* PostgreSQL casts an even list of texts
      [] OTHER                -> "raises"

\* A streamed value: reconstruct_array asks the server for the array, two
\* levels of which are unfolded.
DecodeValue(column, value) ==
    LET t == column.data_type
    IN  IF value.depth > 2 THEN [depth |-> 2, json |-> DecodeList(t)]
        ELSE [depth |-> value.depth,
              json  |-> DecodeScalar(t, Payload(t, value.scalar, value.depth > 0))]

-----------------------------------------------------------------------------
\* The columns that may be synced, and the values a column may have.
Syncable == {c \in ColumnInfos : Inclusion(c) # "unsupported"}

Values(column, max_depth) ==
    [depth : IF column.is_array THEN 1 .. max_depth ELSE {0}, scalar : Scalars(column)]
=============================================================================
