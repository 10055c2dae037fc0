-------------------------- MODULE ValuePathsProofs --------------------------
(***************************************************************************)
(* What holds of the two ways of a value for arrays of any depth: each     *)
(* class of types is taken by itself, with what discovery declares of it   *)
(* and what the two conversions make of its scalars.                       *)
(***************************************************************************)
EXTENDS ValuePaths, TLAPS

USE DEF INTEGER_TYPES, NUMERIC_TYPES, FLOAT_TYPES, JSON_TYPES, STRING_TYPES, DATETIME_TYPES,
        TIMESTAMP_TYPES, TIME_TYPES, EnumType, UnmappedTypes

-----------------------------------------------------------------------------
(***************************************************************************)
(* The classes of types.                                                   *)
(***************************************************************************)

\* What a query's row makes of a scalar.
CopyScalar(t, scalar, in_array) ==
    ConvertScalar(t, Driver(t, IF in_array THEN scalar ELSE Clamped(t, scalar), in_array))

\* What a change from the WAL makes of it.
StreamScalar(t, scalar, in_array) == DecodeScalar(t, Payload(t, scalar, in_array))

\* The types of a class, as discovery declares them and with their scalars.
Declared(c, scalars, schema, items) ==
    Scalars(c) = scalars /\ ScalarSchema(c) = schema /\ ItemSchema(c.data_type) = items

\* A scalar that both paths make the same of, in arrays too.
Same(t, scalar, json) ==
    /\ CopyScalar(t, scalar, TRUE) = json /\ CopyScalar(t, scalar, FALSE) = json
    /\ StreamScalar(t, scalar, TRUE) = json /\ StreamScalar(t, scalar, FALSE) = json

LEMMA OfInteger ==
    ASSUME NEW c, c.data_type \in INTEGER_TYPES
    PROVE  /\ Declared(c, {"integer"}, {"integer"}, {"integer"})
           /\ Same(c.data_type, "integer", "integer") /\ DecodeList(c.data_type) = "raises"
BY DEF Declared, Same, ScalarSchema, ItemSchema, Scalars, CopyScalar, ConvertScalar, Driver, Clamped,
       StreamScalar, Payload, DecodeScalar, DecodeList

LEMMA OfNumeric ==
    ASSUME NEW c, c.data_type \in NUMERIC_TYPES
    PROVE  /\ Declared(c, {"number", "long fraction", "NaN", "Infinity"}, {"number"}, {"number"})
           /\ Same(c.data_type, "number", "number") /\ Same(c.data_type, "NaN", "null")
           /\ \A s \in {"long fraction", "Infinity"} :
                  /\ \A b \in BOOLEAN : CopyScalar(c.data_type, s, b) = s
                  /\ StreamScalar(c.data_type, s, TRUE) = s
           /\ StreamScalar(c.data_type, "long fraction", FALSE) = "rounded"
           /\ StreamScalar(c.data_type, "Infinity", FALSE) = "null"
           /\ DecodeList(c.data_type) = "raises"
<1>1. Declared(c, {"number", "long fraction", "NaN", "Infinity"}, {"number"}, {"number"})
  BY DEF Declared, ScalarSchema, ItemSchema, Scalars
<1>2. ASSUME NEW s \in {"number", "long fraction", "NaN", "Infinity"}, NEW b \in BOOLEAN
      PROVE  CopyScalar(c.data_type, s, b) = IF s = "NaN" THEN "null" ELSE s
  BY DEF CopyScalar, ConvertScalar, Driver, Clamped
<1>3. ASSUME NEW s \in {"number", "long fraction", "NaN", "Infinity"}
      PROVE  StreamScalar(c.data_type, s, TRUE) = IF s = "NaN" THEN "null" ELSE s
  <2>1. Payload(c.data_type, s, TRUE) = s
    BY DEF Payload
  <2>2. DecodeScalar(c.data_type, "NaN") = "null"
    BY DEF DecodeScalar
  <2>3. s # "NaN" => DecodeScalar(c.data_type, s) = s
    BY DEF DecodeScalar
  <2> QED BY <2>1, <2>2, <2>3 DEF StreamScalar
<1>4. /\ StreamScalar(c.data_type, "number", FALSE) = "number"
      /\ StreamScalar(c.data_type, "NaN", FALSE) = "null"
      /\ StreamScalar(c.data_type, "long fraction", FALSE) = "rounded"
      /\ StreamScalar(c.data_type, "Infinity", FALSE) = "null"
  BY DEF StreamScalar, Payload, DecodeScalar
<1>5. DecodeList(c.data_type) = "raises"
  BY DEF DecodeList
<1> HIDE DEF NUMERIC_TYPES
<1> QED BY <1>1, <1>2, <1>3, <1>4, <1>5 DEF Same

LEMMA OfFloat ==
    ASSUME NEW c, c.data_type \in FLOAT_TYPES
    PROVE  /\ Declared(c, {"number", "NaN", "Infinity"}, {"number"}, {"number"})
           /\ Same(c.data_type, "number", "number") /\ Same(c.data_type, "NaN", "null")
           /\ Same(c.data_type, "Infinity", "null") /\ DecodeList(c.data_type) = "raises"
<1>1. Declared(c, {"number", "NaN", "Infinity"}, {"number"}, {"number"})
  BY DEF Declared, ScalarSchema, ItemSchema, Scalars
<1>2. ASSUME NEW s \in {"number", "NaN", "Infinity"}, NEW b \in BOOLEAN
      PROVE  CopyScalar(c.data_type, s, b) = IF s = "number" THEN s ELSE "null"
  BY DEF CopyScalar, ConvertScalar, Driver, Clamped
<1>3. ASSUME NEW s \in {"number", "NaN", "Infinity"}, NEW b \in BOOLEAN
      PROVE  StreamScalar(c.data_type, s, b) = IF s = "number" THEN s ELSE "null"
  <2>1. Payload(c.data_type, s, b) = IF ~b /\ s # "number" THEN "null" ELSE s
    BY DEF Payload
  <2>2. DecodeScalar(c.data_type, "number") = "number" /\ DecodeScalar(c.data_type, "null") = "null"
    BY DEF DecodeScalar
  <2>3. s # "number" => DecodeScalar(c.data_type, s) = "null"
    BY DEF DecodeScalar
  <2> QED BY <2>1, <2>2, <2>3 DEF StreamScalar
<1>4. DecodeList(c.data_type) = "raises"
  BY DEF DecodeList
<1> HIDE DEF FLOAT_TYPES
<1> QED BY <1>1, <1>2, <1>3, <1>4 DEF Same

LEMMA OfBoolean ==
    ASSUME NEW c, c.data_type = "boolean"
    PROVE  /\ Declared(c, {"true", "false"}, {"boolean"}, {"boolean"})
           /\ Same(c.data_type, "true", "true") /\ Same(c.data_type, "false", "false")
           /\ DecodeList(c.data_type) = "false"
BY DEF Declared, Same, ScalarSchema, ItemSchema, Scalars, CopyScalar, ConvertScalar, Driver, Clamped,
       StreamScalar, Payload, DecodeScalar, DecodeList

\* A column of one bit is a boolean; of more, it may be synced only as an array.
LEMMA OfBit ==
    ASSUME NEW c, c.data_type = "bit"
    PROVE  /\ IF c.length > 1 THEN Declared(c, {"bits"}, {}, {"boolean"})
              ELSE Declared(c, {"true", "false"}, {"boolean"}, {"boolean"})
           /\ Same(c.data_type, "true", "true") /\ Same(c.data_type, "false", "false")
           /\ Same(c.data_type, "bits", "false") /\ DecodeList(c.data_type) = "true"
BY DEF Declared, Same, ScalarSchema, ItemSchema, Scalars, CopyScalar, ConvertScalar, Driver, Clamped,
       StreamScalar, Payload, DecodeScalar, DecodeList

LEMMA OfJson ==
    ASSUME NEW c, c.data_type \in JSON_TYPES
    PROVE  /\ Declared(c, {"object", "array", "string"}, {"object", "array"}, {"object", "array"})
           /\ Same(c.data_type, "object", "object") /\ Same(c.data_type, "array", "array")
           /\ Same(c.data_type, "string", "string") /\ DecodeList(c.data_type) = "array"
BY DEF Declared, Same, ScalarSchema, ItemSchema, Scalars, CopyScalar, ConvertScalar, Driver, Clamped,
       StreamScalar, Payload, DecodeScalar, DecodeList

LEMMA OfHstore ==
    ASSUME NEW c, c.data_type = "hstore"
    PROVE  /\ Declared(c, {"object"}, {"object"}, {"object", "array"})
           /\ Same(c.data_type, "object", "object") /\ DecodeList(c.data_type) = "object"
BY DEF Declared, Same, ScalarSchema, ItemSchema, Scalars, CopyScalar, ConvertScalar, Driver, Clamped,
       StreamScalar, Payload, DecodeScalar, DecodeList

LEMMA OfString ==
    ASSUME NEW c, c.data_type \in STRING_TYPES \cup {EnumType}
    PROVE  /\ Declared(c, {"string"}, {"string"}, {"string", "time"})
           /\ Same(c.data_type, "string", "string") /\ DecodeList(c.data_type) \in {"string", "raises"}
BY DEF Declared, Same, ScalarSchema, ItemSchema, Scalars, CopyScalar, ConvertScalar, Driver, Clamped,
       StreamScalar, Payload, DecodeScalar, DecodeList

\* Out of range, a timestamp is the maximum unless the driver parses it in an
\* array of the query's row.
LEMMA OfDatetime ==
    ASSUME NEW c, c.data_type \in DATETIME_TYPES
    PROVE  /\ Declared(c, {"date-time", "BC", "beyond 9999", "infinity"}, {"date-time"}, {"date-time"})
           /\ Same(c.data_type, "date-time", "date-time") /\ DecodeList(c.data_type) = "sentinel"
           /\ \A s \in {"BC", "beyond 9999", "infinity"} :
                  /\ CopyScalar(c.data_type, s, FALSE) = "sentinel"
                  /\ CopyScalar(c.data_type, s, TRUE) \in {"raises", "last instant"}
                  /\ \A b \in BOOLEAN : StreamScalar(c.data_type, s, b) = "sentinel"
<1>1. ASSUME NEW s \in {"BC", "beyond 9999", "infinity"}
      PROVE  /\ CopyScalar(c.data_type, s, FALSE) = "sentinel"
             /\ CopyScalar(c.data_type, s, TRUE) \in {"raises", "last instant"}
             /\ \A b \in BOOLEAN : StreamScalar(c.data_type, s, b) = "sentinel"
  BY DEF CopyScalar, ConvertScalar, Driver, Clamped, StreamScalar, Payload,
         DecodeScalar
<1>2. /\ Declared(c, {"date-time", "BC", "beyond 9999", "infinity"}, {"date-time"}, {"date-time"})
      /\ Same(c.data_type, "date-time", "date-time") /\ DecodeList(c.data_type) = "sentinel"
  BY DEF Declared, Same, ScalarSchema, ItemSchema, Scalars, CopyScalar, ConvertScalar, Driver, Clamped,
         StreamScalar, Payload, DecodeScalar, DecodeList
<1> QED BY <1>1, <1>2

\* Dates are not clamped.
LEMMA OfDate ==
    ASSUME NEW c, c.data_type = "date"
    PROVE  /\ Declared(c, {"date-time", "BC", "beyond 9999", "infinity"}, {"date-time"}, {"date-time"})
           /\ Same(c.data_type, "date-time", "date-time") /\ Same(c.data_type, "BC", "raises")
           /\ DecodeList(c.data_type) = "raises"
           /\ \A b \in BOOLEAN : /\ CopyScalar(c.data_type, "beyond 9999", b) = "raises"
                                 /\ CopyScalar(c.data_type, "infinity", b) = "last instant"
                                 /\ StreamScalar(c.data_type, "beyond 9999", b) = "sentinel"
                                 /\ StreamScalar(c.data_type, "infinity", b) = "raises"
BY DEF Declared, Same, ScalarSchema, ItemSchema, Scalars, CopyScalar, ConvertScalar, Driver, Clamped,
       StreamScalar, Payload, DecodeScalar, DecodeList

LEMMA OfTime ==
    ASSUME NEW c, c.data_type \in TIME_TYPES
    PROVE  /\ Declared(c, {"time", "24:00"}, {"time"}, {"string", "time"})
           /\ Same(c.data_type, "time", "time") /\ DecodeList(c.data_type) = "raises"
           /\ CopyScalar(c.data_type, "24:00", FALSE) = "time"
           /\ CopyScalar(c.data_type, "24:00", TRUE) = "raises"
           /\ \A b \in BOOLEAN : StreamScalar(c.data_type, "24:00", b) = "time"
BY DEF Declared, Same, ScalarSchema, ItemSchema, Scalars, CopyScalar, ConvertScalar, Driver, Clamped,
       StreamScalar, Payload, DecodeScalar, DecodeList, FixHour24

LEMMA OfUnmapped ==
    ASSUME NEW c, c.data_type \in UnmappedTypes
    PROVE  /\ Declared(c, {"string"}, {}, {"string", "time"})
           /\ \A b \in BOOLEAN : /\ CopyScalar(c.data_type, "string", b) = "raises"
                                 /\ StreamScalar(c.data_type, "string", b) = "string"
           /\ DecodeList(c.data_type) = "raises"
<1>1. Declared(c, {"string"}, {}, {"string", "time"})
  BY DEF Declared, ScalarSchema, ItemSchema, Scalars
<1>2. ASSUME NEW b \in BOOLEAN PROVE CopyScalar(c.data_type, "string", b) = "raises"
  <2>1. \A s : Driver(c.data_type, s, b) = "no mapping"
    BY DEF Driver
  <2>2. ConvertScalar(c.data_type, "no mapping") = "raises"
    BY DEF ConvertScalar
  <2> QED BY <2>1, <2>2 DEF CopyScalar
<1>3. ASSUME NEW b \in BOOLEAN PROVE StreamScalar(c.data_type, "string", b) = "string"
  BY DEF StreamScalar, Payload, DecodeScalar
<1>4. DecodeList(c.data_type) = "raises"
  BY DEF DecodeList
<1> QED BY <1>1, <1>2, <1>3, <1>4

LEMMA AllClasses ==
    ASSUME NEW t \in DataType
    PROVE  \/ t \in INTEGER_TYPES \/ t \in NUMERIC_TYPES \/ t \in FLOAT_TYPES \/ t = "boolean"
           \/ t = "bit" \/ t \in JSON_TYPES \/ t = "hstore" \/ t \in STRING_TYPES \cup {EnumType}
           \/ t \in DATETIME_TYPES \/ t = "date" \/ t \in TIME_TYPES \/ t \in UnmappedTypes
BY DEF DataType

\* The classes that Misfit and Divergent name.
Ordinary(t) == /\ t \notin JSON_TYPES /\ t \notin NUMERIC_TYPES /\ t \notin UnmappedTypes
               /\ t \notin TIME_TYPES /\ t \notin DATETIME_TYPES /\ t # "date"

LEMMA OrdinaryTypes ==
    ASSUME NEW t, t \in INTEGER_TYPES \cup FLOAT_TYPES \cup STRING_TYPES
                        \cup {EnumType, "boolean", "bit", "hstore"}
    PROVE  Ordinary(t)
BY DEF Ordinary

LEMMA OtherTypes ==
    ASSUME NEW t
    PROVE  /\ t \in JSON_TYPES => /\ t \notin NUMERIC_TYPES /\ t \notin UnmappedTypes
                                  /\ t \notin TIME_TYPES /\ t \notin DATETIME_TYPES /\ t # "date"
           /\ t \in NUMERIC_TYPES => /\ t \notin JSON_TYPES /\ t \notin UnmappedTypes
                                     /\ t \notin TIME_TYPES /\ t \notin DATETIME_TYPES /\ t # "date"
           /\ t \in UnmappedTypes => /\ t \notin JSON_TYPES /\ t \notin NUMERIC_TYPES
                                     /\ t \notin TIME_TYPES /\ t \notin DATETIME_TYPES /\ t # "date"
           /\ t \in TIME_TYPES => /\ t \notin JSON_TYPES /\ t \notin NUMERIC_TYPES
                                  /\ t \notin UnmappedTypes /\ t \notin DATETIME_TYPES /\ t # "date"
           /\ t \in DATETIME_TYPES => /\ t \notin JSON_TYPES /\ t \notin NUMERIC_TYPES
                                      /\ t \notin UnmappedTypes /\ t \notin TIME_TYPES /\ t # "date"
           /\ t = "date" => /\ t \notin JSON_TYPES /\ t \notin NUMERIC_TYPES /\ t \notin UnmappedTypes
                            /\ t \notin TIME_TYPES /\ t \notin DATETIME_TYPES
OBVIOUS

HIDE DEF INTEGER_TYPES, NUMERIC_TYPES, FLOAT_TYPES, JSON_TYPES, STRING_TYPES, DATETIME_TYPES,
         TIMESTAMP_TYPES, TIME_TYPES, EnumType, UnmappedTypes

-----------------------------------------------------------------------------
(***************************************************************************)
(* One value.                                                              *)
(***************************************************************************)

Fits(record) == record.json = "raises" \/ Admits(column, record)

ValueOK ==
    /\ ~Misfit => Fits(CopyValue(column, value)) /\ Fits(DecodeValue(column, value))
    /\ CopyValue(column, value) = DecodeValue(column, value) <=> ~Divergent

\* The schema has a place for a scalar of the column, at whatever depth.
Admissible(c, json) ==
    \/ json = "raises"
    \/ IF c.is_array THEN JsonType(json) \in ItemSchema(c.data_type) \cup {"null"}
       ELSE IF json = "null" THEN ~c.is_primary_key
       ELSE JsonType(json) \in ScalarSchema(c)

LEMMA AdmissibleFits ==
    ASSUME column.is_array \in BOOLEAN, column.is_primary_key \in BOOLEAN,
           NEW d \in Nat, column.is_array <=> d > 0, NEW json, Admissible(column, json)
    PROVE  Fits([depth |-> d, json |-> json])
<1>1. CASE column.is_array
  BY <1>1 DEF Fits, Admits, Admissible
<1>2. CASE ~column.is_array
  BY <1>2 DEF Fits, Admits, Admissible
<1> QED BY <1>1, <1>2

\* What of a class of types has to be known.
ScalarOK(c, s) ==
    LET copy   == CopyScalar(c.data_type, s, c.is_array)
        decode == StreamScalar(c.data_type, s, c.is_array)
    IN  /\ ~Misfit => Admissible(c, copy) /\ Admissible(c, decode)
        /\ value.depth <= 2 => (copy = decode <=> ~Divergent)
        /\ c.is_array => Admissible(c, DecodeList(c.data_type))

\* Both paths make the same of it.
LEMMA AgreeOK ==
    ASSUME NEW c, NEW s, NEW json,
           CopyScalar(c.data_type, s, c.is_array) = json,
           StreamScalar(c.data_type, s, c.is_array) = json,
           Misfit \/ Admissible(c, json), c.is_array => Admissible(c, DecodeList(c.data_type)),
           value.depth \in Nat, Divergent <=> value.depth > 2
    PROVE  ScalarOK(c, s)
BY DEF ScalarOK

LEMMA SameOK ==
    ASSUME NEW c, NEW s, NEW json, Same(c.data_type, s, json), c.is_array \in BOOLEAN,
           Misfit \/ Admissible(c, json), c.is_array => Admissible(c, DecodeList(c.data_type)),
           value.depth \in Nat, Divergent <=> value.depth > 2
    PROVE  ScalarOK(c, s)
<1>1. /\ CopyScalar(c.data_type, s, c.is_array) = json
      /\ StreamScalar(c.data_type, s, c.is_array) = json
  BY DEF Same
<1> QED BY <1>1, AgreeOK

\* The paths do not agree on it, and that is one of the divergences.
LEMMA OtherOK ==
    ASSUME NEW c, NEW s, NEW copy, NEW decode,
           CopyScalar(c.data_type, s, c.is_array) = copy,
           StreamScalar(c.data_type, s, c.is_array) = decode,
           copy # decode, Divergent, Admissible(c, copy), Admissible(c, decode),
           c.is_array => Admissible(c, DecodeList(c.data_type))
    PROVE  ScalarOK(c, s)
BY DEF ScalarOK

LEMMA OrdinaryValue ==
    ASSUME Ordinary(column.data_type)
    PROVE  Divergent <=> value.depth > 2
BY DEF Ordinary, Divergent

\* A null, where the schema has no place for it, is the key's.
LEMMA NullFits ==
    ASSUME NEW c, c = column, c.is_array \in BOOLEAN, c.is_primary_key \in BOOLEAN,
           value.scalar \in {"NaN", "Infinity"}
    PROVE  Misfit \/ Admissible(c, "null")
<1>1. JsonType("null") = "null"
  BY DEF JsonType
<1>2. CASE c.is_array
  BY <1>1, <1>2 DEF Admissible
<1>3. CASE ~c.is_array
  BY <1>3 DEF Admissible, Misfit
<1> QED BY <1>2, <1>3

LEMMA EveryScalar ==
    ASSUME NEW c, c = column, NEW s, s = value.scalar, c.data_type \in DataType, s \in Scalars(c),
           c.is_array \in BOOLEAN, c.is_primary_key \in BOOLEAN, c.length \in {1, 5},
           ~c.is_array => ScalarSchema(c) # {}, value.depth \in Nat
    PROVE  ScalarOK(c, s)
<1>1. CASE c.data_type \in INTEGER_TYPES
  <2>1. s = "integer" /\ Same(c.data_type, s, "integer") /\ DecodeList(c.data_type) = "raises"
    BY <1>1, OfInteger DEF Declared
  <2>2. Admissible(c, "integer") /\ Admissible(c, "raises")
    BY <1>1, OfInteger DEF Declared, Admissible, JsonType
  <2> QED BY <1>1, <2>1, <2>2, OrdinaryTypes, OrdinaryValue, SameOK
<1>2. CASE c.data_type \in NUMERIC_TYPES
  <2>1. /\ s \in {"number", "long fraction", "NaN", "Infinity"}
        /\ DecodeList(c.data_type) = "raises"
        /\ Same(c.data_type, "number", "number") /\ Same(c.data_type, "NaN", "null")
    BY <1>2, OfNumeric DEF Declared
  <2>2. /\ Admissible(c, "number") /\ Admissible(c, "long fraction")
        /\ Admissible(c, "rounded") /\ Admissible(c, "raises")
    BY <1>2, OfNumeric DEF Declared, Admissible, JsonType
  <2>3. Divergent <=> value.depth > 2 \/ (~c.is_array /\ s \in {"long fraction", "Infinity"})
    BY <1>2, OtherTypes DEF Divergent
  <2>4. CASE s = "number"
    BY <2>1, <2>2, <2>3, <2>4, SameOK
  <2>5. CASE s = "NaN"
    BY <2>1, <2>2, <2>3, <2>5, NullFits, SameOK
  <2>6. CASE s \in {"long fraction", "Infinity"}
    <3>1. /\ CopyScalar(c.data_type, s, c.is_array) = s
          /\ StreamScalar(c.data_type, s, TRUE) = s
          /\ StreamScalar(c.data_type, "long fraction", FALSE) = "rounded"
          /\ StreamScalar(c.data_type, "Infinity", FALSE) = "null"
      BY <1>2, <2>6, OfNumeric
    <3>2. Misfit \/ (s = "long fraction" /\ Admissible(c, s))
      BY <1>2, <2>2, <2>6 DEF Misfit
    <3>3. CASE c.is_array
      BY <2>1, <2>2, <2>3, <3>1, <3>2, <3>3, AgreeOK
    <3>4. CASE s = "long fraction" /\ ~c.is_array
      BY <2>1, <2>2, <2>3, <3>1, <3>4, OtherOK
    <3>5. CASE s = "Infinity" /\ ~c.is_array
      <4>1. Misfit /\ Divergent
        BY <1>2, <2>3, <3>2, <3>5
      <4>2. CopyScalar(c.data_type, s, c.is_array) # StreamScalar(c.data_type, s, c.is_array)
        BY <3>1, <3>5
      <4> QED BY <3>5, <4>1, <4>2 DEF ScalarOK
    <3> QED BY <2>6, <3>3, <3>4, <3>5
  <2> QED BY <2>1, <2>4, <2>5, <2>6
<1>3. CASE c.data_type \in FLOAT_TYPES
  <2>1. /\ s \in {"number", "NaN", "Infinity"} /\ DecodeList(c.data_type) = "raises"
        /\ Same(c.data_type, "number", "number") /\ Same(c.data_type, "NaN", "null")
        /\ Same(c.data_type, "Infinity", "null")
    BY <1>3, OfFloat DEF Declared
  <2>2. Admissible(c, "number") /\ Admissible(c, "raises")
    BY <1>3, OfFloat DEF Declared, Admissible, JsonType
  <2>3. Divergent <=> value.depth > 2
    BY <1>3, OrdinaryTypes, OrdinaryValue
  <2>4. CASE s = "number"
    BY <2>1, <2>2, <2>3, <2>4, SameOK
  <2>5. CASE s \in {"NaN", "Infinity"}
    BY <2>1, <2>2, <2>3, <2>5, NullFits, SameOK
  <2> QED BY <2>1, <2>4, <2>5
<1>4. CASE c.data_type = "boolean"
  <2>1. s \in {"true", "false"} /\ Same(c.data_type, s, s) /\ DecodeList(c.data_type) = "false"
    BY <1>4, OfBoolean DEF Declared
  <2>2. Admissible(c, "true") /\ Admissible(c, "false")
    BY <1>4, OfBoolean DEF Declared, Admissible, JsonType
  <2>3. Admissible(c, s)
    BY <2>1, <2>2
  <2> QED BY <1>4, <2>1, <2>2, <2>3, OrdinaryTypes, OrdinaryValue, SameOK
<1>5. CASE c.data_type = "bit"
  <2>1. /\ s \in {"true", "false", "bits"} /\ DecodeList(c.data_type) = "true"
        /\ Same(c.data_type, "true", "true") /\ Same(c.data_type, "false", "false")
        /\ Same(c.data_type, "bits", "false")
        /\ ItemSchema(c.data_type) = {"boolean"} /\ (~c.is_array => ScalarSchema(c) = {"boolean"})
    BY <1>5, OfBit DEF Declared
  <2>2. Admissible(c, "true") /\ Admissible(c, "false")
    BY <2>1 DEF Admissible, JsonType
  <2>3. Divergent <=> value.depth > 2
    BY <1>5, OrdinaryTypes, OrdinaryValue
  <2>4. PICK json \in {"true", "false"} : Same(c.data_type, s, json)
    BY <2>1
  <2>5. Admissible(c, json)
    BY <2>2, <2>4
  <2> QED BY <2>1, <2>2, <2>3, <2>4, <2>5, SameOK
<1>6. CASE c.data_type \in JSON_TYPES
  <2>1. s \in {"object", "array", "string"} /\ Same(c.data_type, s, s) /\ DecodeList(c.data_type) = "array"
    BY <1>6, OfJson DEF Declared
  <2>2. Admissible(c, "object") /\ Admissible(c, "array")
    BY <1>6, OfJson DEF Declared, Admissible, JsonType
  <2>3. Misfit \/ Admissible(c, s)
    BY <1>6, <2>1, <2>2 DEF Misfit
  <2>4. Divergent <=> value.depth > 2
    BY <1>6, OtherTypes DEF Divergent
  <2> QED BY <2>1, <2>2, <2>3, <2>4, SameOK
<1>7. CASE c.data_type = "hstore"
  <2>1. s = "object" /\ Same(c.data_type, s, "object") /\ DecodeList(c.data_type) = "object"
    BY <1>7, OfHstore DEF Declared
  <2>2. Admissible(c, "object")
    BY <1>7, OfHstore DEF Declared, Admissible, JsonType
  <2> QED BY <1>7, <2>1, <2>2, OrdinaryTypes, OrdinaryValue, SameOK
<1>8. CASE c.data_type \in STRING_TYPES \cup {EnumType}
  <2>1. s = "string" /\ Same(c.data_type, s, "string") /\ DecodeList(c.data_type) \in {"string", "raises"}
    BY <1>8, OfString DEF Declared
  <2>2. Admissible(c, "string") /\ Admissible(c, "raises")
    BY <1>8, OfString DEF Declared, Admissible, JsonType
  <2>3. Admissible(c, DecodeList(c.data_type))
    BY <2>1, <2>2
  <2> QED BY <1>8, <2>1, <2>2, <2>3, OrdinaryTypes, OrdinaryValue, SameOK
<1>9. CASE c.data_type \in DATETIME_TYPES
  <2>1. /\ s \in {"date-time", "BC", "beyond 9999", "infinity"}
        /\ Same(c.data_type, "date-time", "date-time") /\ DecodeList(c.data_type) = "sentinel"
        /\ s # "date-time" => /\ CopyScalar(c.data_type, s, FALSE) = "sentinel"
                              /\ CopyScalar(c.data_type, s, TRUE) \in {"raises", "last instant"}
                              /\ StreamScalar(c.data_type, s, c.is_array) = "sentinel"
    <3>1. /\ Same(c.data_type, "date-time", "date-time") /\ DecodeList(c.data_type) = "sentinel"
          /\ Scalars(c) = {"date-time", "BC", "beyond 9999", "infinity"}
      BY <1>9, OfDatetime DEF Declared
    <3>2. s # "date-time" => /\ CopyScalar(c.data_type, s, FALSE) = "sentinel"
                             /\ CopyScalar(c.data_type, s, TRUE) \in {"raises", "last instant"}
                             /\ StreamScalar(c.data_type, s, c.is_array) = "sentinel"
      <4>1. s # "date-time" => s \in {"BC", "beyond 9999", "infinity"}
        BY <3>1
      <4> QED BY <1>9, <4>1, OfDatetime
    <3> QED BY <3>1, <3>2
  <2>2. /\ Admissible(c, "date-time") /\ Admissible(c, "sentinel")
        /\ Admissible(c, "last instant") /\ Admissible(c, "raises")
    BY <1>9, OfDatetime DEF Declared, Admissible, JsonType
  <2>3. Divergent <=> value.depth > 2 \/ (c.is_array /\ s # "date-time")
    BY <1>9, OtherTypes DEF Divergent
  <2>4. CASE s = "date-time"
    BY <2>1, <2>2, <2>3, <2>4, SameOK
  <2>5. CASE s # "date-time" /\ ~c.is_array
    <3>1. CopyScalar(c.data_type, s, c.is_array) = "sentinel"
      BY <2>1, <2>5
    <3> QED BY <2>1, <2>2, <2>3, <2>5, <3>1, AgreeOK
  <2>6. CASE s # "date-time" /\ c.is_array
    <3>1. PICK copy \in {"raises", "last instant"} : CopyScalar(c.data_type, s, c.is_array) = copy
      BY <2>1, <2>6
    <3>2. Admissible(c, copy) /\ copy # "sentinel"
      BY <2>2, <3>1
    <3> QED BY <2>1, <2>2, <2>3, <2>6, <3>1, <3>2, OtherOK
  <2> QED BY <2>4, <2>5, <2>6
<1>10. CASE c.data_type = "date"
  <2>1. /\ s \in {"date-time", "BC", "beyond 9999", "infinity"}
        /\ Same(c.data_type, "date-time", "date-time") /\ Same(c.data_type, "BC", "raises")
        /\ DecodeList(c.data_type) = "raises"
        /\ CopyScalar(c.data_type, "beyond 9999", c.is_array) = "raises"
        /\ CopyScalar(c.data_type, "infinity", c.is_array) = "last instant"
        /\ StreamScalar(c.data_type, "beyond 9999", c.is_array) = "sentinel"
        /\ StreamScalar(c.data_type, "infinity", c.is_array) = "raises"
    <3>1. /\ Same(c.data_type, "date-time", "date-time") /\ Same(c.data_type, "BC", "raises")
          /\ DecodeList(c.data_type) = "raises"
          /\ Scalars(c) = {"date-time", "BC", "beyond 9999", "infinity"}
      BY <1>10, OfDate DEF Declared
    <3>2. /\ CopyScalar(c.data_type, "beyond 9999", c.is_array) = "raises"
          /\ CopyScalar(c.data_type, "infinity", c.is_array) = "last instant"
          /\ StreamScalar(c.data_type, "beyond 9999", c.is_array) = "sentinel"
          /\ StreamScalar(c.data_type, "infinity", c.is_array) = "raises"
      BY <1>10, OfDate
    <3> QED BY <3>1, <3>2
  <2>2. /\ Admissible(c, "date-time") /\ Admissible(c, "sentinel")
        /\ Admissible(c, "last instant") /\ Admissible(c, "raises")
    <3>1. ScalarSchema(c) = {"date-time"} /\ ItemSchema(c.data_type) = {"date-time"}
      BY <1>10, OfDate DEF Declared
    <3>2. /\ JsonType("date-time") = "date-time" /\ JsonType("sentinel") = "date-time"
          /\ JsonType("last instant") = "date-time"
      BY DEF JsonType
    <3> QED BY <3>1, <3>2 DEF Admissible
  <2>3. Divergent <=> value.depth > 2 \/ s \in {"beyond 9999", "infinity"}
    BY <1>10, OtherTypes DEF Divergent
  <2>4. CASE s = "date-time" \/ s = "BC"
    <3>1. Divergent <=> value.depth > 2
      BY <2>3, <2>4
    <3> QED BY <2>1, <2>2, <2>4, <3>1, SameOK
  <2>5. CASE s = "beyond 9999"
    BY <2>1, <2>2, <2>3, <2>5, OtherOK
  <2>6. CASE s = "infinity"
    BY <2>1, <2>2, <2>3, <2>6, OtherOK
  <2> QED BY <2>1, <2>4, <2>5, <2>6
<1>11. CASE c.data_type \in TIME_TYPES
  <2>1. /\ s \in {"time", "24:00"} /\ Same(c.data_type, "time", "time") /\ DecodeList(c.data_type) = "raises"
        /\ CopyScalar(c.data_type, "24:00", FALSE) = "time"
        /\ CopyScalar(c.data_type, "24:00", TRUE) = "raises"
        /\ StreamScalar(c.data_type, "24:00", c.is_array) = "time"
    BY <1>11, OfTime DEF Declared
  <2>2. Admissible(c, "time") /\ Admissible(c, "raises")
    BY <1>11, OfTime DEF Declared, Admissible, JsonType
  <2>3. Divergent <=> value.depth > 2 \/ (c.is_array /\ s = "24:00")
    BY <1>11, OtherTypes DEF Divergent
  <2>4. CASE s = "time"
    BY <2>1, <2>2, <2>3, <2>4, SameOK
  <2>5. CASE s = "24:00" /\ ~c.is_array
    <3>1. /\ CopyScalar(c.data_type, s, c.is_array) = "time"
          /\ StreamScalar(c.data_type, s, c.is_array) = "time"
      BY <2>1, <2>5
    <3> QED BY <2>1, <2>2, <2>3, <2>5, <3>1, AgreeOK
  <2>6. CASE s = "24:00" /\ c.is_array
    BY <2>1, <2>2, <2>3, <2>6, OtherOK
  <2> QED BY <2>1, <2>4, <2>5, <2>6
<1>12. CASE c.data_type \in UnmappedTypes
  <2>1. /\ s = "string" /\ c.is_array /\ DecodeList(c.data_type) = "raises"
        /\ CopyScalar(c.data_type, s, c.is_array) = "raises"
        /\ StreamScalar(c.data_type, s, c.is_array) = "string"
    BY <1>12, OfUnmapped DEF Declared
  <2>2. Admissible(c, "string") /\ Admissible(c, "raises")
    BY <1>12, <2>1, OfUnmapped DEF Declared, Admissible, JsonType
  <2>3. Divergent
    BY <1>12, <2>1 DEF Divergent
  <2> QED BY <2>1, <2>2, <2>3, OtherOK
<1> QED BY <1>1, <1>2, <1>3, <1>4, <1>5, <1>6, <1>7, <1>8, <1>9, <1>10, <1>11, <1>12, AllClasses

LEMMA EveryValue ==
    ASSUME column \in Syncable, value \in Values(column, MaxDepth)
    PROVE  ValueOK
<1>1. column \in ColumnInfo /\ Inclusion(column) # "unsupported"
  BY DEF Syncable, ColumnInfos
<1>2. /\ column.data_type \in DataType /\ column.length \in {1, 5}
      /\ column.is_array \in BOOLEAN /\ column.is_primary_key \in BOOLEAN
  BY <1>1 DEF ColumnInfo
<1>3. ~column.is_array => ScalarSchema(column) # {}
  BY <1>1, <1>2 DEF Inclusion
<1>4. /\ value.scalar \in Scalars(column) /\ value.depth \in Nat
      /\ column.is_array <=> value.depth > 0
  <2>1. CASE column.is_array
    BY <2>1, MaxDepthAssumption DEF Values
  <2>2. CASE ~column.is_array
    BY <2>2 DEF Values
  <2> QED BY <1>2, <2>1, <2>2
<1>5. ScalarOK(column, value.scalar)
  BY <1>2, <1>3, <1>4, EveryScalar
<1> DEFINE copy   == CopyScalar(column.data_type, value.scalar, column.is_array)
           decode == StreamScalar(column.data_type, value.scalar, column.is_array)
           list   == DecodeList(column.data_type)
<1>6. CopyValue(column, value) = [depth |-> value.depth, json |-> copy]
  BY <1>2, <1>4 DEF CopyValue, CopyScalar
<1>7. DecodeValue(column, value) = IF value.depth > 2 THEN [depth |-> 2, json |-> list]
                                   ELSE [depth |-> value.depth, json |-> decode]
  BY <1>2, <1>4 DEF DecodeValue, StreamScalar
<1>8. /\ ~Misfit => Admissible(column, copy) /\ Admissible(column, decode)
      /\ value.depth <= 2 => (copy = decode <=> ~Divergent)
      /\ column.is_array => Admissible(column, list)
  BY <1>5 DEF ScalarOK
<1> HIDE DEF copy, decode, list
<1>9. ASSUME ~Misfit PROVE Fits(CopyValue(column, value)) /\ Fits(DecodeValue(column, value))
  <2>1. Fits([depth |-> value.depth, json |-> copy]) /\ Fits([depth |-> value.depth, json |-> decode])
    BY <1>2, <1>4, <1>8, <1>9, AdmissibleFits
  <2>2. value.depth > 2 => Fits([depth |-> 2, json |-> list])
    BY <1>2, <1>4, <1>8, AdmissibleFits
  <2> QED BY <1>6, <1>7, <2>1, <2>2
<1>10. CopyValue(column, value) = DecodeValue(column, value) <=> ~Divergent
  <2>1. CASE value.depth > 2
    <3>1. CopyValue(column, value) # DecodeValue(column, value)
      BY <1>6, <1>7, <2>1
    <3> QED BY <2>1, <3>1 DEF Divergent
  <2>2. CASE value.depth <= 2
    <3>1. CopyValue(column, value) = DecodeValue(column, value) <=> copy = decode
      BY <1>4, <1>6, <1>7, <2>2
    <3> QED BY <1>8, <2>2, <3>1
  <2> QED BY <1>4, <2>1, <2>2
<1> QED BY <1>9, <1>10 DEF ValueOK

-----------------------------------------------------------------------------
(***************************************************************************)
(* The theorems.                                                           *)
(***************************************************************************)

Inv ==
    /\ column \in Syncable /\ value \in Values(column, MaxDepth)
    /\ copied \in {NotRecorded, CopyValue(column, value)}
    /\ streamed \in {NotRecorded, DecodeValue(column, value)}

LEMMA Records == Spec => []Inv
<1>1. Init => Inv
  BY DEF Init, Inv
<1>2. Inv /\ [Next]_vars => Inv'
  BY DEF Inv, Next, Copy, Stream, vars
<1> QED BY <1>1, <1>2, PTL DEF Spec

\* What the copy and the session make of a value is a value of the declared
\* schema, in arrays of any depth, the named misfits apart (_column_schema,
\* selected_value_to_singer_value of conversion and of logical).
THEOREM SchemaAdmitsRecords == Spec => []ValuesFitSchema
<1>1. Inv => ValuesFitSchema
  <2> SUFFICES ASSUME Inv, ~Misfit, NEW record \in {copied, streamed} \ {NotRecorded}
               PROVE  record.json = "raises" \/ Admits(column, record)
    BY DEF ValuesFitSchema
  <2>1. ValueOK
    BY EveryValue DEF Inv
  <2>2. record \in {CopyValue(column, value), DecodeValue(column, value)}
    BY DEF Inv
  <2> QED BY <2>1, <2>2 DEF ValueOK, Fits
<1> QED BY Records, <1>1, PTL

\* The copy and the WAL bring the same record of a row, but for the named
\* divergences, which all are ones, in arrays of any depth (SPEC.md 10.2.3).
THEOREM CopyAndWalAgree == Spec => []PathsAgree
<1>1. Inv => PathsAgree
  <2> SUFFICES ASSUME Inv, NotRecorded \notin {copied, streamed}
               PROVE  (copied = streamed) = ~Divergent
    BY DEF PathsAgree
  <2>1. copied = CopyValue(column, value) /\ streamed = DecodeValue(column, value)
    BY DEF Inv
  <2>2. CopyValue(column, value) = DecodeValue(column, value) <=> ~Divergent
    BY EveryValue DEF Inv, ValueOK
  <2>3. (copied = streamed) \in BOOLEAN /\ (~Divergent) \in BOOLEAN
    OBVIOUS
  <2> QED BY <2>1, <2>2, <2>3
<1> QED BY Records, <1>1, PTL
=============================================================================
