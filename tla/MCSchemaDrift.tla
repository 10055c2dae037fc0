---------------------------- MODULE MCSchemaDrift ----------------------------
(* Instance of SchemaDrift for TLC.                                          *)
EXTENDS SchemaDrift

\* A key, a column that is widened and narrowed, and one that is unsupported.
MCColumnTypes ==
    [c \in Columns |-> CASE c = "id"   -> {"bigint"}
                         [] c = "size" -> {"integer", "bigint"}
                         [] c = "blob" -> {"bytea"}]

\* A table that will be given the third column, and one that has it.
MCFirstShapes ==
    {[c \in {"id", "size"} |-> IF c = "id" THEN "bigint" ELSE "integer"],
     [c \in {"id", "blob"} |-> IF c = "id" THEN "bigint" ELSE "bytea"]}
=============================================================================
