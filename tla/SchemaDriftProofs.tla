-------------------------- MODULE SchemaDriftProofs --------------------------
(***************************************************************************)
(* What holds of SchemaDrift for any set of columns and types that         *)
(* TypesAssumption allows, any number of changes, ALTER TABLEs and failed  *)
(* runs: RECORDs fit the SCHEMA they follow, de-selected columns stay out  *)
(* of them, and no value is lost to a schema the tap has yet to look at.   *)
(***************************************************************************)
EXTENDS SchemaDrift, WellFoundedInduction, TLAPS

-----------------------------------------------------------------------------
(***************************************************************************)
(* The inductive invariant.                                                *)
(***************************************************************************)

ChangeOf ==
    [database : Databases, deletes : BOOLEAN, columns : Shape,
     gone : SUBSET Columns, delivered : SUBSET Columns]

\* What a change had and the table has lost since is recorded in gone.
Kept(i) == DOMAIN wal[i].columns \ wal[i].gone

ServerOK ==
    /\ tables \in [Databases -> Shape]
    /\ wal \in Seq(ChangeOf) /\ Len(wal) <= MaxChanges
    /\ deselected \in Deselections
    /\ \A i \in 1 .. Len(wal) :
           /\ Kept(i) \subseteq DOMAIN tables[wal[i].database]
           /\ wal[i].deletes => wal[i].columns \in {Only(s, KeyColumns) : s \in Shape}

\* From the refresh on, the entry has the columns of a table, and it has
\* forgotten a de-selection only for a column that the table has lacked.
HasColumns(p) == p \in {"refreshed", "copying", "copied", "session"}

EntryOK ==
    /\ phase \in {"idle", "started", "refreshed", "copying", "copied", "session"}
    /\ entry \in [database : Databases, columns : Shape \cup {NoColumns},
                  deselected : SUBSET Columns]
    /\ phase # "idle" => entry.deselected \subseteq deselected
    /\ phase = "started" => entry.deselected = deselected
    /\ HasColumns(phase) =>
           /\ entry.columns \in Shape /\ entry.database = ConfigDatabase
           /\ deselected \ entry.deselected \subseteq absent
    /\ absent \subseteq Columns

\* The entry is the one that was last published, and the RECORD is made by it.
OutputOK ==
    /\ published \in Shape \cup {NoColumns}
    /\ phase \in {"copying", "copied", "session"} => published = entry.columns
    /\ record.database \in Databases /\ DOMAIN record.columns \subseteq Columns
    /\ record # NoRecord =>
           /\ phase \in {"copied", "session"}
           /\ DOMAIN record.columns \subseteq SelectedColumns(entry)
           /\ KeyColumns \subseteq DOMAIN record.columns
           /\ \A c \in DOMAIN record.columns : record.columns[c] = entry.columns[c]

ProgressOK ==
    /\ end_lsn \in 0 .. Len(wal) + 1 /\ (phase # "idle" => end_lsn # None)
    /\ last_processed_lsn \in 0 .. Len(wal)
    /\ last_fully_processed_lsn \in 0 .. last_processed_lsn
    /\ phase # "session" => last_processed_lsn = None /\ last_fully_processed_lsn = None
    /\ ddls \in 0 .. MaxDdl /\ failures \in 0 .. MaxFailures

\* An xmin is bookmarked beside an lsn.  Without it no row counts as copied
\* yet, and a stream that has an lsn is not copied but streamed.
StateOK ==
    /\ bookmark \in 0 .. Len(wal) + 1 /\ skipped \in 0 .. Len(wal) + 1
    /\ has_xmin \in BOOLEAN /\ copied \subseteq 1 .. Len(wal)
    /\ has_xmin => bookmark # None
    /\ ~has_xmin => copied = {}
    /\ phase \in {"copying", "copied"} => bookmark = None \/ has_xmin
    /\ phase = "session" => ~has_xmin

\* The target has what it is to have of change i.
Delivered(i) == Wanted(i) \subseteq wal[i].delivered

\* What the state file lets later runs leave out: a change before the lsn that
\* was not left to a lost copy, or a row that an interrupted copy has read.
LeftOut(i) ==
    /\ i < bookmark
    /\ IF has_xmin THEN i \in copied ELSE i >= skipped

\* What precedes the copy's lsn is what the refresh has seen the columns of,
\* and what the copy then brings.
DeliveryOK ==
    ConfigDatabase = CatalogDatabase =>
        \A i \in 1 .. Len(wal) : wal[i].database = CatalogDatabase =>
            /\ LeftOut(i) => Delivered(i)
            /\ phase = "session" /\ i <= last_processed_lsn /\ i >= skipped => Delivered(i)
            /\ phase \in {"refreshed", "copying"} /\ (i < end_lsn \/ i < bookmark) =>
                   Kept(i) \subseteq DOMAIN entry.columns
            /\ phase = "copied" /\ i < CopyLsn => Delivered(i)

DriftInv == ServerOK /\ EntryOK /\ OutputOK /\ ProgressOK /\ StateOK /\ DeliveryOK

-----------------------------------------------------------------------------
(***************************************************************************)
(* Facts about columns.                                                    *)
(***************************************************************************)

LEMMA MinOf ==
    ASSUME NEW T \in SUBSET Nat, T # {}
    PROVE  Min(T) \in T /\ \A x \in T : Min(T) <= x
<1> DEFINE R == OpToRel(<, Nat)
<1>1. \A x, y \in Nat : y < x => <<y, x>> \in R
  BY DEF OpToRel
<1>2. PICK x \in T : \A y \in T : x <= y
  <2>1. IsWellFoundedOn(R, Nat)
    BY NatLessThanWellFounded
  <2> HIDE DEF R
  <2>2. PICK x \in T : \A y \in T : ~ (<<y, x>> \in R)
    BY <2>1, WFMin
  <2>3. \A y \in T : x \in Nat /\ y \in Nat /\ ~ (y < x)
    BY <1>1, <2>2
  <2> QED BY <2>3
<1> QED BY <1>2 DEF Min

LEMMA ShapeElim ==
    ASSUME NEW s \in Shape
    PROVE  /\ DOMAIN s \subseteq Columns /\ KeyColumns \subseteq DOMAIN s
           /\ \A c \in DOMAIN s : s[c] \in ColumnTypes[c]
BY DEF Shape

LEMMA KeyShape ==
    ASSUME NEW s \in Shape
    PROVE  Only(s, KeyColumns) \in Shape /\ DOMAIN Only(s, KeyColumns) = KeyColumns
<1> DEFINE o == Only(s, KeyColumns)
<1>1. KeyColumns \subseteq DOMAIN s /\ \A c \in DOMAIN s : s[c] \in ColumnTypes[c]
  BY ShapeElim
<1>2. DOMAIN o = KeyColumns /\ \A c \in KeyColumns : o[c] = s[c]
  BY <1>1 DEF Only
<1>3. o \in [KeyColumns -> UNION {ColumnTypes[c] : c \in Columns}]
  <2>1. \A c \in KeyColumns : s[c] \in UNION {ColumnTypes[d] : d \in Columns}
    BY <1>1, ColumnsAssumption
  <2> QED BY <1>1, <2>1 DEF Only
<1> HIDE DEF o
<1>4. o \in Shape
  BY <1>1, <1>2, <1>3, ColumnsAssumption DEF Shape
<1> QED BY <1>2, <1>4 DEF o

\* Whether a column is supported does not depend on which of its types it has.
LEMMA InclusionOf ==
    ASSUME NEW c \in Columns, NEW t \in ColumnTypes[c]
    PROVE  /\ c \in KeyColumns => Inclusion(Info(c, t)) = "automatic"
           /\ c \notin KeyColumns => Inclusion(Info(c, t)) # "automatic"
           /\ \A u \in ColumnTypes[c] : Supported(c, t) = Supported(c, u)
           /\ Supported(c, t) /\ c \notin KeyColumns => Inclusion(Info(c, t)) = "available"
<1>1. \A u : /\ Info(c, u).data_type = u /\ Info(c, u).length = 1 /\ ~Info(c, u).is_array
             /\ Info(c, u).is_primary_key = (c \in KeyColumns)
  BY DEF Info
<1>2. \A u : Inclusion(Info(c, u)) = IF ScalarSchema(Info(c, u)) = {} THEN "unsupported"
                                     ELSE IF c \in KeyColumns THEN "automatic" ELSE "available"
  BY <1>1 DEF Inclusion
<1>3. \A u \in INTEGER_TYPES : ScalarSchema(Info(c, u)) # {}
  BY <1>1 DEF ScalarSchema
<1>4. \A u \in STRING_TYPES : ScalarSchema(Info(c, u)) # {}
  <2>1. \A u \in STRING_TYPES :
            u \notin INTEGER_TYPES \cup NUMERIC_TYPES \cup FLOAT_TYPES \cup {"boolean", "bit"}
    BY DEF STRING_TYPES, INTEGER_TYPES, NUMERIC_TYPES, FLOAT_TYPES
  <2> QED BY <1>1, <2>1 DEF ScalarSchema
<1>5. \/ \A u \in ColumnTypes[c] : Supported(c, u)
      \/ c \notin KeyColumns /\ \A u \in ColumnTypes[c] : ~Supported(c, u)
  <2>1. CASE ColumnTypes[c] \subseteq INTEGER_TYPES
    BY <1>2, <1>3, <2>1 DEF Supported
  <2>2. CASE ColumnTypes[c] \subseteq STRING_TYPES
    BY <1>2, <1>4, <2>2 DEF Supported
  <2> QED BY <2>1, <2>2, TypesAssumption
<1> QED BY <1>2, <1>5 DEF Supported

LEMMA SelectedOf ==
    ASSUME NEW e, e.columns \in Shape
    PROVE  /\ SelectedColumns(e) \subseteq DOMAIN e.columns /\ DOMAIN e.columns \subseteq Columns
           /\ KeyColumns \subseteq SelectedColumns(e)
           /\ SelectedColumns(e) \cap e.deselected \subseteq KeyColumns
           /\ \A c \in DOMAIN e.columns : \A t : t \in ColumnTypes[c] /\ Supported(c, t)
                  /\ (c \in KeyColumns \/ c \notin e.deselected) => c \in SelectedColumns(e)
<1>1. /\ DOMAIN e.columns \subseteq Columns /\ KeyColumns \subseteq DOMAIN e.columns
      /\ \A c \in DOMAIN e.columns : e.columns[c] \in ColumnTypes[c]
  BY ShapeElim
<1>2. SelectedColumns(e) \subseteq DOMAIN e.columns
  BY DEF SelectedColumns
<1>3. KeyColumns \subseteq SelectedColumns(e)
  BY <1>1, InclusionOf DEF SelectedColumns
<1>4. SelectedColumns(e) \cap e.deselected \subseteq KeyColumns
  BY <1>1, InclusionOf DEF SelectedColumns
<1>5. ASSUME NEW c \in DOMAIN e.columns, NEW t \in ColumnTypes[c], Supported(c, t),
             c \in KeyColumns \/ c \notin e.deselected
      PROVE  c \in SelectedColumns(e)
  <2>1. Supported(c, e.columns[c])
    BY <1>1, <1>5, InclusionOf
  <2> QED BY <1>1, <1>3, <1>5, <2>1, InclusionOf DEF SelectedColumns
<1> QED BY <1>1, <1>2, <1>3, <1>4, <1>5

\* A RECORD of the entry, of a row that has the key.
LEMMA RecordOfFits ==
    ASSUME NEW e, e.columns \in Shape, NEW names, KeyColumns \subseteq names
    PROVE  LET r == RecordOf(e, names)
           IN  /\ r.database = e.database
               /\ DOMAIN r.columns = names \cap SelectedColumns(e)
               /\ KeyColumns \subseteq DOMAIN r.columns
               /\ DOMAIN r.columns \subseteq Columns
               /\ \A c \in DOMAIN r.columns : r.columns[c] = e.columns[c]
<1>1. DOMAIN RecordOf(e, names).columns = names \cap SelectedColumns(e)
  BY SelectedOf DEF RecordOf, Only
<1> QED BY <1>1, SelectedOf DEF RecordOf, Only
-----------------------------------------------------------------------------
(***************************************************************************)
(* The initial states and the steps.                                       *)
(***************************************************************************)

LEMMA LogType ==
    ASSUME ServerOK
    PROVE  /\ Len(wal) \in Nat /\ DOMAIN wal = 1 .. Len(wal)
           /\ \A i \in 1 .. Len(wal) : wal[i] \in ChangeOf
BY DEF ServerOK

LEMMA InitInv == Init => DriftInv
<1> SUFFICES ASSUME Init PROVE DriftInv
  OBVIOUS
<1>1. wal = << >> /\ Len(wal) = 0
  BY DEF Init
<1>2. ServerOK
  BY <1>1, BoundsAssumption, FirstShapesAssumption DEF Init, ServerOK
<1>3. EntryOK
  BY DatabasesAssumption DEF Init, EntryOK, NoEntry, HasColumns
<1>4. OutputOK
  BY DatabasesAssumption DEF Init, OutputOK, NoRecord, NoColumns
<1>5. ProgressOK
  BY <1>1, BoundsAssumption DEF Init, ProgressOK, None
<1>6. StateOK
  <2>1. bookmark = 0 /\ skipped = 0 /\ ~has_xmin /\ has_xmin \in BOOLEAN /\ copied = {}
    BY DEF Init, None
  <2>2. phase \notin {"copying", "copied"}
    BY DEF Init
  <2> QED BY <1>1, <2>1, <2>2 DEF StateOK
<1>7. DeliveryOK
  BY <1>1 DEF DeliveryOK
<1> QED BY <1>2, <1>3, <1>4, <1>5, <1>6, <1>7 DEF DriftInv

\* A step that leaves the database alone.
LEMMA SameServer ==
    ASSUME ServerOK, UNCHANGED <<tables, wal, deselected>>
    PROVE  /\ ServerOK' /\ Len(wal)' = Len(wal)
           /\ \A i : Kept(i)' = Kept(i) /\ Wanted(i)' = Wanted(i) /\ Delivered(i)' = Delivered(i)
<1>1. \A i : Kept(i)' = Kept(i) /\ Wanted(i)' = Wanted(i)
  BY DEF Kept, Wanted
<1> QED BY <1>1 DEF ServerOK, Delivered

\* A run that is over leaves behind what it has bookmarked.
LEMMA IdleInv ==
    ASSUME DriftInv, NoProcess, ServerOK', Len(wal)' = Len(wal), StateOK',
           ddls' \in 0 .. MaxDdl /\ failures' \in 0 .. MaxFailures,
           ConfigDatabase = CatalogDatabase =>
               \A i \in 1 .. Len(wal) :
                   wal'[i].database = CatalogDatabase /\ LeftOut(i)' => Delivered(i)'
    PROVE  DriftInv'
<1>1. Len(wal) \in Nat
  BY LogType DEF DriftInv
<1>2. EntryOK'
  BY DatabasesAssumption DEF NoProcess, EntryOK, NoEntry, HasColumns
<1>3. OutputOK'
  BY DatabasesAssumption DEF NoProcess, OutputOK, NoRecord, NoColumns
<1>4. ProgressOK'
  BY <1>1 DEF NoProcess, ProgressOK, None
<1>5. DeliveryOK'
  BY DEF NoProcess, DeliveryOK
<1> QED BY <1>2, <1>3, <1>4, <1>5 DEF DriftInv

LEMMA ChangeInv == ASSUME DriftInv, Change PROVE DriftInv'
<1>1. /\ UNCHANGED <<tables, deselected, phase, end_lsn, entry, last_processed_lsn,
                     last_fully_processed_lsn, published, record, bookmark, has_xmin, copied,
                     skipped, absent, ddls, failures>>
      /\ Len(wal) < MaxChanges
  BY DEF Change, session, output, state
<1>2. PICK d \in Databases, deletes \in BOOLEAN :
           wal' = Append(wal, [database |-> d, deletes |-> deletes,
                               columns |-> IF deletes THEN Only(tables[d], KeyColumns)
                                           ELSE tables[d],
                               gone |-> {}, delivered |-> {}])
  BY DEF Change
<1> DEFINE new == [database |-> d, deletes |-> deletes,
                   columns |-> IF deletes THEN Only(tables[d], KeyColumns) ELSE tables[d],
                   gone |-> {}, delivered |-> {}]
<1>3. Len(wal) \in Nat /\ wal \in Seq(ChangeOf) /\ tables[d] \in Shape
  BY LogType DEF DriftInv, ServerOK
<1>4. /\ new \in ChangeOf /\ DOMAIN new.columns \subseteq DOMAIN tables[d]
      /\ new.deletes => new.columns \in {Only(s, KeyColumns) : s \in Shape}
  BY <1>3, KeyShape, ShapeElim DEF ChangeOf
<1>5. wal' = Append(wal, new)
  BY <1>2
<1>6. new.database = d /\ new.gone = {}
  OBVIOUS
<1> HIDE DEF new
<1>7. /\ wal' \in Seq(ChangeOf) /\ Len(wal)' = Len(wal) + 1
      /\ wal'[Len(wal) + 1] = new /\ \A i \in 1 .. Len(wal) : wal'[i] = wal[i]
  BY <1>3, <1>4, <1>5
<1>8. ServerOK'
  <2>1. ASSUME NEW i \in 1 .. Len(wal)'
        PROVE  /\ Kept(i)' \subseteq DOMAIN tables'[wal'[i].database]
               /\ wal'[i].deletes => wal'[i].columns \in {Only(s, KeyColumns) : s \in Shape}
    <3>1. CASE i = Len(wal) + 1
      BY <1>1, <1>4, <1>6, <1>7, <3>1 DEF Kept
    <3>2. CASE i \in 1 .. Len(wal)
      BY <1>1, <1>7, <3>2 DEF Kept, DriftInv, ServerOK
    <3> QED BY <1>3, <1>7, <3>1, <3>2
  <2> QED BY <1>1, <1>3, <1>7, <2>1, BoundsAssumption DEF ServerOK, DriftInv
<1>9. EntryOK' /\ OutputOK'
  BY <1>1 DEF DriftInv, EntryOK, OutputOK, HasColumns, SelectedColumns
<1>10. ProgressOK' /\ StateOK'
  BY <1>1, <1>3, <1>7 DEF DriftInv, ProgressOK, StateOK
<1>11. DeliveryOK'
  <2> SUFFICES ASSUME ConfigDatabase = CatalogDatabase, NEW i \in 1 .. Len(wal)',
                      wal'[i].database = CatalogDatabase
               PROVE  /\ LeftOut(i)' => Delivered(i)'
                      /\ phase = "session" /\ i <= last_processed_lsn /\ i >= skipped =>
                             Delivered(i)'
                      /\ phase \in {"refreshed", "copying"} /\ (i < end_lsn \/ i < bookmark) =>
                             Kept(i)' \subseteq DOMAIN entry.columns
                      /\ phase = "copied" /\ i < CopyLsn => Delivered(i)'
    BY <1>1 DEF DeliveryOK, CopyLsn
  <2>1. CASE i \in 1 .. Len(wal)
    <3>1. wal'[i] = wal[i]
      BY <1>7, <2>1
    <3>2. LeftOut(i)' = LeftOut(i) /\ Delivered(i)' = Delivered(i) /\ Kept(i)' = Kept(i)
      BY <1>1, <3>1 DEF LeftOut, Delivered, Wanted, Kept
    <3> QED BY <2>1, <3>1, <3>2 DEF DriftInv, DeliveryOK
  \* It is after all that has been bookmarked.
  <2>2. CASE i = Len(wal) + 1
    BY <1>1, <1>3, <2>2 DEF DriftInv, ProgressOK, StateOK, LeftOut, CopyLsn
  <2> QED BY <1>3, <1>7, <2>1, <2>2
<1> QED BY <1>8, <1>9, <1>10, <1>11 DEF DriftInv

LEMMA AlterTableInv == ASSUME DriftInv, AlterTable PROVE DriftInv'
<1>1. /\ UNCHANGED <<deselected, phase, end_lsn, entry, last_processed_lsn,
                     last_fully_processed_lsn, published, record, bookmark, has_xmin, copied,
                     skipped, failures>>
      /\ ddls < MaxDdl /\ ddls' = ddls + 1
  BY DEF AlterTable, session, output, state
<1>2. PICK d \in Databases, s \in Shape :
           /\ tables' = [tables EXCEPT ![d] = s]
           /\ wal' = [i \in DOMAIN wal |->
                         IF wal[i].database = d
                         THEN [wal[i] EXCEPT !.gone = @ \cup (DOMAIN tables[d] \ DOMAIN s)]
                         ELSE wal[i]]
           /\ absent' = IF d = entry.database /\ entry.columns # NoColumns
                        THEN absent \cup (DOMAIN tables[d] \ DOMAIN s) ELSE absent
  BY DEF AlterTable
<1> DEFINE dropped == DOMAIN tables[d] \ DOMAIN s
<1>3. /\ Len(wal) \in Nat /\ DOMAIN wal = 1 .. Len(wal) /\ tables \in [Databases -> Shape]
      /\ \A i \in 1 .. Len(wal) : wal[i] \in ChangeOf
  BY LogType DEF DriftInv, ServerOK
<1>4. dropped \subseteq Columns
  BY <1>3, ShapeElim
<1>5. \A i \in 1 .. Len(wal) :
          wal'[i] = IF wal[i].database = d THEN [wal[i] EXCEPT !.gone = @ \cup dropped] ELSE wal[i]
  BY <1>2, <1>3
<1> HIDE DEF dropped
<1>6. ASSUME NEW i \in 1 .. Len(wal)
      PROVE  /\ wal'[i] \in ChangeOf /\ wal'[i].database = wal[i].database
             /\ wal'[i].deletes = wal[i].deletes /\ wal'[i].columns = wal[i].columns
             /\ wal'[i].delivered = wal[i].delivered
             /\ wal[i].gone \subseteq wal'[i].gone
             /\ wal[i].database = d => wal'[i].gone = wal[i].gone \cup dropped
             /\ wal[i].database # d => wal'[i].gone = wal[i].gone
  <2> DEFINE change == wal[i]
             gone   == change.gone \cup dropped
  <2>1. change \in ChangeOf /\ change.gone \in SUBSET Columns
    BY <1>3 DEF ChangeOf
  <2>2. gone \in SUBSET Columns /\ change.gone \subseteq gone
    BY <1>4, <2>1
  <2>3. wal'[i] = IF change.database = d THEN [change EXCEPT !.gone = gone] ELSE change
    BY <1>5
  <2> HIDE DEF change, gone
  <2>4. CASE change.database = d
    <3>1. wal'[i] = [change EXCEPT !.gone = gone]
      BY <2>3, <2>4
    <3>2. wal'[i] \in ChangeOf /\ wal'[i].gone = gone
      BY <2>1, <2>2, <3>1 DEF ChangeOf
    <3>3. /\ wal'[i].database = change.database /\ wal'[i].deletes = change.deletes
          /\ wal'[i].columns = change.columns /\ wal'[i].delivered = change.delivered
      BY <2>1, <3>1 DEF ChangeOf
    <3> QED BY <2>2, <2>4, <3>2, <3>3 DEF change, gone
  <2>5. CASE change.database # d
    BY <2>1, <2>3, <2>5 DEF change
  <2> QED BY <2>4, <2>5
<1>7. Len(wal)' = Len(wal) /\ wal' \in Seq(ChangeOf)
  <2>1. wal' = [i \in 1 .. Len(wal) |-> wal'[i]]
    BY <1>2, <1>3
  <2> QED BY <1>3, <1>6, <2>1
<1>8. ServerOK'
  <2>1. ASSUME NEW i \in 1 .. Len(wal)
        PROVE  Kept(i)' \subseteq DOMAIN tables'[wal'[i].database]
    <3>1. Kept(i) \subseteq DOMAIN tables[wal[i].database] /\ wal[i].database \in Databases
      BY <1>3 DEF DriftInv, ServerOK, ChangeOf
    <3>2. CASE wal[i].database = d
      BY <1>2, <1>3, <1>6, <3>1, <3>2 DEF Kept, dropped
    <3>3. CASE wal[i].database # d
      BY <1>2, <1>3, <1>6, <3>1, <3>3 DEF Kept
    <3> QED BY <3>2, <3>3
  <2> QED BY <1>1, <1>2, <1>6, <1>7, <2>1 DEF DriftInv, ServerOK
<1>9. absent' \subseteq Columns /\ absent \subseteq absent'
  BY <1>2, <1>4 DEF DriftInv, EntryOK, dropped
<1>10. EntryOK' /\ OutputOK'
  BY <1>1, <1>9 DEF DriftInv, EntryOK, OutputOK, HasColumns, SelectedColumns
<1>11. ProgressOK' /\ StateOK'
  BY <1>1, <1>7, BoundsAssumption DEF DriftInv, ProgressOK, StateOK
<1>12. DeliveryOK'
  <2> SUFFICES ASSUME ConfigDatabase = CatalogDatabase, NEW i \in 1 .. Len(wal),
                      wal[i].database = CatalogDatabase
               PROVE  /\ LeftOut(i)' => Delivered(i)'
                      /\ phase = "session" /\ i <= last_processed_lsn /\ i >= skipped =>
                             Delivered(i)'
                      /\ phase \in {"refreshed", "copying"} /\ (i < end_lsn \/ i < bookmark) =>
                             Kept(i)' \subseteq DOMAIN entry.columns
                      /\ phase = "copied" /\ i < CopyLsn => Delivered(i)'
    BY <1>1, <1>6, <1>7 DEF DeliveryOK, CopyLsn
  <2>1. LeftOut(i)' = LeftOut(i) /\ Kept(i)' \subseteq Kept(i)
    BY <1>1, <1>6 DEF LeftOut, Kept
  <2>2. Wanted(i)' \subseteq Wanted(i)
    BY <1>1, <1>6 DEF Wanted
  <2>3. Delivered(i) => Delivered(i)'
    BY <1>6, <2>2 DEF Delivered
  <2> QED BY <2>1, <2>3 DEF DriftInv, DeliveryOK
<1> QED BY <1>8, <1>10, <1>11, <1>12 DEF DriftInv

LEMMA StartRunInv == ASSUME DriftInv, StartRun PROVE DriftInv'
<1>1. /\ UNCHANGED <<tables, wal, deselected, last_processed_lsn, last_fully_processed_lsn,
                     published, record, bookmark, has_xmin, copied, skipped, absent, ddls, failures>>
      /\ phase = "idle" /\ phase' = "started" /\ end_lsn' = Len(wal) + 1
      /\ entry' = [database |-> CatalogDatabase, columns |-> NoColumns, deselected |-> deselected]
  BY DEF StartRun, server, session, output, state
<1>2. /\ ServerOK' /\ Len(wal)' = Len(wal) /\ \A i : Delivered(i)' = Delivered(i)
      /\ Len(wal) \in Nat
  BY <1>1, SameServer, LogType DEF DriftInv
<1>3. EntryOK'
  BY <1>1, DatabasesAssumption, DeselectionsAssumption
     DEF DriftInv, ServerOK, EntryOK, HasColumns
<1>4. OutputOK'
  BY <1>1 DEF DriftInv, OutputOK
<1>5. ProgressOK' /\ StateOK'
  BY <1>1, <1>2 DEF DriftInv, ProgressOK, StateOK
<1>6. DeliveryOK'
  BY <1>1, <1>2 DEF DriftInv, DeliveryOK, LeftOut
<1> QED BY <1>2, <1>3, <1>4, <1>5, <1>6 DEF DriftInv

LEMMA RefreshInv == ASSUME DriftInv, Refresh PROVE DriftInv'
<1>1. /\ UNCHANGED <<tables, wal, deselected, end_lsn, last_processed_lsn,
                     last_fully_processed_lsn, published, record, bookmark, has_xmin, copied,
                     skipped, ddls, failures>>
      /\ phase = "started" /\ phase' = "refreshed"
      /\ entry' = [database   |-> ConfigDatabase,
                   columns    |-> tables[ConfigDatabase],
                   deselected |-> entry.deselected \cap DOMAIN tables[ConfigDatabase]]
      /\ absent' = Columns \ DOMAIN entry'.columns
  BY DEF Refresh, Refreshed, Merged, server, session, output, state
<1>2. /\ ServerOK' /\ Len(wal)' = Len(wal)
      /\ \A i : Delivered(i)' = Delivered(i) /\ Kept(i)' = Kept(i)
      /\ tables[ConfigDatabase] \in Shape /\ ConfigDatabase \in Databases
  BY <1>1, SameServer, DatabasesAssumption DEF DriftInv, ServerOK
<1>3. deselected \subseteq Columns /\ entry.deselected = deselected
  BY <1>1, DeselectionsAssumption DEF DriftInv, ServerOK, EntryOK
<1>4. EntryOK'
  <2>1. /\ entry'.deselected = deselected \cap DOMAIN tables[ConfigDatabase]
        /\ entry'.columns = tables[ConfigDatabase] /\ entry'.database = ConfigDatabase
    BY <1>1, <1>3
  <2>2. deselected \ entry'.deselected \subseteq absent'
    BY <1>1, <1>3, <2>1
  <2>3. entry' \in [database : Databases, columns : Shape \cup {NoColumns},
                    deselected : SUBSET Columns]
    BY <1>1, <1>2, <1>3, <2>1
  <2> QED BY <1>1, <1>2, <2>1, <2>2, <2>3 DEF EntryOK, HasColumns
<1>5. OutputOK'
  BY <1>1 DEF DriftInv, OutputOK
<1>6. ProgressOK' /\ StateOK'
  BY <1>1, <1>2 DEF DriftInv, ProgressOK, StateOK
<1>7. DeliveryOK'
  <2> SUFFICES ASSUME ConfigDatabase = CatalogDatabase, NEW i \in 1 .. Len(wal),
                      wal[i].database = CatalogDatabase
               PROVE  /\ LeftOut(i)' => Delivered(i)
                      /\ Kept(i) \subseteq DOMAIN tables[ConfigDatabase]
    BY <1>1, <1>2 DEF DeliveryOK
  <2> QED BY <1>1 DEF DriftInv, DeliveryOK, ServerOK, LeftOut
<1> QED BY <1>2, <1>4, <1>5, <1>6, <1>7 DEF DriftInv

LEMMA StartCopyInv == ASSUME DriftInv, StartCopy PROVE DriftInv'
<1>1. /\ UNCHANGED <<tables, wal, deselected, end_lsn, entry, last_processed_lsn,
                     last_fully_processed_lsn, bookmark, has_xmin, copied, skipped, absent, ddls,
                     failures>>
      /\ phase = "refreshed" /\ phase' = "copying"
      /\ bookmark = None \/ has_xmin
      /\ published' = entry.columns /\ record' = NoRecord
  BY DEF StartCopy, WriteSchema, server, session, state
<1>2. /\ ServerOK' /\ Len(wal)' = Len(wal)
      /\ \A i : Delivered(i)' = Delivered(i) /\ Kept(i)' = Kept(i)
  BY <1>1, SameServer DEF DriftInv
<1>3. EntryOK'
  BY <1>1 DEF DriftInv, EntryOK, HasColumns
<1>4. OutputOK'
  BY <1>1, DatabasesAssumption DEF DriftInv, EntryOK, OutputOK, NoRecord, NoColumns
<1>5. ProgressOK' /\ StateOK'
  BY <1>1, <1>2 DEF DriftInv, ProgressOK, StateOK
<1>6. DeliveryOK'
  BY <1>1, <1>2 DEF DriftInv, DeliveryOK, LeftOut
<1> QED BY <1>2, <1>3, <1>4, <1>5, <1>6 DEF DriftInv

LEMMA StartSessionInv == ASSUME DriftInv, StartSession PROVE DriftInv'
<1>1. /\ UNCHANGED <<tables, wal, deselected, end_lsn, entry, last_processed_lsn,
                     last_fully_processed_lsn, bookmark, has_xmin, copied, skipped, absent, ddls,
                     failures>>
      /\ phase = "refreshed" /\ phase' = "session"
      /\ bookmark # None /\ ~has_xmin
      /\ published' = entry.columns /\ record' = NoRecord
  BY DEF StartSession, WriteSchema, server, session, state
<1>2. /\ ServerOK' /\ Len(wal)' = Len(wal)
      /\ \A i : Delivered(i)' = Delivered(i) /\ Kept(i)' = Kept(i)
  BY <1>1, SameServer DEF DriftInv
<1>3. EntryOK'
  BY <1>1 DEF DriftInv, EntryOK, HasColumns
<1>4. OutputOK'
  BY <1>1, DatabasesAssumption DEF DriftInv, EntryOK, OutputOK, NoRecord, NoColumns
<1>5. last_processed_lsn = 0 /\ ProgressOK' /\ StateOK'
  BY <1>1, <1>2 DEF DriftInv, ProgressOK, StateOK, None
<1>6. DeliveryOK'
  BY <1>1, <1>2, <1>5 DEF DriftInv, DeliveryOK, LeftOut
<1> QED BY <1>2, <1>3, <1>4, <1>5, <1>6 DEF DriftInv

\* What a step that only delivers does to the log.
LEMMA OnlyDelivers ==
    ASSUME ServerOK, UNCHANGED <<tables, deselected>>,
           wal' \in Seq(ChangeOf), Len(wal)' = Len(wal),
           \A i \in 1 .. Len(wal) :
               /\ wal'[i].database = wal[i].database /\ wal'[i].deletes = wal[i].deletes
               /\ wal'[i].columns = wal[i].columns /\ wal'[i].gone = wal[i].gone
               /\ wal[i].delivered \subseteq wal'[i].delivered
    PROVE  /\ ServerOK'
           /\ \A i \in 1 .. Len(wal) : /\ Kept(i)' = Kept(i) /\ Wanted(i)' = Wanted(i)
                                       /\ Delivered(i) => Delivered(i)'
<1>1. \A i \in 1 .. Len(wal) : Kept(i)' = Kept(i) /\ Wanted(i)' = Wanted(i)
  BY DEF Kept, Wanted
<1> QED BY <1>1 DEF ServerOK, Delivered

\* The columns the target is to have of a change are selected by an entry that
\* has them.
LEMMA WantedSelected ==
    ASSUME ServerOK, NEW i \in 1 .. Len(wal), NEW e, e.columns \in Shape,
           e.deselected \subseteq deselected,
           \A c \in Wanted(i) : c \in DOMAIN e.columns
    PROVE  Wanted(i) \subseteq SelectedColumns(e)
<1> SUFFICES ASSUME NEW c \in Wanted(i)
             PROVE  c \in SelectedColumns(e)
  OBVIOUS
<1>1. wal[i].columns \in Shape
  BY LogType DEF ChangeOf
<1>2. /\ c \in DOMAIN wal[i].columns /\ Supported(c, wal[i].columns[c])
      /\ c \in KeyColumns \/ c \notin deselected
  BY DEF Wanted
<1>3. wal[i].columns[c] \in ColumnTypes[c]
  BY <1>1, <1>2, ShapeElim
<1> QED BY <1>2, <1>3, SelectedOf

\* What the rows of a copy do: before its lsn they bring all there is to have,
\* as the refresh came after the lsn.
LEMMA RowsDeliver ==
    ASSUME DriftInv, phase = "copying", NEW rows \in SUBSET ToCopy, CopyRecords(rows),
           UNCHANGED <<tables, deselected>>
    PROVE  /\ ServerOK' /\ Len(wal)' = Len(wal)
           /\ \A i \in 1 .. Len(wal) :
                  /\ wal'[i].database = wal[i].database /\ Kept(i)' = Kept(i)
                  /\ Delivered(i) => Delivered(i)'
           /\ ConfigDatabase = CatalogDatabase =>
                  \A i \in rows : i < CopyLsn => Delivered(i)'
<1>1. wal' = [i \in DOMAIN wal |->
                 IF i \in rows THEN [wal[i] EXCEPT !.delivered = @ \cup SelectedColumns(entry)]
                 ELSE wal[i]]
  BY DEF CopyRecords
<1>2. /\ Len(wal) \in Nat /\ DOMAIN wal = 1 .. Len(wal)
      /\ \A i \in 1 .. Len(wal) : wal[i] \in ChangeOf
  BY LogType DEF DriftInv
<1>3. /\ entry.columns \in Shape /\ entry.database = ConfigDatabase
      /\ entry.deselected \subseteq deselected
  BY DEF DriftInv, EntryOK, HasColumns
<1>4. SelectedColumns(entry) \subseteq Columns
  BY <1>3, SelectedOf
<1>5. ASSUME NEW i \in 1 .. Len(wal)
      PROVE  /\ wal'[i] \in ChangeOf
             /\ wal'[i].database = wal[i].database /\ wal'[i].deletes = wal[i].deletes
             /\ wal'[i].columns = wal[i].columns /\ wal'[i].gone = wal[i].gone
             /\ wal[i].delivered \subseteq wal'[i].delivered
             /\ i \in rows => SelectedColumns(entry) \subseteq wal'[i].delivered
  <2> DEFINE change == wal[i]
             now    == change.delivered \cup SelectedColumns(entry)
  <2>1. change \in ChangeOf /\ change.delivered \in SUBSET Columns
    BY <1>2 DEF ChangeOf
  <2>2. now \in SUBSET Columns /\ change.delivered \subseteq now /\ SelectedColumns(entry) \subseteq now
    BY <1>4, <2>1
  <2>3. wal'[i] = IF i \in rows THEN [change EXCEPT !.delivered = now] ELSE change
    BY <1>1, <1>2
  <2> HIDE DEF change, now
  <2>4. CASE i \in rows
    <3>1. wal'[i] = [change EXCEPT !.delivered = now]
      BY <2>3, <2>4
    <3>2. wal'[i] \in ChangeOf /\ wal'[i].delivered = now
      BY <2>1, <2>2, <3>1 DEF ChangeOf
    <3>3. /\ wal'[i].database = change.database /\ wal'[i].deletes = change.deletes
          /\ wal'[i].columns = change.columns /\ wal'[i].gone = change.gone
      BY <2>1, <3>1 DEF ChangeOf
    <3> QED BY <2>2, <3>2, <3>3 DEF change
  <2>5. CASE i \notin rows
    BY <2>1, <2>3, <2>5 DEF change
  <2> QED BY <2>4, <2>5
<1>6. Len(wal)' = Len(wal) /\ wal' \in Seq(ChangeOf)
  <2>1. wal' = [i \in 1 .. Len(wal) |-> wal'[i]]
    BY <1>1, <1>2
  <2> QED BY <1>2, <1>5, <2>1
<1>7. /\ ServerOK'
      /\ \A i \in 1 .. Len(wal) : /\ Kept(i)' = Kept(i) /\ Wanted(i)' = Wanted(i)
                                  /\ Delivered(i) => Delivered(i)'
  BY <1>5, <1>6, OnlyDelivers DEF DriftInv
<1>8. ASSUME ConfigDatabase = CatalogDatabase, NEW i \in rows, i < CopyLsn
      PROVE  Delivered(i)'
  <2>1. i \in 1 .. Len(wal) /\ wal[i].database = CatalogDatabase
    BY <1>2, <1>3, <1>8 DEF ToCopy
  <2>2. i < end_lsn \/ i < bookmark
    BY <1>8 DEF CopyLsn
  <2>3. Kept(i) \subseteq DOMAIN entry.columns
    BY <1>8, <2>1, <2>2 DEF DriftInv, DeliveryOK
  <2>4. Wanted(i) \subseteq SelectedColumns(entry)
    BY <1>3, <2>1, <2>3, WantedSelected DEF Wanted, Kept, DriftInv
  <2> QED BY <1>5, <1>7, <2>1, <2>4 DEF Delivered
<1> QED BY <1>5, <1>6, <1>7, <1>8

\* What the copy does not read has been delivered, by the copy it goes on with.
LEMMA OthersDelivered ==
    ASSUME DriftInv, ConfigDatabase = CatalogDatabase, phase \in {"copying", "copied"},
           NEW i \in copied, i < CopyLsn, i \in 1 .. Len(wal),
           wal[i].database = CatalogDatabase
    PROVE  Delivered(i)
<1>1. has_xmin /\ bookmark # None
  BY DEF DriftInv, StateOK
<1>2. LeftOut(i)
  BY <1>1 DEF LeftOut, CopyLsn
<1> QED BY <1>2 DEF DriftInv, DeliveryOK

LEMMA CopyRowsInv == ASSUME DriftInv, CopyRows PROVE DriftInv'
<1>1. /\ UNCHANGED <<tables, deselected, end_lsn, entry, last_processed_lsn,
                     last_fully_processed_lsn, published, bookmark, has_xmin, copied, skipped,
                     absent, ddls, failures>>
      /\ phase = "copying" /\ phase' = "copied"
      /\ record' = RecordOf(entry, Columns) /\ CopyRecords(ToCopy)
  BY DEF CopyRows, session, state
<1>2. /\ ServerOK' /\ Len(wal)' = Len(wal) /\ Len(wal) \in Nat /\ DOMAIN wal = 1 .. Len(wal)
      /\ \A i \in 1 .. Len(wal) :
             wal'[i].database = wal[i].database /\ (Delivered(i) => Delivered(i)')
      /\ ConfigDatabase = CatalogDatabase => \A i \in ToCopy : i < CopyLsn => Delivered(i)'
  <2>1. ToCopy \in SUBSET ToCopy
    OBVIOUS
  <2> QED BY <1>1, <2>1, RowsDeliver, LogType DEF DriftInv
<1>3. entry.columns \in Shape /\ entry.database = ConfigDatabase /\ published = entry.columns
  BY <1>1 DEF DriftInv, EntryOK, OutputOK, HasColumns
<1>4. EntryOK'
  BY <1>1 DEF DriftInv, EntryOK, HasColumns
<1>5. OutputOK'
  <2>1. /\ record'.database = entry.database
        /\ DOMAIN record'.columns = Columns \cap SelectedColumns(entry)
        /\ KeyColumns \subseteq DOMAIN record'.columns
        /\ \A c \in DOMAIN record'.columns : record'.columns[c] = entry.columns[c]
    BY <1>1, <1>3, ColumnsAssumption, RecordOfFits
  <2>2. SelectedColumns(entry)' = SelectedColumns(entry) /\ entry.database \in Databases
    BY <1>1 DEF SelectedColumns, DriftInv, EntryOK
  <2> QED BY <1>1, <1>3, <2>1, <2>2 DEF DriftInv, OutputOK
<1>6. ProgressOK' /\ StateOK'
  BY <1>1, <1>2 DEF DriftInv, ProgressOK, StateOK
<1>7. DeliveryOK'
  <2> SUFFICES ASSUME ConfigDatabase = CatalogDatabase, NEW i \in 1 .. Len(wal),
                      wal[i].database = CatalogDatabase
               PROVE  /\ LeftOut(i)' => Delivered(i)'
                      /\ i < CopyLsn => Delivered(i)'
    BY <1>1, <1>2 DEF DeliveryOK, CopyLsn
  <2>1. LeftOut(i)' => Delivered(i)'
    BY <1>1, <1>2 DEF DriftInv, DeliveryOK, LeftOut
  <2>2. CASE i \in copied
    BY <1>1, <1>2, <2>1, <2>2, OthersDelivered
  <2>3. CASE i \notin copied
    BY <1>2, <1>3, <2>1, <2>3 DEF ToCopy
  <2> QED BY <2>1, <2>2, <2>3
<1> QED BY <1>2, <1>4, <1>5, <1>6, <1>7 DEF DriftInv

LEMMA FinishCopyInv == ASSUME DriftInv, FinishCopy PROVE DriftInv'
<1>1. /\ NoProcess /\ UNCHANGED <<tables, wal, deselected, skipped, ddls, failures>>
      /\ phase = "copied" /\ bookmark' = CopyLsn /\ has_xmin' = FALSE /\ copied' = {}
  BY DEF FinishCopy, server
<1>2. /\ ServerOK' /\ Len(wal)' = Len(wal) /\ \A i : Delivered(i)' = Delivered(i)
  BY <1>1, SameServer DEF DriftInv
<1>3. StateOK'
  BY <1>1, <1>2 DEF DriftInv, StateOK, ProgressOK, CopyLsn, NoProcess
<1>4. ASSUME ConfigDatabase = CatalogDatabase, NEW i \in 1 .. Len(wal),
             wal[i].database = CatalogDatabase, LeftOut(i)'
      PROVE  Delivered(i)
  BY <1>1, <1>4 DEF DriftInv, DeliveryOK, LeftOut
<1> QED BY <1>1, <1>2, <1>3, <1>4, IdleInv DEF DriftInv, ProgressOK

\* What a copy that breaks off leaves in the state file, the rows it counts as
\* copied having arrived.
LEMMA BreakOffInv ==
    ASSUME DriftInv, phase \in {"copying", "copied"}, NoProcess,
           ServerOK', Len(wal)' = Len(wal), ddls' \in 0 .. MaxDdl /\ failures' \in 0 .. MaxFailures,
           \A i \in 1 .. Len(wal) :
               wal'[i].database = wal[i].database /\ (Delivered(i) => Delivered(i)'),
           NEW resumable \in {has_xmin, TRUE}, NEW rows \in SUBSET (1 .. Len(wal)),
           BreakOff(resumable, rows),
           ConfigDatabase = CatalogDatabase =>
               \A i \in rows : wal[i].database = CatalogDatabase /\ i < CopyLsn => Delivered(i)'
    PROVE  DriftInv'
<1>1. /\ Len(wal) \in Nat /\ end_lsn \in 0 .. Len(wal) + 1 /\ has_xmin \in BOOLEAN
      /\ StateOK /\ resumable \in BOOLEAN
  BY LogType DEF DriftInv, ProgressOK, StateOK
<1>2. CASE UNCHANGED state
  <2>1. UNCHANGED <<bookmark, has_xmin, copied, skipped>>
    BY <1>2 DEF state
  <2>2. StateOK'
    BY <1>1, <2>1 DEF StateOK, NoProcess
  <2>3. \A i : LeftOut(i)' = LeftOut(i)
    BY <2>1 DEF LeftOut
  <2> QED BY <2>2, <2>3, IdleInv DEF DriftInv, DeliveryOK
<1>3. CASE /\ bookmark' = CopyLsn /\ has_xmin' = resumable
           /\ copied' = IF resumable THEN copied \cup rows ELSE {}
           /\ skipped' = IF resumable THEN skipped ELSE CopyLsn
  <2>1. CopyLsn \in 0 .. Len(wal) + 1 /\ CopyLsn # None
    BY <1>1 DEF StateOK, CopyLsn, DriftInv, ProgressOK
  <2>2. CASE resumable
    <3>1. StateOK'
      BY <1>1, <1>3, <2>1, <2>2 DEF StateOK, NoProcess
    <3>2. ASSUME ConfigDatabase = CatalogDatabase, NEW i \in 1 .. Len(wal),
                 wal[i].database = CatalogDatabase, LeftOut(i)'
          PROVE  Delivered(i)'
      <4>1. i < CopyLsn /\ i \in copied \cup rows
        BY <1>3, <2>2, <3>2 DEF LeftOut
      <4>2. CASE i \in rows
        BY <3>2, <4>1, <4>2
      <4>3. CASE i \in copied
        BY <3>2, <4>1, <4>3, OthersDelivered
      <4> QED BY <4>1, <4>2, <4>3
    <3> QED BY <3>1, <3>2, IdleInv
  <2>3. CASE ~resumable
    <3>1. StateOK'
      BY <1>1, <1>3, <2>1, <2>3 DEF StateOK, NoProcess
    <3>2. \A i \in 1 .. Len(wal) : ~LeftOut(i)'
      BY <1>3, <2>1, <2>3 DEF LeftOut
    <3> QED BY <3>1, <3>2, IdleInv
  <2> QED BY <1>1, <2>2, <2>3
<1> QED BY <1>2, <1>3 DEF BreakOff

LEMMA CopyFailsInv == ASSUME DriftInv, CopyFails PROVE DriftInv'
<1>1. /\ NoProcess /\ UNCHANGED <<tables, wal, deselected, ddls, failures>>
      /\ phase = "copying" /\ BreakOff(has_xmin, {})
  BY DEF CopyFails, server
<1>2. /\ ServerOK' /\ Len(wal)' = Len(wal) /\ \A i : Delivered(i)' = Delivered(i)
  BY <1>1, SameServer DEF DriftInv
<1> QED BY <1>1, <1>2, BreakOffInv DEF DriftInv, ProgressOK

LEMMA CopyStopsInv == ASSUME DriftInv, CopyStops PROVE DriftInv'
<1>1. PICK rows \in SUBSET ToCopy, resumable \in {has_xmin, TRUE} :
          /\ BreakOff(resumable, rows)
          /\ \/ phase = "copying" /\ CopyRecords(rows)
             \/ phase = "copied" /\ UNCHANGED wal
  BY DEF CopyStops
<1>2. /\ NoProcess /\ UNCHANGED <<tables, deselected, ddls>>
      /\ failures < MaxFailures /\ failures' = failures + 1
  BY DEF CopyStops
<1>3. failures' \in 0 .. MaxFailures /\ ddls' \in 0 .. MaxDdl
  BY <1>2, BoundsAssumption DEF DriftInv, ProgressOK
<1>4. rows \in SUBSET (1 .. Len(wal))
  BY LogType DEF DriftInv, ToCopy
<1>5. CASE phase = "copying" /\ CopyRecords(rows)
  BY <1>1, <1>2, <1>3, <1>4, <1>5, RowsDeliver, BreakOffInv
<1>6. CASE phase = "copied" /\ UNCHANGED wal
  <2>1. /\ ServerOK' /\ Len(wal)' = Len(wal) /\ \A i : Delivered(i)' = Delivered(i)
    BY <1>2, <1>6, SameServer DEF DriftInv
  <2>2. ConfigDatabase = CatalogDatabase =>
            \A i \in rows : wal[i].database = CatalogDatabase /\ i < CopyLsn => Delivered(i)
    BY <1>4, <1>6 DEF DriftInv, DeliveryOK
  <2> QED BY <1>1, <1>2, <1>3, <1>4, <1>6, <2>1, <2>2, BreakOffInv
<1> QED BY <1>1, <1>5, <1>6

\* What a session has processed, it may bookmark.
LEMMA FinalBookmarkOK ==
    ASSUME DriftInv, phase = "session"
    PROVE  /\ FinalBookmark \in 0 .. Len(wal) + 1
           /\ ConfigDatabase = CatalogDatabase =>
                  \A i \in 1 .. Len(wal) :
                      wal[i].database = CatalogDatabase /\ i < FinalBookmark /\ i >= skipped =>
                          Delivered(i)
<1>1. /\ Len(wal) \in Nat /\ bookmark \in 0 .. Len(wal) + 1 /\ ~has_xmin
      /\ last_processed_lsn \in 0 .. Len(wal)
      /\ last_fully_processed_lsn \in 0 .. last_processed_lsn
  BY LogType DEF DriftInv, ProgressOK, StateOK
<1>2. FinalBookmark \in {last_fully_processed_lsn, last_processed_lsn, bookmark}
  BY DEF FinalBookmark
<1>3. ASSUME ConfigDatabase = CatalogDatabase, NEW i \in 1 .. Len(wal),
             wal[i].database = CatalogDatabase, i < FinalBookmark, i >= skipped
      PROVE  Delivered(i)
  <2>1. i <= last_processed_lsn \/ LeftOut(i)
    BY <1>1, <1>2, <1>3 DEF LeftOut
  <2> QED BY <1>3, <2>1 DEF DriftInv, DeliveryOK
<1> QED BY <1>1, <1>2, <1>3

\* A session's run is over, or one that has yet to copy or to stream.
LEMMA SessionOver ==
    ASSUME DriftInv, NoProcess, phase \in {"started", "refreshed", "session"},
           UNCHANGED <<tables, wal, deselected, has_xmin, copied, skipped>>,
           ddls' \in 0 .. MaxDdl /\ failures' \in 0 .. MaxFailures,
           bookmark' = bookmark \/ (phase = "session" /\ bookmark' = FinalBookmark)
    PROVE  DriftInv'
<1>1. /\ ServerOK' /\ Len(wal)' = Len(wal) /\ \A i : Delivered(i)' = Delivered(i)
  BY SameServer DEF DriftInv
<1>2. CASE bookmark' = bookmark
  <2>1. StateOK' /\ \A i : LeftOut(i)' = LeftOut(i)
    BY <1>1, <1>2 DEF DriftInv, StateOK, LeftOut, NoProcess
  <2> QED BY <1>1, <2>1, IdleInv DEF DriftInv, DeliveryOK
<1>3. CASE phase = "session" /\ bookmark' = FinalBookmark
  <2>1. StateOK'
    BY <1>1, <1>3, FinalBookmarkOK DEF DriftInv, StateOK, NoProcess
  <2>2. \A i : LeftOut(i)' => i < FinalBookmark /\ i >= skipped
    BY <1>3 DEF DriftInv, StateOK, LeftOut
  <2> QED BY <1>1, <1>3, <2>1, <2>2, FinalBookmarkOK, IdleInv
<1> QED BY <1>2, <1>3

LEMMA EndSessionInv == ASSUME DriftInv, EndSession PROVE DriftInv'
BY SessionOver DEF EndSession, server, DriftInv, ProgressOK

LEMMA RunStopsInv == ASSUME DriftInv, RunStops PROVE DriftInv'
<1>1. /\ NoProcess /\ UNCHANGED <<tables, wal, deselected, has_xmin, copied, skipped, ddls>>
      /\ phase \in {"started", "refreshed", "session"}
      /\ failures < MaxFailures /\ failures' = failures + 1
      /\ bookmark' = bookmark \/ (phase = "session" /\ bookmark' = FinalBookmark)
  BY DEF RunStops, server
<1>2. failures' \in 0 .. MaxFailures /\ ddls' \in 0 .. MaxDdl
  BY <1>1, BoundsAssumption DEF DriftInv, ProgressOK
<1> QED BY <1>1, <1>2, SessionOver

\* The entry that a change is decoded by, refreshed or not, has every column
\* the target is to have of the change.
LEMMA RefreshOnUnknown ==
    ASSUME DriftInv, phase = "session", NEW i \in 1 .. Len(wal),
           wal[i].database = entry.database, UNCHANGED tables, MaybeRefreshSchema(wal[i])
    PROVE  /\ entry' \in [database : Databases, columns : Shape, deselected : SUBSET Columns]
           /\ entry'.database = entry.database /\ entry.database = ConfigDatabase
           /\ published' = entry'.columns
           /\ entry'.deselected \subseteq deselected
           /\ deselected \ entry'.deselected \subseteq absent' /\ absent' \subseteq Columns
           /\ \A c \in Wanted(i) : c \in DOMAIN entry'.columns
<1>1. /\ entry \in [database : Databases, columns : Shape, deselected : SUBSET Columns]
      /\ entry.database = ConfigDatabase /\ published = entry.columns
      /\ entry.deselected \subseteq deselected
      /\ deselected \ entry.deselected \subseteq absent /\ absent \subseteq Columns
  BY DEF DriftInv, EntryOK, OutputOK, HasColumns
<1>2. deselected \subseteq Columns /\ wal[i] \in ChangeOf
  BY LogType, DeselectionsAssumption DEF DriftInv, ServerOK
<1>3. CASE ~wal[i].deletes /\ ~(DOMAIN wal[i].columns \subseteq DOMAIN entry.columns)
  <2> DEFINE fresh == tables[entry.database]
  <2>1. /\ entry' = [database   |-> entry.database, columns |-> fresh,
                     deselected |-> entry.deselected \cap DOMAIN fresh]
        /\ published' = entry'.columns
        /\ absent' = absent \cup (Columns \ DOMAIN entry'.columns)
    BY <1>3 DEF MaybeRefreshSchema, Refreshed, Merged
  <2>2. /\ entry.database \in Databases /\ fresh \in Shape
        /\ Kept(i) \subseteq DOMAIN fresh
    BY <1>1 DEF DriftInv, ServerOK
  <2> HIDE DEF fresh
  <2>3. \A c \in Wanted(i) : c \in DOMAIN fresh
    BY <2>2 DEF Wanted, Kept
  <2>4. deselected \ entry'.deselected \subseteq absent' /\ absent' \subseteq Columns
    BY <1>1, <1>2, <2>1
  <2>5. entry' \in [database : Databases, columns : Shape, deselected : SUBSET Columns]
    BY <1>1, <2>1, <2>2
  <2> QED BY <1>1, <2>1, <2>3, <2>4, <2>5
<1>4. CASE ~(~wal[i].deletes /\ ~(DOMAIN wal[i].columns \subseteq DOMAIN entry.columns))
  <2>1. UNCHANGED <<entry, published, absent>>
    BY <1>4 DEF MaybeRefreshSchema
  <2>2. DOMAIN wal[i].columns \subseteq DOMAIN entry.columns
    <3>1. CASE wal[i].deletes
      <4>1. DOMAIN wal[i].columns = KeyColumns
        BY <3>1, KeyShape DEF DriftInv, ServerOK
      <4> QED BY <1>1, <4>1, ShapeElim
    <3> QED BY <1>4, <3>1
  <2> QED BY <1>1, <2>1, <2>2 DEF Wanted
<1> QED BY <1>3, <1>4

LEMMA ConsumeInv == ASSUME DriftInv, Consume PROVE DriftInv'
<1>1. PICK i \in DOMAIN wal :
          /\ Reads(i) /\ MaybeRefreshSchema(wal[i])
          /\ record' = RecordOf(entry', DOMAIN wal[i].columns)
          /\ wal' = [wal EXCEPT ![i].delivered = @ \cup DOMAIN record'.columns]
          /\ last_processed_lsn' = i /\ last_fully_processed_lsn' = last_processed_lsn
          /\ UNCHANGED <<tables, deselected, phase, end_lsn, bookmark, has_xmin, copied, skipped,
                         ddls, failures>>
  BY DEF Consume, state
<1>2. /\ Len(wal) \in Nat /\ i \in 1 .. Len(wal) /\ phase = "session"
      /\ wal \in Seq(ChangeOf) /\ wal[i] \in ChangeOf /\ DOMAIN wal = 1 .. Len(wal)
  BY <1>1, LogType DEF DriftInv, ServerOK, Reads
  \* The change is the first of those to come.
<1>3. i \in Upcoming /\ \A j \in Upcoming : i <= j
  <2>1. Upcoming \in SUBSET Nat
    BY <1>2 DEF Upcoming
  <2>2. Upcoming # {} /\ i = Min(Upcoming)
    BY <1>1 DEF Reads
  <2> QED BY <2>1, <2>2, MinOf
<1>4. /\ wal[i].database = entry.database
      /\ last_processed_lsn \in 0 .. Len(wal) /\ bookmark \in 0 .. Len(wal) + 1 /\ ~has_xmin
      /\ last_processed_lsn # None => last_processed_lsn < i
  BY <1>2, <1>3 DEF Upcoming, DriftInv, ProgressOK, StateOK
<1>5. /\ entry' \in [database : Databases, columns : Shape, deselected : SUBSET Columns]
      /\ entry'.database = entry.database /\ entry.database = ConfigDatabase
      /\ published' = entry'.columns
      /\ entry'.deselected \subseteq deselected
      /\ deselected \ entry'.deselected \subseteq absent' /\ absent' \subseteq Columns
      /\ \A c \in Wanted(i) : c \in DOMAIN entry'.columns
  BY <1>1, <1>2, <1>4, RefreshOnUnknown
<1>6. /\ record'.database = entry'.database
      /\ DOMAIN record'.columns = DOMAIN wal[i].columns \cap SelectedColumns(entry')
      /\ KeyColumns \subseteq DOMAIN record'.columns /\ DOMAIN record'.columns \subseteq Columns
      /\ \A c \in DOMAIN record'.columns : record'.columns[c] = entry'.columns[c]
  <2>1. KeyColumns \subseteq DOMAIN wal[i].columns
    BY <1>2, ShapeElim DEF ChangeOf
  <2> QED BY <1>1, <1>5, <2>1, RecordOfFits
<1>7. /\ wal' \in Seq(ChangeOf) /\ Len(wal)' = Len(wal)
      /\ \A j \in 1 .. Len(wal) :
             /\ wal'[j].database = wal[j].database /\ wal'[j].deletes = wal[j].deletes
             /\ wal'[j].columns = wal[j].columns /\ wal'[j].gone = wal[j].gone
             /\ wal[j].delivered \subseteq wal'[j].delivered
      /\ DOMAIN record'.columns \subseteq wal'[i].delivered
  <2> DEFINE change == wal[i]
             now    == change.delivered \cup DOMAIN record'.columns
             next   == [change EXCEPT !.delivered = now]
  <2>1. now \in SUBSET Columns /\ change.delivered \subseteq now
    BY <1>2, <1>6 DEF ChangeOf
  <2>2. wal' = [wal EXCEPT ![i] = next]
    BY <1>1
  <2> HIDE DEF now
  <2>3. /\ next \in ChangeOf /\ next.delivered = now
        /\ next.database = change.database /\ next.deletes = change.deletes
        /\ next.columns = change.columns /\ next.gone = change.gone
    BY <1>2, <2>1 DEF ChangeOf
  <2> HIDE DEF next
  <2>4. wal' \in Seq(ChangeOf) /\ Len(wal)' = Len(wal)
    BY <1>2, <2>2, <2>3
  <2>5. wal'[i] = next /\ \A j \in 1 .. Len(wal) : j # i => wal'[j] = wal[j]
    BY <1>2, <2>2
  <2>6. DOMAIN record'.columns \subseteq now
    BY DEF now
  <2> QED BY <2>1, <2>3, <2>4, <2>5, <2>6
<1>8. /\ ServerOK'
      /\ \A j \in 1 .. Len(wal) : Wanted(j)' = Wanted(j) /\ (Delivered(j) => Delivered(j)')
  BY <1>1, <1>7, OnlyDelivers DEF DriftInv
<1>9. EntryOK'
  BY <1>1, <1>2, <1>5 DEF EntryOK, HasColumns
<1>10. OutputOK'
  <2>1. SelectedColumns(entry)' = SelectedColumns(entry')
    BY DEF SelectedColumns
  <2> QED BY <1>1, <1>2, <1>5, <1>6, <2>1 DEF OutputOK
<1>11. ProgressOK' /\ StateOK'
  BY <1>1, <1>2, <1>4, <1>7 DEF DriftInv, ProgressOK, StateOK, None
<1>12. DeliveryOK'
  <2> DEFINE Done(k) == LeftOut(k) \/ (k <= last_processed_lsn /\ k >= skipped)
  <2> SUFFICES ASSUME ConfigDatabase = CatalogDatabase, NEW j \in 1 .. Len(wal),
                      wal[j].database = CatalogDatabase, LeftOut(j) \/ (j <= i /\ j >= skipped)
               PROVE  Delivered(j)'
    BY <1>1, <1>2, <1>7 DEF DeliveryOK, LeftOut
  <2>1. CASE Done(j)
    BY <1>2, <1>8, <2>1 DEF DriftInv, DeliveryOK
  <2>2. CASE j = i
    <3>1. Wanted(i) \subseteq SelectedColumns(entry')
      BY <1>2, <1>5, WantedSelected DEF DriftInv
    <3>2. Wanted(i) \subseteq DOMAIN record'.columns
      BY <1>6, <3>1 DEF Wanted
    <3> QED BY <1>7, <1>8, <2>2, <3>2 DEF Delivered
  <2>3. CASE ~Done(j) /\ j # i
    <3>1. j < i /\ j >= bookmark /\ ~(j <= last_processed_lsn)
      BY <1>1, <1>2, <1>4, <2>3 DEF LeftOut
    <3>2. j \in Upcoming
      BY <1>2, <1>4, <1>5, <3>1 DEF Upcoming
    <3> QED BY <1>2, <1>3, <3>1, <3>2
  <2> QED BY <2>1, <2>2, <2>3
<1> QED BY <1>8, <1>9, <1>10, <1>11, <1>12 DEF DriftInv

LEMMA StutterInv == ASSUME DriftInv, UNCHANGED vars PROVE DriftInv'
<1>1. UNCHANGED <<tables, wal, deselected, phase, end_lsn, entry, last_processed_lsn,
                  last_fully_processed_lsn, published, record, bookmark, has_xmin, copied, skipped,
                  absent, ddls, failures>>
  BY DEF vars, server, session, output, state
<1>2. /\ ServerOK' /\ Len(wal)' = Len(wal)
      /\ \A i : Delivered(i)' = Delivered(i) /\ Kept(i)' = Kept(i) /\ LeftOut(i)' = LeftOut(i)
  BY <1>1, SameServer DEF DriftInv, LeftOut
<1>3. EntryOK' /\ OutputOK'
  BY <1>1 DEF DriftInv, EntryOK, OutputOK, HasColumns, SelectedColumns
<1>4. ProgressOK' /\ StateOK'
  BY <1>1, <1>2 DEF DriftInv, ProgressOK, StateOK
<1>5. DeliveryOK'
  BY <1>1, <1>2 DEF DriftInv, DeliveryOK, CopyLsn
<1> QED BY <1>2, <1>3, <1>4, <1>5 DEF DriftInv

-----------------------------------------------------------------------------
(***************************************************************************)
(* The theorems.                                                           *)
(***************************************************************************)

\* The entry a session works with is always the one it has published, and
\* together with what the table has lost it accounts for every column of every
\* change (refresh_streams_schema, _maybe_refresh_schema, consume_message).
THEOREM DriftInvariant == Spec => []DriftInv
<1>1. DriftInv /\ [Next]_vars => DriftInv'
  BY ChangeInv, AlterTableInv, StartRunInv, RefreshInv, StartCopyInv, CopyRowsInv, FinishCopyInv,
     CopyFailsInv, CopyStopsInv, StartSessionInv, ConsumeInv, EndSessionInv, RunStopsInv, StutterInv
     DEF Next
<1> QED BY InitInv, <1>1, PTL DEF Spec

\* Entries, published schemas and bookmarks are well formed, whatever shapes
\* the table takes.
THEOREM TypeCorrect == Spec => []TypeOK
<1>1. DriftInv => TypeOK
  <2> SUFFICES ASSUME DriftInv PROVE TypeOK
    OBVIOUS
  <2>1. ChangeOf \subseteq ChangeType
    BY DEF ChangeOf, ChangeType
  <2>2. wal \in Seq(ChangeType)
    BY <2>1 DEF DriftInv, ServerOK
  <2>3. DOMAIN wal = 1 .. Len(wal)
    BY LogType DEF DriftInv
  <2> QED BY <2>2, <2>3 DEF TypeOK, DriftInv, ServerOK, EntryOK, OutputOK, ProgressOK, StateOK
<1> QED BY DriftInvariant, <1>1, PTL

\* Every RECORD has the key and only columns that the SCHEMA message before it
\* declares, with the datatypes it declared (write_schema_message and
\* row_to_record use one entry between two refreshes).
THEOREM RecordsFit == Spec => []RecordFitsSchema
<1>1. DriftInv => RecordFitsSchema
  <2> SUFFICES ASSUME DriftInv PROVE RecordFitsSchema
    OBVIOUS
  <2>1. CASE record = NoRecord
    BY <2>1 DEF RecordFitsSchema, NoRecord, NoColumns
  <2>2. CASE record # NoRecord
    <3>1. entry.columns \in Shape /\ published = entry.columns
      BY <2>2 DEF DriftInv, EntryOK, OutputOK, HasColumns
    <3> QED BY <2>2, <3>1, SelectedOf DEF RecordFitsSchema, DriftInv, OutputOK
  <2> QED BY <2>1, <2>2
<1> QED BY DriftInvariant, <1>1, PTL

\* De-selected columns stay out of the RECORDs (merge_refreshed_metadata keeps
\* the operator's metadata of the columns that the fresh schema still has).
THEOREM DeselectedAreLeftOut == Spec => []DeselectedStaysOut
<1>1. DriftInv => DeselectedStaysOut
  <2> SUFFICES ASSUME DriftInv PROVE DeselectedStaysOut
    OBVIOUS
  <2>1. CASE record = NoRecord
    BY <2>1 DEF DeselectedStaysOut, NoRecord, NoColumns
  <2>2. CASE record # NoRecord
    <3>1. /\ entry.columns \in Shape /\ deselected \ entry.deselected \subseteq absent
          /\ DOMAIN record.columns \subseteq SelectedColumns(entry)
      BY <2>2 DEF DriftInv, EntryOK, OutputOK, HasColumns
    <3> QED BY <3>1, SelectedOf DEF DeselectedStaysOut
  <2> QED BY <2>1, <2>2
<1> QED BY DriftInvariant, <1>1, PTL

\* No value is lost to a schema the tap had yet to look at (the end LSN before
\* the refresh in do_sync; the refresh on unknown columns), provided that the
\* tap is configured with the database its catalog names.
THEOREM NoValueLost ==
    ASSUME ConfigDatabase = CatalogDatabase
    PROVE  Spec => []EveryValueDelivered
<1>1. DriftInv => EveryValueDelivered
  <2> SUFFICES ASSUME DriftInv, NEW i \in 1 .. Len(wal), Passed(i),
                      wal[i].database = CatalogDatabase, i >= skipped
               PROVE  Delivered(i)
    BY LogType DEF DriftInv, Delivered, EveryValueDelivered
  <2>1. LeftOut(i) \/ (phase = "session" /\ i <= last_processed_lsn)
    BY DEF Passed, LeftOut
  <2> QED BY <2>1 DEF DriftInv, DeliveryOK
<1> QED BY DriftInvariant, <1>1, PTL
=============================================================================
