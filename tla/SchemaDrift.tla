----------------------------- MODULE SchemaDrift -----------------------------
(***************************************************************************)
(* A LOG_BASED stream whose table changes shape while it is replicated:    *)
(* the schema refresh of discovery.py, the selection of stream_utils.py,   *)
(* and the drift detection of logical.py.  The log carries every change    *)
(* with the columns the table had when it was made; the tap works with     *)
(* the columns the table has when it looks, which it does at the start of  *)
(* a run, after taking the end LSN, and when a change brings a name it     *)
(* does not know.                                                          *)
(*                                                                         *)
(* Rows and bookmarks are reduced to what columns need: a change is a      *)
(* transaction of its own with its index in wal as LSN, and the target     *)
(* stores what it is sent (LogicalSession, SyncRuns have the rest).  A     *)
(* copy that is resumed reads what it has not read before: FullTableCopy   *)
(* has the order of xmin by text, which breaks this.  0 is None.           *)
(***************************************************************************)
EXTENDS DataTypes, Sequences, FiniteSetsExt

CONSTANTS
    Columns,          \* the names the table's columns may have
    KeyColumns,       \* its primary key
    ColumnTypes,      \* the types each column may be given
    Deselections,     \* the sets of columns that catalogs de-select
    FirstShapes,      \* the columns and types a table may have at first
    Databases,        \* databases with a table of that name
    ConfigDatabase,   \* the setting dbname
    CatalogDatabase,  \* database-name in the catalog file
    break_at_end,     \* the setting break_at_end_lsn
    MaxChanges,       \* bound: changes in the log
    MaxDdl,           \* bound: ALTER TABLE statements
    MaxFailures       \* bound: runs that fail or stop early

ASSUME ColumnsAssumption == IsFiniteSet(Columns) /\ KeyColumns \subseteq Columns /\ KeyColumns # {}
ASSUME DeselectionsAssumption == Deselections \subseteq SUBSET Columns
ASSUME DatabasesAssumption == {ConfigDatabase, CatalogDatabase} \subseteq Databases
ASSUME BoundsAssumption ==
    break_at_end \in BOOLEAN /\ {MaxChanges, MaxDdl, MaxFailures} \subseteq Nat

\* A column of this name and type, as discovery sees it.
Info(c, t) ==
    [data_type |-> t, length |-> 1, is_array |-> FALSE, is_primary_key |-> c \in KeyColumns]

Supported(c, t) == Inclusion(Info(c, t)) # "unsupported"

\* A column changes only to a type that takes its old values, and keeps being
\* supported or not; its key columns are supported.
ASSUME TypesAssumption ==
    /\ ColumnTypes \in [Columns -> SUBSET DataType \ {{}}]
    /\ \A c \in Columns : \/ ColumnTypes[c] \subseteq INTEGER_TYPES
                          \/ ColumnTypes[c] \subseteq STRING_TYPES
                          \/ /\ c \notin KeyColumns
                             /\ \A t \in ColumnTypes[c] : ~Supported(c, t)

VARIABLES
    \* The database server.
    tables,      \* the columns of each database's table, and their types
    wal,         \* the changes: database, action and columns; history: the
                 \* columns dropped since, and those the target has
    \* The operator.
    deselected,  \* columns with selected: false in the catalog file
    \* The tap process.
    phase,       \* "idle", "started", "refreshed", "copying", "copied" or "session"
    end_lsn,
    entry,       \* the stream's catalog entry: database, columns, deselected
    last_processed_lsn,
    last_fully_processed_lsn,
    \* Its output, in this run.
    published,   \* columns and types of the run's last SCHEMA message
    record,      \* the last RECORD since: its database, columns and datatypes
    \* The state file.
    bookmark,    \* the lsn bookmark
    has_xmin,    \* there is an xmin bookmark beside it
    \* History and bounds.
    copied,      \* changes in the rows up to that xmin
    skipped,     \* changes before this one were left to a copy that broke off
                 \* and that no run goes on with
    absent,      \* columns the table has lacked at some time since the run's refresh
    ddls,
    failures

server  == <<tables, wal>>
session == <<last_processed_lsn, last_fully_processed_lsn>>
output  == <<published, record>>
state   == <<bookmark, has_xmin, copied, skipped>>
vars    == <<server, deselected, phase, end_lsn, entry, session, output, state, absent, ddls,
             failures>>

None == 0

Shape == {s \in UNION {[C -> UNION {ColumnTypes[c] : c \in Columns}] : C \in SUBSET Columns} :
             KeyColumns \subseteq DOMAIN s /\ \A c \in DOMAIN s : s[c] \in ColumnTypes[c]}

ASSUME FirstShapesAssumption == FirstShapes \subseteq Shape

NoColumns == [c \in {} |-> "none"]
NoRecord  == [database |-> CatalogDatabase, columns |-> NoColumns]
NoEntry   == [database |-> CatalogDatabase, columns |-> NoColumns, deselected |-> {}]

Only(shape, names) == [c \in DOMAIN shape \cap names |-> shape[c]]

-----------------------------------------------------------------------------
(***************************************************************************)
(* The database.                                                           *)
(***************************************************************************)

\* An insert, an update or a delete; a delete has the replica identity only.
Change ==
    /\ Len(wal) < MaxChanges
    /\ \E d \in Databases, deletes \in BOOLEAN :
           wal' = Append(wal, [database |-> d, deletes |-> deletes,
                               columns |-> IF deletes THEN Only(tables[d], KeyColumns)
                                           ELSE tables[d],
                               gone |-> {}, delivered |-> {}])
    /\ UNCHANGED <<tables, deselected, phase, end_lsn, entry, session, output, state, absent,
                   ddls, failures>>

\* ALTER TABLE: a column is added, retyped or dropped.
AlterTable ==
    /\ ddls < MaxDdl
    /\ ddls' = ddls + 1
    /\ \E d \in Databases, s \in Shape :
           LET dropped == DOMAIN tables[d] \ DOMAIN s
           IN  /\ \E c \in Columns : /\ Only(s, Columns \ {c}) = Only(tables[d], Columns \ {c})
                                     /\ Only(s, {c}) # Only(tables[d], {c})
               /\ tables' = [tables EXCEPT ![d] = s]
               /\ wal' = [i \in DOMAIN wal |->
                             IF wal[i].database = d THEN [wal[i] EXCEPT !.gone = @ \cup dropped]
                             ELSE wal[i]]
               /\ absent' = IF d = entry.database /\ entry.columns # NoColumns
                             THEN absent \cup dropped ELSE absent
    /\ UNCHANGED <<deselected, phase, end_lsn, entry, session, output, state, failures>>

-----------------------------------------------------------------------------
(***************************************************************************)
(* The catalog entry.                                                      *)
(***************************************************************************)

\* MUTANT: a refreshed entry has discovery's metadata only.
Merged_FreshOnly(old, fresh) ==
    [database |-> fresh.database, columns |-> fresh.columns, deselected |-> {}]

\* merge_refreshed_metadata: the fresh schema and discoverable metadata, which
\* database-name is among, and the operator's metadata of columns that still
\* exist.
Merged(old, fresh) ==
    [database   |-> fresh.database,
     columns    |-> fresh.columns,
     deselected |-> old.deselected \cap DOMAIN fresh.columns]

\* refresh_streams_schema, on a connection to database d.
Refreshed(old, d) == Merged(old, [database |-> d, columns |-> tables[d]])

\* selected_columns
SelectedColumns(e) ==
    {c \in DOMAIN e.columns :
        LET inclusion == Inclusion(Info(c, e.columns[c]))
        IN  \/ inclusion = "automatic"
            \/ inclusion = "available" /\ c \notin e.deselected}

\* The RECORD of a row that has these columns: values are decoded by the
\* entry's sql-datatype.
RecordOf(e, names) ==
    [database |-> e.database, columns |-> Only(e.columns, names \cap SelectedColumns(e))]

-----------------------------------------------------------------------------
(***************************************************************************)
(* A run.                                                                  *)
(***************************************************************************)

\* MUTANT: a session begins where another one's progress ended.
NoProcess_ProgressKept ==
    /\ phase' = "idle"
    /\ end_lsn' = None
    /\ entry' = NoEntry
    /\ last_processed_lsn' = None
    /\ UNCHANGED last_fully_processed_lsn
    /\ published' = NoColumns
    /\ record' = NoRecord
    /\ absent' = {}

NoProcess ==
    /\ phase' = "idle"
    /\ end_lsn' = None
    /\ entry' = NoEntry
    /\ last_processed_lsn' = None
    /\ last_fully_processed_lsn' = None
    /\ published' = NoColumns
    /\ record' = NoRecord
    /\ absent' = {}

\* do_sync up to the end LSN, which the primary reports.
StartRun ==
    /\ phase = "idle"
    /\ phase' = "started"
    /\ end_lsn' = Len(wal) + 1
    /\ entry' = [database |-> CatalogDatabase, columns |-> NoColumns, deselected |-> deselected]
    /\ UNCHANGED <<server, deselected, session, output, state, absent, ddls, failures>>

\* do_sync refreshes all streams, without a database name: open_connection
\* takes the configured one.
Refresh ==
    /\ phase = "started"
    /\ phase' = "refreshed"
    /\ entry' = Refreshed(entry, ConfigDatabase)
    /\ absent' = Columns \ DOMAIN entry'.columns
    /\ UNCHANGED <<server, deselected, end_lsn, session, output, state, ddls, failures>>

\* write_schema_message.
WriteSchema == published' = entry.columns /\ record' = NoRecord

\* A stream without an lsn bookmark, or with one of xmin too, is copied: the
\* SCHEMA message.
StartCopy ==
    /\ phase = "refreshed"
    /\ bookmark = None \/ has_xmin
    /\ phase' = "copying"
    /\ WriteSchema
    /\ UNCHANGED <<server, deselected, end_lsn, entry, session, state, absent, ddls, failures>>

\* The lsn the copy bookmarks before it begins, an interrupted one its own.
CopyLsn == IF bookmark = None THEN end_lsn ELSE bookmark

\* The copy's rows.  The query names the selected columns and fails if one of
\* them has gone; resumed, it leaves out the rows up to the watermark.
CanCopy == SelectedColumns(entry) \subseteq DOMAIN tables[entry.database]
ToCopy  == {i \in DOMAIN wal : wal[i].database = entry.database /\ i \notin copied}

CopyRecords(rows) ==
    wal' = [i \in DOMAIN wal |->
               IF i \in rows THEN [wal[i] EXCEPT !.delivered = @ \cup SelectedColumns(entry)]
               ELSE wal[i]]

\* MUTANT: the bookmark is the end of the WAL when the rows are read.
CopyRows_LsnAtQuery ==
    /\ phase = "copying"
    /\ CanCopy
    /\ phase' = "copied"
    /\ record' = RecordOf(entry, Columns)
    /\ CopyRecords(ToCopy)
    /\ end_lsn' = Len(wal) + 1
    /\ UNCHANGED <<tables, deselected, entry, session, published, state, absent, ddls, failures>>

\* Whatever has committed by now is copied.
CopyRows ==
    /\ phase = "copying"
    /\ CanCopy
    /\ phase' = "copied"
    /\ record' = RecordOf(entry, Columns)
    /\ CopyRecords(ToCopy)
    /\ UNCHANGED <<tables, deselected, end_lsn, entry, session, published, state, absent, ddls,
                   failures>>

\* The STATE message after the copy.  Its session begins with the next run.
FinishCopy ==
    /\ phase = "copied"
    /\ bookmark' = CopyLsn
    /\ has_xmin' = FALSE
    /\ copied' = {}
    /\ NoProcess
    /\ UNCHANGED <<server, deselected, skipped, ddls, failures>>

\* What the state file has of a copy that broke off: nothing, the STATE that
\* prepare wrote, with the lsn and, if resumable, the xmin of the copy before,
\* or a STATE with the xmin of one of these rows.  With an lsn alone, the next
\* run streams.
BreakOff(resumable, rows) ==
    \/ UNCHANGED state
    \/ /\ bookmark' = CopyLsn
       /\ has_xmin' = resumable
       /\ copied' = IF resumable THEN copied \cup rows ELSE {}
       /\ skipped' = IF resumable THEN skipped ELSE CopyLsn

\* The query fails for a column that has gone.
CopyFails ==
    /\ phase = "copying"
    /\ ~CanCopy
    /\ BreakOff(has_xmin, {})
    /\ NoProcess
    /\ UNCHANGED <<server, deselected, ddls, failures>>

\* The copy is killed or raises with some of its rows read, and has written an
\* xmin or has not.
CopyStops ==
    /\ failures < MaxFailures
    /\ failures' = failures + 1
    /\ \E rows \in SUBSET ToCopy, resumable \in {has_xmin, TRUE} :
           /\ BreakOff(resumable, rows)
           /\ \/ phase = "copying" /\ CanCopy /\ CopyRecords(rows)
              \/ /\ phase = "copied" /\ UNCHANGED wal
                 /\ \A i \in rows : SelectedColumns(entry) \subseteq wal[i].delivered
    /\ NoProcess
    /\ UNCHANGED <<tables, deselected, ddls>>

\* A stream with an lsn and no xmin is streamed: the SCHEMA message with the
\* automatic properties, then the session.
StartSession ==
    /\ phase = "refreshed"
    /\ bookmark # None /\ ~has_xmin
    /\ phase' = "session"
    /\ WriteSchema
    /\ UNCHANGED <<server, deselected, end_lsn, entry, session, state, absent, ddls, failures>>

\* MUTANT: a session starts behind its bookmark.
Upcoming_Behind ==
    {i \in DOMAIN wal : /\ wal[i].database = entry.database
                        /\ IF last_processed_lsn = None THEN i > bookmark
                           ELSE i > last_processed_lsn}

\* The changes the slot of this database has yet to send; the bookmarked one
\* is sent again.
Upcoming ==
    {i \in DOMAIN wal : /\ wal[i].database = entry.database
                        /\ IF last_processed_lsn = None THEN i >= bookmark
                           ELSE i > last_processed_lsn}

\* The session reads change i.
Reads(i) == phase = "session" /\ Upcoming # {} /\ i = Min(Upcoming) /\ (break_at_end => i <= end_lsn)

\* MUTANT: the schema is refreshed and not published.
MaybeRefreshSchema_Silent(change) ==
    IF ~change.deletes /\ ~(DOMAIN change.columns \subseteq DOMAIN entry.columns)
    THEN /\ entry' = Refreshed(entry, entry.database)
         /\ absent' = absent \cup (Columns \ DOMAIN entry'.columns)
         /\ UNCHANGED published
    ELSE UNCHANGED <<entry, published, absent>>

\* _maybe_refresh_schema: a column name the entry lacks.
MaybeRefreshSchema(change) ==
    IF ~change.deletes /\ ~(DOMAIN change.columns \subseteq DOMAIN entry.columns)
    THEN /\ entry' = Refreshed(entry, entry.database)
         /\ published' = entry'.columns
         /\ absent' = absent \cup (Columns \ DOMAIN entry'.columns)
    ELSE UNCHANGED <<entry, published, absent>>

\* consume_message: the refresh, the RECORD, the bookmark.
Consume ==
    \E i \in DOMAIN wal :
        /\ Reads(i)
        /\ MaybeRefreshSchema(wal[i])
        /\ record' = RecordOf(entry', DOMAIN wal[i].columns)
        /\ wal' = [wal EXCEPT ![i].delivered = @ \cup DOMAIN record'.columns]
        /\ last_processed_lsn' = i
        /\ last_fully_processed_lsn' = last_processed_lsn
        /\ UNCHANGED <<tables, deselected, phase, end_lsn, state, ddls, failures>>

\* finalize: the last fully processed change, or the only one.
FinalBookmark ==
    IF last_fully_processed_lsn # None THEN last_fully_processed_lsn
    ELSE IF last_processed_lsn # None THEN last_processed_lsn
    ELSE bookmark

\* The session has read what there is, or what it may read.
EndSession ==
    /\ phase = "session"
    /\ ~\E i \in DOMAIN wal : Reads(i)
    /\ bookmark' = FinalBookmark
    /\ NoProcess
    /\ UNCHANGED <<server, deselected, has_xmin, copied, skipped, ddls, failures>>

\* A run that copies nothing is killed, or it raises or runs out of time, when
\* a session finalizes.
RunStops ==
    /\ phase \in {"started", "refreshed", "session"}
    /\ failures < MaxFailures
    /\ failures' = failures + 1
    /\ bookmark' \in IF phase = "session" THEN {bookmark, FinalBookmark} ELSE {bookmark}
    /\ NoProcess
    /\ UNCHANGED <<server, deselected, has_xmin, copied, skipped, ddls>>

-----------------------------------------------------------------------------
Init ==
    /\ tables \in [Databases -> FirstShapes]
    /\ wal = << >>
    /\ deselected \in Deselections
    /\ phase = "idle"
    /\ end_lsn = None
    /\ entry = NoEntry
    /\ last_processed_lsn = None
    /\ last_fully_processed_lsn = None
    /\ published = NoColumns
    /\ record = NoRecord
    /\ bookmark = None
    /\ has_xmin = FALSE
    /\ copied = {}
    /\ skipped = None
    /\ absent = {}
    /\ ddls = 0
    /\ failures = 0

Next ==
    \/ Change
    \/ AlterTable
    \/ StartRun
    \/ Refresh
    \/ StartCopy
    \/ CopyRows
    \/ FinishCopy
    \/ CopyFails
    \/ CopyStops
    \/ StartSession
    \/ Consume
    \/ EndSession
    \/ RunStops

Spec == Init /\ [][Next]_vars

\* Runs are scheduled, a run goes on from step to step and its session reads
\* what the server sends.
Fairness ==
    /\ WF_vars(StartRun)
    /\ WF_vars(Refresh)
    /\ WF_vars(StartCopy \/ CopyRows \/ CopyFails \/ FinishCopy)
    /\ WF_vars(StartSession)
    /\ WF_vars(Consume)
    /\ WF_vars(EndSession)

FairSpec == Spec /\ Fairness
-----------------------------------------------------------------------------
(***************************************************************************)
(* Properties.                                                             *)
(***************************************************************************)

ChangeType ==
    [database : Databases, deletes : BOOLEAN,
     columns : Shape \cup {Only(s, KeyColumns) : s \in Shape},
     gone : SUBSET Columns, delivered : SUBSET Columns]

TypeOK ==
    /\ tables \in [Databases -> Shape]
    /\ wal \in Seq(ChangeType) /\ Len(wal) <= MaxChanges
    /\ deselected \in Deselections
    /\ phase \in {"idle", "started", "refreshed", "copying", "copied", "session"}
    /\ end_lsn \in 0 .. Len(wal) + 1
    /\ entry \in [database : Databases, columns : Shape \cup {NoColumns}, deselected : SUBSET Columns]
    /\ last_processed_lsn \in 0 .. Len(wal)
    /\ last_fully_processed_lsn \in 0 .. last_processed_lsn
    /\ published \in Shape \cup {NoColumns}
    /\ record.database \in Databases /\ DOMAIN record.columns \subseteq Columns
    /\ bookmark \in 0 .. Len(wal) + 1
    /\ has_xmin \in BOOLEAN /\ (has_xmin => bookmark # None)
    /\ copied \subseteq DOMAIN wal /\ skipped \in 0 .. Len(wal) + 1
    /\ absent \subseteq Columns
    /\ ddls \in 0 .. MaxDdl /\ failures \in 0 .. MaxFailures

\* Every RECORD has only columns that the last SCHEMA message declares,
\* decoded by the datatypes it declared, and the key properties it promised,
\* whatever has happened to the table in the meantime.
RecordFitsSchema ==
    /\ \A c \in DOMAIN record.columns : c \in DOMAIN published /\ published[c] = record.columns[c]
    /\ record # NoRecord => KeyColumns \subseteq DOMAIN record.columns

\* The columns of change i the target is to have: supported ones that the
\* operator selected, and that the table has kept.
Wanted(i) ==
    {c \in DOMAIN wal[i].columns : /\ Supported(c, wal[i].columns[c])
                                   /\ (c \in KeyColumns \/ c \notin deselected)
                                   /\ c \notin wal[i].gone}

\* Changes the tap counts as processed: with an xmin the copy has yet to end.
Passed(i) ==
    \/ i < bookmark /\ ~has_xmin
    \/ phase = "session" /\ i <= last_processed_lsn

\* No value is lost to a schema the tap had not looked at again: a change that
\* the copy or the session has passed has arrived with all its columns (the
\* end LSN before the refresh, do_sync; the refresh on unknown columns,
\* _maybe_refresh_schema), also if copies fail and are resumed.  All but those
\* before an lsn whose copy broke off before the first STATE with an xmin:
\* with the lsn alone in the state, no run copies them (SyncSkippedCopy).
EveryValueDelivered ==
    \A i \in DOMAIN wal :
        Passed(i) /\ wal[i].database = CatalogDatabase /\ i >= skipped =>
            Wanted(i) \subseteq wal[i].delivered

\* A column the operator has de-selected is in no RECORD, refreshes or not,
\* unless it is of the key or the table was without it during the run
\* ("selected ... must survive a schema refresh").
DeselectedStaysOut ==
    DOMAIN record.columns \cap deselected \subseteq KeyColumns \cup absent

\* Every RECORD comes from the database that the catalog names for its stream.
OwnDatabase == record.database = CatalogDatabase

\* Whatever the table's owner does, every change arrives at last with the
\* columns the operator selected: no run is stopped by drift for good.  But
\* one column that is dropped between the refresh and the query of a first
\* copy can make the tap skip what it was to copy, as above.
EveryChangeDelivered ==
    \A i \in 1 .. MaxChanges :
        i \in DOMAIN wal ~>
            i \in DOMAIN wal /\ (Wanted(i) \subseteq wal[i].delivered \/ i < skipped)
=============================================================================
