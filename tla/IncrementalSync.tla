-------------------------- MODULE IncrementalSync --------------------------
(***************************************************************************)
(* INCREMENTAL replication of one table (src/tap_postgres/incremental.py): *)
(* run after run reads the rows at or beyond the bookmarked value of the   *)
(* replication key, while the table is written to, runs fail and the       *)
(* pipeline crashes.                                                       *)
(*                                                                         *)
(* A row's content is the number of the write that left it so.  A key is a *)
(* number, its place in the order of the key's type, and so is a bookmark: *)
(* what the key it names is after the conversions on its way to the state  *)
(* file and back into the query.  0 is None: a NULL key, no bookmark, no   *)
(* version, no row.                                                        *)
(***************************************************************************)
EXTENDS Integers, Sequences, FiniteSetsExt

CONSTANTS
    Rows,                 \* the table's primary keys
    MaxKey,               \* the highest replication key
    converted,            \* what each replication key is bookmarked as
    MaxTies,              \* the most rows that share a replication key
    Limits,               \* the values of the setting limit, rows per run: 0 for none
    Modes,                \* the values batch_mode may have: batch_config set, or not
    batch_size,           \* rows that fill a batch file
    STATE_UPDATE_PERIOD,  \* rows between STATE messages of RECORD mode
    MaxWrites,            \* bound: writes to the table
    MaxCrashes            \* bound

ASSUME RowsAssumption == Rows # {} /\ IsFiniteSet(Rows)
ASSUME ModesAssumption == Modes \subseteq BOOLEAN
ASSUME SizesAssumption == {MaxKey, MaxTies, batch_size, STATE_UPDATE_PERIOD} \subseteq Nat \ {0}
ASSUME ConvertedAssumption == converted \in [1 .. MaxKey -> 0 .. MaxKey]
ASSUME BoundsAssumption == Limits \subseteq Nat /\ {MaxWrites, MaxCrashes} \subseteq Nat

VARIABLES
    \* The database.
    table,     \* each row's replication key and the write that left it so
    writes,
    \* The tap process.
    syncing,
    batch_mode, \* BATCH messages instead of RECORDs
    version,   \* the stream's version bookmark
    replication_key_value,  \* the stream's bookmark of that name
    cursor,    \* rows of the query still to come
    buffer,    \* rows in the ArrowBatchWriter
    rows_saved, \* RECORDs written, modulo STATE_UPDATE_PERIOD
    \* Downstream.
    pipe,      \* messages written and not yet handled by the target
    file,      \* the version and key bookmarks of the --state file
    target,    \* each row as the target has it: the write and the version
    \* History.
    seen,      \* the highest key a query returned that can be bookmarked
    late,      \* rows written with a key below seen
    raised,    \* a query returned a key that is bookmarked as a higher one
    clock,     \* versions handed out
    crashes

database   == <<table, writes, late>>
process    == <<syncing, batch_mode, version, replication_key_value, cursor, buffer, rows_saved>>
downstream == <<pipe, file, target>>
history    == <<seen, raised, clock, crashes>>
vars       == <<database, process, downstream, history>>

None == 0
Keys == 1 .. MaxKey

RowVersion == [row : Rows, key : Keys \cup {None}, write : 1 .. MaxWrites]

-----------------------------------------------------------------------------
(***************************************************************************)
(* The database.  An insert or an update, at the moment it commits: keys   *)
(* need not appear in the order in which they become visible.              *)
(***************************************************************************)
Write ==
    /\ writes < MaxWrites
    /\ writes' = writes + 1
    /\ \E r \in Rows, k \in Keys \cup {None} :
           /\ Cardinality({q \in Rows \ {r} : k # None /\ table[q].key = k}) < MaxTies
           /\ table' = [table EXCEPT ![r] = [key |-> k, write |-> writes']]
           /\ late' = IF k # None /\ k < seen THEN late \cup {r} ELSE late \ {r}
    /\ UNCHANGED <<process, downstream, history>>

-----------------------------------------------------------------------------
(***************************************************************************)
(* The query (sqlgen.incremental_sql).  Without a bookmark it returns the  *)
(* rows with a NULL key too, after all others; with one a NULL compares as *)
(* unknown, so they do not qualify.                                        *)
(***************************************************************************)

\* MUTANT: the bookmarked key itself is left out.
Qualifies_Strict(key, bookmark) == bookmark = None \/ key > bookmark

Qualifies(key, bookmark) == bookmark = None \/ key >= bookmark

TableRows(bookmark) ==
    {[row |-> r, key |-> table[r].key, write |-> table[r].write] :
        r \in {q \in Rows : table[q].write # None /\ Qualifies(table[q].key, bookmark)}}

\* ORDER BY key ASC: NULLs come last.
Before(c, d) == c.key # None /\ (d.key = None \/ c.key < d.key)

\* Rows that may be the first ones out; ties come in any order.
IsFront(chunk, rows) == \A c \in chunk, d \in rows \ chunk : ~Before(d, c)

\* What the query may return: LIMIT cuts off the end.
Results(bookmark, limit) ==
    LET rows == TableRows(bookmark)
    IN  {chunk \in SUBSET rows :
            /\ IsFront(chunk, rows)
            /\ IF limit = 0 \/ Cardinality(rows) <= limit
               THEN chunk = rows ELSE Cardinality(chunk) = limit}

\* A key as it is bookmarked: clamped in the select list (select_expression),
\* while the query orders and compares the column itself; converted
\* (selected_value_to_singer_value); and cast to the key's type by the next
\* query.  Timestamps BC, beyond the year 9999 or infinite, of either sign,
\* become the end of that year; the time 24:00:00 becomes 00:00:00, and times
\* lose their fractions and their zone; Infinity and NaN become null.
SingerKey(key) == IF key = None THEN None ELSE converted[key]

-----------------------------------------------------------------------------
(***************************************************************************)
(* A run.                                                                  *)
(***************************************************************************)

State(v, k)       == [type |-> "STATE", version |-> v, key |-> k]
Activate(v)       == [type |-> "ACTIVATE_VERSION", version |-> v]
Record(rows, v)   == [type |-> "RECORD", rows |-> rows, version |-> v]
\* A BATCH message names a file and has no version.
Batch(rows)       == [type |-> "BATCH", rows |-> rows, version |-> None]

IfAny(rows, messages) == IF rows = {} THEN << >> ELSE messages

NoProcess ==
    /\ syncing' = FALSE
    /\ batch_mode' = FALSE
    /\ version' = None
    /\ replication_key_value' = None
    /\ cursor' = {}
    /\ buffer' = {}
    /\ rows_saved' = 0

\* MUTANT: only a key bookmark tells of an earlier run.
PickVersion_KeyBookmark(bookmark) == IF bookmark.key # None THEN bookmark.version ELSE clock + 1

PickVersion(bookmark) == IF bookmark.version # None THEN bookmark.version ELSE clock + 1

\* sync_table up to the query's snapshot.
StartSync ==
    /\ ~syncing
    /\ pipe = << >>
    /\ syncing' = TRUE
    /\ batch_mode' \in Modes
    /\ version' = PickVersion(file)
    /\ clock' = Max({clock, version'})
    /\ replication_key_value' = file.key
    /\ \E limit \in Limits : cursor' \in Results(file.key, limit)
    /\ seen' = Max({seen} \cup {SingerKey(c.key) : c \in cursor'})
    /\ raised' = (raised \/ \E c \in cursor' : SingerKey(c.key) > c.key)
    /\ pipe' = << State(version', file.key), Activate(version') >>
    /\ UNCHANGED <<database, buffer, rows_saved, file, target, crashes>>

\* MUTANT: whatever key the record has is bookmarked, a NULL too.
NextBookmark_NullToo(key) == SingerKey(key)

\* The key bookmark after a RECORD: one that is null is passed over.
NextBookmark(key) == IF SingerKey(key) = None THEN replication_key_value ELSE SingerKey(key)

\* sync_table's loop, one row: the RECORD, then the bookmark, then STATE.
SyncRecord ==
    /\ syncing
    /\ ~batch_mode
    /\ \E c \in cursor :
           /\ IsFront({c}, cursor)
           /\ cursor' = cursor \ {c}
           /\ replication_key_value' = NextBookmark(c.key)
           /\ rows_saved' = (rows_saved + 1) % STATE_UPDATE_PERIOD
           /\ pipe' = pipe \o << Record({c}, version) >>
                  \o IF rows_saved' = 0
                     THEN << State(version, replication_key_value') >> ELSE << >>
    /\ UNCHANGED <<database, syncing, batch_mode, version, buffer, file, target, history>>

\* The key bookmark after a record batch: its last key that is not NULL, as
\* the conversion leaves it.
LastKey(chunk) ==
    LET keys == {c.key : c \in chunk} \ {None}
    IN  IF keys = {} THEN replication_key_value ELSE SingerKey(Max(keys))

\* MUTANT: STATE is written ahead of the batch file it answers for.
WriteBatch_StateFirst(chunk, state) ==
    IF Cardinality(buffer \cup chunk) >= batch_size
    THEN buffer' = {} /\ pipe' = pipe \o << state, Batch(buffer \cup chunk) >>
    ELSE buffer' = buffer \cup chunk /\ UNCHANGED pipe

\* MUTANT: a batch file is published when it is more than full.
WriteBatch_Late(chunk, state) ==
    IF Cardinality(buffer \cup chunk) > batch_size
    THEN buffer' = {} /\ pipe' = pipe \o << Batch(buffer \cup chunk), state >>
    ELSE buffer' = buffer \cup chunk /\ UNCHANGED pipe

\* ArrowBatchWriter.write: the buffer is published once it is full, and the
\* caller's STATE follows if it was.
WriteBatch(chunk, state) ==
    IF Cardinality(buffer \cup chunk) >= batch_size
    THEN buffer' = {} /\ pipe' = pipe \o << Batch(buffer \cup chunk), state >>
    ELSE buffer' = buffer \cup chunk /\ UNCHANGED pipe

\* _sync_table_arrow, one record batch: the write, the bookmark, then STATE.
SyncRecordBatch ==
    /\ syncing
    /\ batch_mode
    /\ \E chunk \in SUBSET cursor :
           /\ chunk # {} /\ IsFront(chunk, cursor)
           /\ cursor' = cursor \ chunk
           /\ replication_key_value' = LastKey(chunk)
           /\ WriteBatch(chunk, State(version, replication_key_value'))
    /\ UNCHANGED <<database, syncing, batch_mode, version, rows_saved, file, target, history>>

\* The end of the query: the partial batch is published, and
\* sync_traditional_stream emits STATE.
FinishSync ==
    /\ syncing
    /\ cursor = {}
    /\ pipe' = pipe \o IfAny(buffer, << Batch(buffer) >>)
                    \o << State(version, replication_key_value) >>
    /\ NoProcess
    /\ UNCHANGED <<database, file, target, history>>

-----------------------------------------------------------------------------
(***************************************************************************)
(* Crashes and the target.                                                 *)
(***************************************************************************)

Crash ==
    /\ crashes < MaxCrashes
    /\ crashes' = crashes + 1
    /\ NoProcess
    /\ UNCHANGED <<database, file, target, seen, raised, clock>>

\* The query or the process fails: no STATE is emitted on the way out.
SyncFails == syncing /\ Crash /\ UNCHANGED pipe

\* What the target had not handled is lost with the pipeline.
PipelineCrash == pipe # << >> /\ Crash /\ pipe' = << >>

\* The target stores rows by primary key, replaces the state file at a STATE,
\* and discards the rows of other versions at an activation (those of a BATCH
\* file have none and stay).
TargetHandles ==
    /\ pipe # << >>
    /\ pipe' = Tail(pipe)
    /\ LET m == Head(pipe)
           Arrived(r) == {c.write : c \in {d \in m.rows : d.row = r}}
       IN  CASE m.type = "STATE" ->
                    file' = [version |-> m.version, key |-> m.key] /\ UNCHANGED target
             [] m.type \in {"RECORD", "BATCH"} ->
                    /\ target' = [r \in Rows |->
                           IF Arrived(r) = {} THEN target[r]
                           ELSE [write |-> Max(Arrived(r)), version |-> m.version]]
                    /\ UNCHANGED file
             [] m.type = "ACTIVATE_VERSION" ->
                    /\ target' = [r \in Rows |->
                           IF target[r].version \in {None, m.version} THEN target[r]
                           ELSE [write |-> None, version |-> None]]
                    /\ UNCHANGED file
    /\ UNCHANGED <<database, process, history>>

-----------------------------------------------------------------------------
Init ==
    /\ table = [r \in Rows |-> [key |-> None, write |-> None]]
    /\ writes = 0
    /\ late = {}
    /\ syncing = FALSE
    /\ batch_mode = FALSE
    /\ version = None
    /\ replication_key_value = None
    /\ cursor = {}
    /\ buffer = {}
    /\ rows_saved = 0
    /\ pipe = << >>
    /\ file = [version |-> None, key |-> None]
    /\ target = [r \in Rows |-> [write |-> None, version |-> None]]
    /\ seen = None
    /\ raised = FALSE
    /\ clock = 0
    /\ crashes = 0

Next ==
    \/ Write
    \/ StartSync
    \/ SyncRecord
    \/ SyncRecordBatch
    \/ FinishSync
    \/ SyncFails
    \/ PipelineCrash
    \/ TargetHandles

Spec == Init /\ [][Next]_vars
-----------------------------------------------------------------------------
(***************************************************************************)
(* Properties.                                                             *)
(***************************************************************************)

MessageType ==
    [type : {"STATE"}, version : Nat, key : Keys \cup {None}]
    \cup [type : {"RECORD", "BATCH"}, rows : SUBSET RowVersion, version : Nat]
    \cup [type : {"ACTIVATE_VERSION"}, version : Nat]

TypeOK ==
    /\ table \in [Rows -> [key : Keys \cup {None}, write : 0 .. writes]]
    /\ writes \in 0 .. MaxWrites
    /\ syncing \in BOOLEAN /\ batch_mode \in BOOLEAN
    /\ version \in 0 .. clock
    /\ replication_key_value \in 0 .. seen
    /\ cursor \subseteq RowVersion
    /\ buffer \subseteq RowVersion /\ Cardinality(buffer) < batch_size
    /\ rows_saved \in 0 .. STATE_UPDATE_PERIOD - 1
    /\ \A i \in DOMAIN pipe : pipe[i] \in MessageType
    /\ file \in [version : 0 .. clock, key : 0 .. seen]
    /\ target \in [Rows -> [write : 0 .. writes, version : Nat]]
    /\ seen \in Keys \cup {None}
    /\ late \subseteq Rows /\ raised \in BOOLEAN
    /\ clock \in 0 .. 1 + MaxCrashes
    /\ crashes \in 0 .. MaxCrashes

UpToDate(r) == target[r].write = table[r].write

OnItsWay(r, messages) ==
    \E j \in DOMAIN messages : /\ messages[j].type \in {"RECORD", "BATCH"}
                               /\ \E c \in messages[j].rows : /\ c.row = r
                                                              /\ c.write = table[r].write

\* Rows the method answers for: their key is not NULL, and it was not below
\* the keys already read when the row became visible.
Punctual(r) == table[r].key # None /\ r \notin late

NothingSkipped(bookmark, messages) ==
    \A r \in Rows : Punctual(r) /\ table[r].key < bookmark => UpToDate(r) \/ OnItsWay(r, messages)

\* The key bookmark never skips a row: when it is in the state file, or on its
\* way there, every row that appeared in key order and whose key is below it is
\* in the target as it is in the table, or before it on the way (sync_table,
\* _sync_table_arrow: write before bookmarking; the inclusive comparison).
\* This ends with the first key that is bookmarked as a higher one, such as a
\* timestamp BC or -infinity: until the rows after it have come, the bookmark
\* is ahead of them, and if the run is cut short, by a failure or by its limit,
\* they are skipped for good.
NoGaps ==
    ~raised =>
        /\ NothingSkipped(file.key, << >>)
        /\ \A i \in DOMAIN pipe :
               pipe[i].type = "STATE" => NothingSkipped(pipe[i].key, SubSeq(pipe, 1, i - 1))

\* Keys that are bookmarked as lower ones, and another key in between: the time
\* 24:00:00, Infinity and NaN.
Lowered(key) == \E k \in Keys : SingerKey(key) < SingerKey(k) /\ SingerKey(k) <= key
Fallbacks    == {SingerKey(key) : key \in {k \in Keys : Lowered(k)}}

\* The key bookmark never goes back, neither the run's nor the committed one,
\* whenever a run fails, but for keys whose conversion does not keep their
\* order: it falls back only when a record with a lowered key has been written,
\* only to what that key is converted to, and to None ("a NULL key never
\* poisons the bookmark") only in BATCH mode, as RECORD mode passes over it.
\* The next run then extracts again what is beyond.  A raised key, as above,
\* ends this too.
BookmarkOnlyAdvances ==
    [][~raised =>
           /\ file'.key >= file.key \/ file'.key \in Fallbacks
           /\ replication_key_value' < replication_key_value /\ syncing' =>
                  \E c \in cursor \ cursor' :
                      /\ c.key # None /\ Lowered(c.key)
                      /\ replication_key_value' = SingerKey(c.key)
                      /\ replication_key_value' = None => batch_mode]_vars

HandlesActivation ==
    pipe # << >> /\ pipe' = Tail(pipe) /\ Head(pipe).type = "ACTIVATE_VERSION"

\* Activating the version at the head of every run never discards a row
\* ("incremental never truncates the target").
ActivationDiscardsNothing == [][HandlesActivation => UNCHANGED target]_vars

\* INCREMENTAL replication is a feed by key.  Besides what the properties above
\* say, the target never goes back to an older state of a row: what a failed
\* run had on its way, what the next one reads again, and what lies in a batch
\* file arrive in the order in which the table had it (sync_table,
\* _sync_table_arrow; one run after the other).
StoredWrites == [r \in Rows |-> target[r].write]

Feed == INSTANCE KeyedFeed WITH
            fallbacks <- Fallbacks, source <- table, target <- StoredWrites,
            reach <- seen, missed <- late, bookmark <- file.key, astray <- raised

ImplementsKeyedFeed == Feed!Spec
=============================================================================
