--------------------------- MODULE FullTableCopy ---------------------------
(***************************************************************************)
(* The copy of one table, FULL_TABLE or the first phase of LOG_BASED       *)
(* (src/tap_postgres/full_table.py), with the table changing under it, the *)
(* tap and the pipeline crashing, and the copy resumed from the xmin       *)
(* watermark by a later run.  RECORD mode writes rows one by one; BATCH    *)
(* mode buffers them in an ArrowBatchWriter (batch.py).                    *)
(*                                                                         *)
(* A row is its key and the transaction id that wrote it (xmin); what else *)
(* it holds plays no part.  0 is None: no version, no watermark, no row.   *)
(***************************************************************************)
EXTENDS Integers, Sequences, FiniteSets

CONSTANTS
    Rows,                 \* the table's keys
    Modes,                \* the values batch_mode may have: batch_config set, or not
    batch_size,           \* rows that fill a batch file
    STATE_UPDATE_PERIOD,  \* rows between STATE messages of RECORD mode
    FirstXid,             \* the first transaction id handed out
    MaxXid,               \* bound: the last one
    MaxVersions,          \* bound: copies started afresh
    MaxCrashes            \* bound

ASSUME RowsAssumption == Rows # {} /\ IsFiniteSet(Rows)
ASSUME ModesAssumption == Modes \subseteq BOOLEAN
ASSUME SizesAssumption == {batch_size, STATE_UPDATE_PERIOD, FirstXid} \subseteq Nat \ {0}
ASSUME CopyBoundsAssumption == MaxXid \in FirstXid .. 99 /\ {MaxVersions, MaxCrashes} \subseteq Nat

VARIABLES
    \* The database.
    table,     \* the xmin of each row that is there
    nextXid,
    open,      \* transactions that have their id and have not committed yet
    \* The tap process.
    copying,
    batch_mode, \* BATCH messages instead of RECORDs
    version,   \* the stream's version bookmark
    xmin,      \* the stream's xmin bookmark
    cursor,    \* rows of the query still to come
    buffer,    \* rows in the ArrowBatchWriter
    rows_saved, \* RECORDs written, modulo STATE_UPDATE_PERIOD
    \* Downstream.
    pipe,      \* messages written and not yet handled by the target
    file,      \* the version and xmin bookmarks of the --state file
    target,    \* each row as the target has it: its xmin and its version
    \* History.
    base,      \* rows the version's first query saw that no query since saw changed
    clock,     \* versions handed out
    crashes

database   == <<table, nextXid, open>>
process    == <<copying, batch_mode, version, xmin, cursor, buffer, rows_saved>>
downstream == <<pipe, file, target>>
vars       == <<database, process, downstream, base, clock, crashes>>

None == 0
Xids == FirstXid .. MaxXid

\* A row a query returned, or no row.
RowVersion == [row : Rows, xid : Xids]

-----------------------------------------------------------------------------
(***************************************************************************)
(* The database.  A transaction gets its id when it first writes and its   *)
(* rows become visible when it commits, in whatever order that happens.    *)
(***************************************************************************)

BeginTransaction ==
    /\ nextXid <= MaxXid
    /\ nextXid' = nextXid + 1
    /\ open' = open \cup {nextXid}
    /\ UNCHANGED <<table, process, downstream, base, clock, crashes>>

\* One row per transaction, or two with the same xmin.
CommitTransaction ==
    /\ \E x \in open : \E changed \in SUBSET Rows :
           /\ Cardinality(changed) \in 1 .. 2
           /\ table' = [r \in Rows |-> IF r \in changed THEN x ELSE table[r]]
           /\ open' = open \ {x}
    /\ UNCHANGED <<nextXid, process, downstream, base, clock, crashes>>

-----------------------------------------------------------------------------
(***************************************************************************)
(* The query (sqlgen.full_table_sql).  It orders by xmin::text, so as      *)
(* text, and a resuming run restricts by age(xmin), so by number.          *)
(***************************************************************************)

\* Comparison of the decimal forms of two ids of at most two digits.
TextBefore(x, y) ==
    LET first(n) == IF n < 10 THEN n ELSE n \div 10
    IN  \/ first(x) < first(y)
        \/ first(x) = first(y) /\ x < y

\* MUTANT: the resumed query leaves out the rows of the watermark itself.
QueryRows_Strict(watermark) ==
    {[row |-> r, xid |-> table[r]] : r \in {q \in Rows : table[q] # None /\ table[q] > watermark}}

QueryRows(watermark) ==
    {[row |-> r, xid |-> table[r]] : r \in {q \in Rows : table[q] # None /\ table[q] >= watermark}}

\* The rows that come out first, all of one xmin; ties come in any order.
Foremost(rows) == {c \in rows : \A d \in rows : ~TextBefore(d.xid, c.xid)}

\* One way the server may cut a record batch from the front of the cursor.
IsFront(chunk, rows) ==
    chunk # {} /\ \A c \in chunk, d \in rows \ chunk : ~TextBefore(d.xid, c.xid)

-----------------------------------------------------------------------------
(***************************************************************************)
(* The copy.                                                               *)
(***************************************************************************)

State(v, x)      == [type |-> "STATE", version |-> v, xmin |-> x]
Record(rows, v)  == [type |-> "RECORD", rows |-> rows, version |-> v]
\* A BATCH message names a file and has no version.
Batch(rows)      == [type |-> "BATCH", rows |-> rows, version |-> None]
\* covers is history: what the copy that ends with it is answerable for.
Activate(v, rows) == [type |-> "ACTIVATE_VERSION", version |-> v, covers |-> rows]

IfAny(rows, messages) == IF rows = {} THEN << >> ELSE messages

NoProcess ==
    /\ copying' = FALSE
    /\ batch_mode' = FALSE
    /\ version' = None
    /\ xmin' = None
    /\ cursor' = {}
    /\ buffer' = {}
    /\ rows_saved' = 0

\* The rows of an earlier query of this version that are still the same.
Unchanged(rows) == {c \in rows : table[c.row] = c.xid}

\* MUTANT: every run takes a version of its own, an interrupted copy or not.
PickVersion_AlwaysFresh(bookmark) == clock + 1

\* prepare: an xmin bookmark means the last copy was interrupted.
PickVersion(bookmark) == IF bookmark.xmin # None THEN bookmark.version ELSE clock + 1

\* prepare and the head of sync_table, up to the query's snapshot.
StartCopy ==
    /\ ~copying
    /\ pipe = << >>
    /\ file.xmin # None \/ clock < MaxVersions
    /\ copying' = TRUE
    /\ batch_mode' \in Modes
    /\ version' = PickVersion(file)
    /\ clock' = IF version' > clock THEN version' ELSE clock
    /\ xmin' = file.xmin
    /\ cursor' = QueryRows(file.xmin)
    /\ base' = IF file.xmin # None THEN Unchanged(base) ELSE QueryRows(None)
    /\ pipe' = << State(version', file.xmin) >>
                   \o IF file.version = None THEN << Activate(version', {}) >> ELSE << >>
    /\ UNCHANGED <<database, buffer, rows_saved, file, target, crashes>>

\* MUTANT: the bookmark is the highest xmin fetched, not the row's own.
CopyRecord_PageBookmark ==
    /\ copying
    /\ ~batch_mode
    /\ \E c \in Foremost(cursor), d \in cursor :
           /\ \A e \in cursor : e.xid <= d.xid
           /\ cursor' = cursor \ {c}
           /\ xmin' = d.xid
           /\ rows_saved' = (rows_saved + 1) % STATE_UPDATE_PERIOD
           /\ pipe' = pipe \o << Record({c}, version), State(version, d.xid) >>
    /\ UNCHANGED <<database, copying, batch_mode, version, buffer, file, target, base, clock, crashes>>

\* _sync_table_records, one row: the RECORD, then the bookmark, then STATE.
CopyRecord ==
    /\ copying
    /\ ~batch_mode
    /\ \E c \in Foremost(cursor) :
           /\ cursor' = cursor \ {c}
           /\ xmin' = c.xid
           /\ rows_saved' = (rows_saved + 1) % STATE_UPDATE_PERIOD
           /\ pipe' = pipe \o << Record({c}, version) >>
                  \o IF rows_saved' = 0
                     THEN << State(version, c.xid) >> ELSE << >>
    /\ UNCHANGED <<database, copying, batch_mode, version, buffer, file, target, base, clock, crashes>>

\* MUTANT: a batch file is published when it is more than full.
WriteBatch_Late(chunk, state) ==
    IF Cardinality(buffer \cup chunk) > batch_size
    THEN buffer' = {} /\ pipe' = pipe \o << Batch(buffer \cup chunk), state >>
    ELSE buffer' = buffer \cup chunk /\ UNCHANGED pipe

\* MUTANT: STATE goes out ahead of the batch file it answers for.
WriteBatch_StateFirst(chunk, state) ==
    IF Cardinality(buffer \cup chunk) >= batch_size
    THEN buffer' = {} /\ pipe' = pipe \o << state, Batch(buffer \cup chunk) >>
    ELSE buffer' = buffer \cup chunk /\ UNCHANGED pipe

\* ArrowBatchWriter.write: the buffer is published once it is full, and the
\* caller's STATE follows if it was.
WriteBatch(chunk, state) ==
    IF Cardinality(buffer \cup chunk) >= batch_size
    THEN buffer' = {} /\ pipe' = pipe \o << Batch(buffer \cup chunk), state >>
    ELSE buffer' = buffer \cup chunk /\ UNCHANGED pipe

\* _sync_table_arrow, one record batch: the write, the bookmark, then STATE.
CopyRecordBatch ==
    /\ copying
    /\ batch_mode
    /\ \E chunk \in SUBSET cursor :
           /\ IsFront(chunk, cursor)
           /\ cursor' = cursor \ chunk
           /\ \E c \in chunk : xmin' = c.xid /\ \A d \in chunk : ~TextBefore(c.xid, d.xid)
           /\ WriteBatch(chunk, State(version, xmin'))
    /\ UNCHANGED <<database, copying, batch_mode, version, rows_saved, file, target, base, clock, crashes>>

\* MUTANT: the watermark stays behind when the copy is complete.
FinishCopy_WatermarkKept ==
    /\ copying
    /\ cursor = {}
    /\ pipe' = pipe \o IfAny(buffer, << Batch(buffer) >>)
                    \o << Activate(version, base), State(version, xmin) >>
    /\ NoProcess
    /\ UNCHANGED <<database, file, target, base, clock, crashes>>

\* The end of the query: the partial batch is published, the watermark
\* cleared, the version activated, and sync_traditional_stream emits STATE.
FinishCopy ==
    /\ copying
    /\ cursor = {}
    /\ pipe' = pipe \o IfAny(buffer, << Batch(buffer) >>)
                    \o << Activate(version, base), State(version, None) >>
    /\ NoProcess
    /\ UNCHANGED <<database, file, target, base, clock, crashes>>

-----------------------------------------------------------------------------
(***************************************************************************)
(* Crashes and the target.                                                 *)
(***************************************************************************)

Crash ==
    /\ crashes < MaxCrashes
    /\ crashes' = crashes + 1
    /\ NoProcess
    /\ UNCHANGED <<database, file, target, base, clock>>

\* The query or the process fails: no STATE is emitted on the way out.
CopyFails == copying /\ Crash /\ UNCHANGED pipe

\* What the target had not handled is lost with the pipeline.
PipelineCrash == pipe # << >> /\ Crash /\ pipe' = << >>

\* The target handles messages in order: rows are stored by key, an
\* activation discards the rows of other versions (those of a BATCH file have
\* none and stay), a STATE is what the next run starts from.
TargetHandles ==
    /\ pipe # << >>
    /\ pipe' = Tail(pipe)
    /\ LET m == Head(pipe)
       IN  CASE m.type = "STATE" ->
                    file' = [version |-> m.version, xmin |-> m.xmin] /\ UNCHANGED target
             [] m.type \in {"RECORD", "BATCH"} ->
                    /\ target' = [r \in Rows |->
                           IF \E c \in m.rows : c.row = r
                           THEN [xid |-> (CHOOSE c \in m.rows : c.row = r).xid,
                                 version |-> m.version]
                           ELSE target[r]]
                    /\ UNCHANGED file
             [] m.type = "ACTIVATE_VERSION" ->
                    /\ target' = [r \in Rows |->
                           IF target[r].version \in {None, m.version} THEN target[r]
                           ELSE [xid |-> None, version |-> None]]
                    /\ UNCHANGED file
    /\ UNCHANGED <<database, process, base, clock, crashes>>

-----------------------------------------------------------------------------
Init ==
    /\ table = [r \in Rows |-> None]
    /\ nextXid = FirstXid
    /\ open = {}
    /\ copying = FALSE
    /\ batch_mode = FALSE
    /\ version = None
    /\ xmin = None
    /\ cursor = {}
    /\ buffer = {}
    /\ rows_saved = 0
    /\ pipe = << >>
    /\ file = [version |-> None, xmin |-> None]
    /\ target = [r \in Rows |-> [xid |-> None, version |-> None]]
    /\ base = {}
    /\ clock = 0
    /\ crashes = 0

Next ==
    \/ BeginTransaction
    \/ CommitTransaction
    \/ StartCopy
    \/ CopyRecord
    \/ CopyRecordBatch
    \/ FinishCopy
    \/ CopyFails
    \/ PipelineCrash
    \/ TargetHandles

Spec == Init /\ [][Next]_vars

\* Runs are scheduled, a query that returned rows is read to its end and the
\* target handles what it is sent.
Fairness ==
    /\ WF_vars(StartCopy)
    /\ WF_vars(CopyRecord)
    /\ WF_vars(CopyRecordBatch)
    /\ WF_vars(FinishCopy)
    /\ WF_vars(TargetHandles)

FairSpec == Spec /\ Fairness
-----------------------------------------------------------------------------
(***************************************************************************)
(* Properties.                                                             *)
(***************************************************************************)

MessageType ==
    [type : {"STATE"}, version : Nat, xmin : Nat]
    \cup [type : {"RECORD", "BATCH"}, rows : SUBSET RowVersion, version : Nat]
    \cup [type : {"ACTIVATE_VERSION"}, version : Nat, covers : SUBSET RowVersion]

TypeOK ==
    /\ table \in [Rows -> Xids \cup {None}]
    /\ nextXid \in FirstXid .. MaxXid + 1
    /\ open \subseteq FirstXid .. nextXid - 1
    /\ copying \in BOOLEAN /\ batch_mode \in BOOLEAN
    /\ version \in 0 .. clock
    /\ xmin \in Xids \cup {None}
    /\ cursor \subseteq RowVersion
    /\ buffer \subseteq RowVersion /\ Cardinality(buffer) < batch_size
    /\ rows_saved \in 0 .. STATE_UPDATE_PERIOD - 1
    /\ \A k \in DOMAIN pipe : pipe[k] \in MessageType
    /\ file \in [version : 0 .. clock, xmin : Xids \cup {None}]
    /\ target \in [Rows -> [xid : Xids \cup {None}, version : Nat]]
    /\ base \subseteq RowVersion
    /\ clock \in 0 .. MaxVersions
    /\ crashes \in 0 .. MaxCrashes

\* The target has this row as the copy of version v read it.
InTarget(c, v) == target[c.row].xid = c.xid /\ target[c.row].version \in {v, None}

OnItsWay(c, v, messages) ==
    \E j \in DOMAIN messages : /\ messages[j].type \in {"RECORD", "BATCH"}
                               /\ c \in messages[j].rows
                               /\ messages[j].version \in {v, None}

Behind(b, messages) ==
    \A c \in base : b.xmin # None /\ c.xid < b.xmin =>
        InTarget(c, b.version) \/ OnItsWay(c, b.version, messages)

\* The resume watermark is never ahead of the rows: when a watermark is in the
\* state file, or on its way there, every row below it that the version's
\* first query saw and nobody changed is in the target, or before it on the
\* way (_sync_table_records, _sync_table_arrow: write before bookmarking).
WatermarkBacked ==
    /\ Behind(file, << >>)
    /\ \A k \in DOMAIN pipe :
           pipe[k].type = "STATE" => Behind(pipe[k], SubSeq(pipe, 1, k - 1))

HandlesActivation ==
    pipe # << >> /\ pipe' = Tail(pipe) /\ Head(pipe).type = "ACTIVATE_VERSION"

\* A version activated at the end of a copy is complete: the target then has
\* every row that was there when the version's first query ran and has not
\* changed since, however often the copy was interrupted (sync_table).
CompleteWhenActivated ==
    [][ HandlesActivation =>
            \A c \in Head(pipe).covers, v \in {Head(pipe).version} : InTarget(c, v)' ]_vars

\* An activation, at the head of a first copy or at the end of any, discards no
\* row that the table still has as the target knew it.
ActivationDiscardsOnlyStale ==
    [][ HandlesActivation =>
            \A r \in Rows : target'[r].xid = None /\ target[r].xid # None
                            => table[r] # target[r].xid ]_vars

BelowWatermark == {c \in base : file.xmin # None /\ c.xid < file.xmin}

\* The whole copy, its crashes, batches and watermarks hidden, is a versioned
\* copy: it is resumed and never begun anew while rows are settled, its
\* watermark goes back only when the version is complete, and a version is
\* activated only then (full_table.py).
Copy == INSTANCE VersionedCopy WITH
    source <- table, current <- clock, due <- base, settled <- BelowWatermark

ImplementsVersionedCopy == Copy!Spec

\* An interrupted copy is at last completed: its watermark is cleared.
CopyCompletes == (file.xmin # None) ~> (file.xmin = None)
=============================================================================
