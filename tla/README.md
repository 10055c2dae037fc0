# tap-postgres in TLA+

`src/tap_postgres` is a Singer tap: a process that extracts the selected tables
of a PostgreSQL database and writes SCHEMA, RECORD, BATCH, ACTIVATE_VERSION and
STATE messages to its standard output. A target reads them, stores the rows,
and hands every STATE back to the pipeline once what precedes it is stored; the
pipeline keeps the last one in a state file, from which the next run starts.

A single run is sequential code. What is hard about it is everything that
happens around its steps: the database keeps changing, PostgreSQL delivers
transactions in commit order whereas positions in the log follow write order,
the target lags behind, any process may die between two messages, operators
edit the catalog between runs, tables change their columns while they are read,
and one replication slot is shared by streams that are in different phases of
their life. This directory models that, checks it with TLC, and proves with
TLAPS what matters most: every safety invariant and action property that a
passing run checks, and the three refinements, for all values of the constants that the
stated assumptions allow.

## Inventory

| component | source | state it keeps | operations | correct when |
|---|---|---|---|---|
| Sync orchestration | `sync.py` | the state object (bookmarks of each stream, `currently_syncing`), the end LSN, the two lists of streams | plan a run, reset bookmarks, sync one stream, drop de-selected streams, start the session | bookmarks never reach a strategy they are not meant for; copy and WAL stream leave no gap between them; a finished copy is not repeated |
| Full-table copy | `full_table.py` | `version`, `xmin` watermark | prepare, copy rows, finish | watermark never ahead of the rows; activated versions are complete; an interrupted copy finishes at last |
| Incremental sync | `incremental.py` | `version`, `replication_key`, `replication_key_value` | validate, prepare, copy rows, finish | no row below the bookmark is missed; the bookmark never goes back, as far as the conversion of keys keeps their order; activation discards nothing |
| Log-based session | `logical.py` | per-stream `lsn`, `committed_lsn`, `flushed_lsn`, `last_processed_lsn`, `last_fully_processed_lsn`, counters | start, consume a message, periodic feedback, four ways to stop, finalize | nothing is lost, the slot never passes what the target has committed, every run ends |
| Queries | `sqlgen.py` | none | build the two queries | the order and the restriction agree, so that a bookmark separates what was read from what was not |
| Arrow batches | `batch.py`, `adbc.py` | buffered record batches | write, flush | a STATE follows the file with the rows it covers |
| Schema drift | `logical.py`, `discovery.py` | the stream's catalog entry, what the last SCHEMA declared | refresh and merge at the start of a run, refresh on an unknown column in mid-session | records fit the schema before them; no selected value is lost; what the operator de-selected stays out |
| Value conversion, WAL value decoding | `conversion.py`, `logical.py`, with `sqlgen.py` and `db.py` | none | what a value becomes on its way through the copy, and through the WAL | both ways give the same record, and one the declared schema admits |
| Discovery | `discovery.py` | the catalog | discover, refresh, merge | declared types fit the values; the operator's metadata survives a refresh |
| Helpers | `stream_utils.py` | none | STATE and SCHEMA messages, selection | |
| Slot lookup, version gate | `logical.py` | none | a query once per run, a table of versions | |
| Connections, configuration, command line | `db.py`, `config.py`, `cli.py` | none | | the session and the end LSN use the primary |

Components interact through the state object, which every strategy updates and
every STATE message copies whole; through the state file, which a run reads at
its start and the session reads again to learn what the target has committed;
and through the slot's `confirmed_flush_lsn`, which outlives runs.

The behaviours that are hard to test are listed in `PROJECT.json` under
`hazards`, each at its line, with the properties that watch it or the reason why
none does.

## Modules

| module | models | uses |
|---|---|---|
| `ResumableFeed` | what log-based replication promises, without slots, sessions or messages: *never lose data the target hasn't stored* | |
| `LogicalSession` | `sync_logical_streams` and `LogicalSession`, the walsender, the pipeline | implements `ResumableFeed` |
| `LogicalSessionProofs` | the inductive invariant of `LogicalSession` and the theorems | extends `LogicalSession` |
| `VersionedCopy` | what a full-table copy promises, without queries, messages or watermarks: begun afresh only with nothing settled, sealed only when complete | |
| `FullTableCopy` | `full_table.py` with `full_table_sql` and `ArrowBatchWriter` | implements `VersionedCopy` |
| `FullTableCopyProofs` | its inductive invariant and theorems | extends `FullTableCopy` |
| `VersionedCopyProofs` | the refinement, proved | extends `FullTableCopyProofs` |
| `KeyedFeed` | what INCREMENTAL replication promises, without queries, batches or messages: the bookmark moves past what the target has, until a key leads it astray, the target only to newer states of a row | |
| `IncrementalSync` | `incremental.py` with `incremental_sql` and `ArrowBatchWriter` | implements `KeyedFeed` |
| `IncrementalSyncProofs` | its inductive invariant and theorems | extends `IncrementalSync` |
| `SyncRuns` | `do_sync`: the strategies as starts, STATE messages and ends, composed with a session reduced to positions | |
| `SyncRunsProofs` | its inductive invariant and theorems | extends `SyncRuns` |
| `DovetailProofs` | the hand-over from copy to session, proved | extends `SyncRunsProofs` |
| `DataTypes` | the types and kinds of values, as discovery, the conversion of rows and the decoding of changes see them; operators only | |
| `ValuePaths` | one value on its two ways to the target | extends `DataTypes` |
| `ValuePathsProofs` | the two ways compared, class of types by class of types | extends `ValuePaths` |
| `SchemaDrift` | a LOG_BASED stream whose table changes shape: refresh, merge, selection, drift detection, over copies that end, break off or are resumed, sessions and failed runs | extends `DataTypes` |
| `SchemaDriftProofs` | its inductive invariant and theorems | extends `SchemaDrift` |
| `MCLogicalSession`, `MCFullTableCopy`, `MCIncrementalSync`, `MCSyncRuns`, `MCSchemaDrift` | instances for TLC | |

Each `map` entry of `PROJECT.json` names the lines a definition stands for.
Operators named `X_Something` under a `MUTANT` comment are not part of a
specification: they are wrong variants of `X`, and each property of a passing
run is violated when one of them takes the place of the definition it varies.

### How state and actions correspond to the code

**None.** All state machines but `ValuePaths` write `None` as 0. For LSNs that is also what
`session.committed_lsn or 0` makes of it, and 0/0 is no WAL position; keys,
versions and transaction ids start at 1.

**LogicalSession.** `wal` is the sequence of changes in the order in which the
slot sends them: by commit. Each has the LSN of its own record, which is what
`message.data_start` is, and the LSN of its transaction's commit, which decides
what a restarted walsender skips (a transaction that committed before the later
of the requested position and `confirmed`). Within a transaction LSNs rise or
repeat (one COPY record), between transactions they interleave. `Consume` is
one turn of the loop that got a message: the first-message flush, then
`consume_message` with `record_processed`, whose periodic STATE is part of the
step. `Feedback` is the turn in which ten seconds have passed. `StopBeyondEnd`,
`StopOnKeepalive`, `StopWhenIdle` and `StopEarly` are the four `break`s and the
exceptions between messages, `ConsumeFails` an exception inside
`consume_message`; all of them run `finalize`, as the `finally` does.
`TapCrash` (kill -9) does not. `pipe` holds the STATE messages on their way,
each with all the records written before it in the run. `TargetCommit` is the
target storing records and the state file being rewritten; `PipelineCrash` may
fall between the two. An unparseable payload and a table that is not a session
stream's are both a change of `NoStream`: they count as processed and have no
record.

**FullTableCopy.** A row is its key and the id of the transaction that wrote it.
Ids are handed out by `BeginTransaction` and become visible in any order by
`CommitTransaction`. `StartCopy` is `prepare` and the head of `sync_table` up to
the query, whose result is fixed in `cursor` (one statement, one snapshot).
`CopyRecord` is one turn of the loop in RECORD mode; `CopyRecordBatch` is one
record batch in BATCH mode, cut anywhere in the cursor's order. `FinishCopy` is
the last flush, the cleared watermark, ACTIVATE_VERSION and the STATE that
`sync_traditional_stream` emits. `TextBefore` is the order of `xmin::text` and
`QueryRows` the restriction by age, which is numeric. The target replaces rows
by key, and on ACTIVATE_VERSION drops those of another version; rows from BATCH
messages have no version and stay. The history variable `base` is the set of
rows of the version's first snapshot that every later query of the version found
unchanged. As a `VersionedCopy`, the source is `table`, the version is the last one
handed out, what is due is `base`, and what is settled are the rows of `base` whose
id is below the watermark in the state file (`BelowWatermark`): these a resumed
query need not return. `StartCopy` is a `Begin` or a `Resume`, a STATE in the state file a
`Settle`, the ACTIVATE_VERSION at the end a `Seal`; at the head of a first copy it finds
nothing of another version and is a stutter.

**IncrementalSync.** The same shape with a replication key. `Results` is the
query with its filter, order (NULLs last) and LIMIT, ties cut arbitrarily. A key
is its place in the order of its type, and the constant `converted` says for each
key what it is bookmarked as. That need not be the key itself: the select list
clamps timestamps before year 1, beyond 9999 or infinite, of either sign, to the
end of 9999, whereas filter and order use the column (`sqlgen.py:53` and `119`);
the time 24:00:00 becomes 00:00:00, times lose their fraction and their zone;
Infinity and NaN become None (`SingerKey`). So a key may be *raised*, and the
bookmark is then ahead of rows that are still to come, or *lowered*
(`Lowered`), and the bookmark falls back to one of `Fallbacks`. The history
variable `raised` says that a query has returned a key of the first kind: the
properties of the bookmark hold until then, those of the target always. `late`
holds the rows that became visible with a key below the highest one already
read; the method does not answer for these. As a `KeyedFeed`, the source is
`table`, the target its writes without their versions, the reach is `seen`, what
is missed is `late`, and `astray` is `raised`; a query is a `Look`, a RECORD or
BATCH at the target a `Store`, a STATE there an `Advance`, or a `Stray` once a key
was raised.

**SyncRuns.** `StartRun` is `do_sync` up to the traditional streams: the end
LSN, the resets, the classification. `StartStream`, `CopySome` and
`FinishStream` are the beginning of a strategy up to its query with the STATE
it emits, its progress, and its end; `StartSession`, `SessionReads`, `Feedback`
and `FinishSession` the session of the pure-logical streams, where every change
is a transaction of its own and its LSN is its index in `log`. `ChangeCatalog`
is the operator, between runs. `copied` is a history field of a bookmark: the
copy that belongs to its `lsn` is complete. A STATE carries the set of changes
written before it. `NothingForgotten` leaves out streams that a failure met
while they were not LOG_BASED in the catalog (`exposed`): their bookmarks are
dropped or wiped in memory only, and if the run that did so fails after it has
flushed the slot, a stream that is selected again starts from the old bookmark.

**DataTypes, ValuePaths.** A column is its `data_type`, whether it is an array,
whether it is of the key, and for bits the length. A value is a depth of nesting
and the kind of its scalar: the code tells apart a NaN, an infinity, a date
before Christ or beyond 9999, the hour 24, and passes on all others of a type.
`ScalarSchema`, `ItemSchema` and `Inclusion` are what discovery declares,
`Clamped`, `Driver` and `CopyValue` the way through `select_expression`,
psycopg2 with `register_type_adapters` and the conversion, `DecodeValue` the way
through `reconstruct_array` and the rules for text. `Payload` is what these
rules are given: wal2json writes infinite numbers and NaN as null, and
`json.loads` makes a binary float of a number with a fraction, so that a numeric
with more digits than a float keeps (`long fraction`) is rounded before it becomes
a Decimal again. Arrays nest to `MaxDepth`.
`ValuePaths` chooses any column and value and takes both ways, in either order.
`Misfit` and `Divergent` name the kinds for which the three pieces of code
disagree, and the properties say that there are no others: the equality in
`PathsAgree` holds in both directions.

**SchemaDrift.** A change carries the columns its table had, and nothing else.
`Change` and `AlterTable` are the server's, at any time. `StartRun` takes the
end LSN, `Refresh` is the refresh of all streams: two steps, because the table
may change in between. `StartCopy`, `CopyRows` and `FinishCopy` are the copy.
The lsn is bookmarked and emitted in a STATE before the query is run
(`sync.py:121`, `full_table.py:36`), and the first STATE with an xmin comes after
1000 rows. So a copy that breaks off, because its query names a column that has
gone (`CopyFails`) or for any other reason (`CopyStops`), leaves behind what
`BreakOff` says, depending on which STATE was committed last: nothing, the lsn
alone, or lsn and xmin. With nothing the next run begins the copy anew, with an
xmin it resumes it (`ToCopy` leaves out the rows in `copied`), and with the lsn
alone it takes the stream for copied and streams. The history variable `skipped`
is that lsn: what was to be copied before it is not copied by any run.
`StartSession`, `Consume` and `EndSession` are later runs; `Consume` has the
detection of unknown columns, the refresh with its merge and SCHEMA message, the
RECORD and the bookmark in one step, as `consume_message` has. `RunStops` is the
kill, the exception or the time limit outside a copy, for a session with or
without `finalize`. The history
variable `absent` has the columns the table lacked at a moment of the run: a
refresh at such a moment forgets that the operator had de-selected them.

## Runs

Properties of one kind of question share a run. Bounds are CONSTANTS whose
comment says `bound`.

| run | question | bounds, and why they are enough |
|---|---|---|
| `SessionSafety` | can a change be lost, a STATE run ahead, the slot pass the target? | three changes in transactions of at most two rows and six positions: enough for a transaction that starts first and commits last, for equal LSNs, and for a foreign one between them; two streams with different bookmarks; a STATE at every advance; one interruption of any kind; any number of runs. `break_at_end` is FALSE, which only allows more. |
| `SessionLiveness` | does every run end, is every change stored at last? | one stream, a STATE at every second advance, `break_at_end` TRUE, and the transactions of `SessionSafety` on five positions; no symmetry, which liveness checking does not allow. |
| `Copy` | is the watermark backed, is an activated version complete, is all this a `VersionedCopy`, does a copy finish? | three rows, three transaction ids of equal length, two modes that may change between runs, one crash; a batch file of three rows fills from one record batch or several, RECORD mode emits STATE after two rows, in the middle of the table. |
| `CopyTextOrder` | the same with ids 8, 9, 10 (no) | |
| `Incremental` | does the bookmark skip a row or go back other than by a raised or lowered key, does an activation discard one, does the target ever go back, is all this a `KeyedFeed`? | three rows; five keys, one that is raised, two that are kept, one that is lowered and one that becomes None (`MCConverted`); NULL keys, ties of two, three writes, two crashes, limits none and two, both modes: a bookmark, a tie at it, a cut by the limit, and a second interruption before the first is made good. |
| `Sync` | are left-over bookmarks usable, do copy and WAL dovetail, is a copy made once? | two streams, all methods, two keys, two catalog changes (away and back), one failure at any point, two changes, two STATEs in the pipe. |
| `Drift` | do records fit their schema, is every selected value delivered, but for what a lone lsn skips? does drift ever stop a run for good? | three columns: a key, one that changes between two types, one of an unsupported type; tables that at first have one of the latter two (`MCFirstShapes`); two changes and two ALTER TABLEs, which is a change before, between and after them; one stopped run besides those that a dropped column fails; any number of runs. |
| `DriftDatabases` | does a stream always come from the database its catalog names? (no) | two databases, no failure |
| `Values` | do schema, copy and WAL agree on every value? | all types of the code and of its `ELSE` branches, arrays to depth 3 (`MaxDepth`): the code treats two levels by hand and others by recursion or not at all. |
| `SyncSkippedCopy` | does a stream stream only after its copy? (no) | one failure |
| `SyncSharedSlot` | is nothing forgotten when sessions read past the end LSN? (no) | one catalog change, no failure |
| `SyncReplica` | is nothing forgotten when copies read a lagging replica? (no) | no failure |

`Sync`, `Copy`, `Drift`, `Values` and the other runs on their modules set
`CHECK_DEADLOCK FALSE`: with no stream selected a run is over at once, with
bounded ids, versions and changes the modelled world comes to rest, and a value
that has gone both ways has nowhere else to go.

### What the violated runs show

Each checks one statement of the documentation or of a comment that the code
does not keep; `findings` in `PROJECT.json` quotes it.

* `SyncSkippedCopy`: the first STATE of an initial copy has `lsn` and `version`
  and no `xmin`. If the run fails within its first 1000 rows, the next one takes
  the stream for copied and streams from the WAL. Rows that were in the table
  before are never extracted.
* `SyncSharedSlot`: with `break_at_end_lsn` off, the session of the older
  streams reads, stores and flushes past the `lsn` of a stream that was copied
  in the same run. Changes of that stream between its snapshot and the new slot
  position are lost.
* `SyncReplica`: with `use_secondary` the copy may read a replica that has not
  replayed the end LSN yet.
* `CopyTextOrder`: when ids gain a digit, the text order and the numeric
  restriction part; a resumed copy skips rows and still activates its version.
* `DriftDatabases`: the refresh of all streams opens the configured database. If
  that has a table of the same schema and name, its `database-name` replaces
  the one of the catalog, and the wrong table is synced from then on.

Limits of the code that the passing runs state as such:

* A replication key that is bookmarked as a higher one (`raised`): a timestamp BC or
  -infinity comes first in the order of the query and is bookmarked as the end of
  year 9999; a time with a zone that is still on the day before in UTC becomes a
  late one. If the run is then cut short, by a failure or by its limit, the next
  run asks for keys beyond that year and skips all rows in between. `NoGaps`,
  `BookmarkOnlyAdvances` and the moves of the bookmark in `KeyedFeed` are stated
  until such a key is read. That the restriction is needed, TLC finds at once
  when `~raised` is dropped from `NoGaps`: a STATE after the first batch file is
  enough.
* A key that is bookmarked as a lower one than the keys before it, the time
  24:00:00 or a time with a zone that is past midnight in UTC, takes the bookmark back to
  what it is converted to (`Fallbacks`). The next run extracts the rows from there
  again.
* In BATCH mode a float key of Infinity or NaN that ends a record batch nulls the
  bookmark, where RECORD mode passes over it (the last line of
  `BookmarkOnlyAdvances`). The next run reads everything again.
* A `limit` not above the number of rows that share a key stops INCREMENTAL
  progress for good: every run reads the same rows. `NoGaps` holds, since the
  bookmark does not move, and no property of this project says that the feed
  gets on. It would fail.
* A copy that breaks off after its first STATE and before one with an xmin is not
  taken up again (`skipped` in `EveryValueDelivered` and `EveryChangeDelivered`).
  This is what `SyncSkippedCopy` shows, and a column that is dropped between the
  refresh and the copy's query is enough to cause it.
* `finalize` clamps only if something was fully processed: a run that got a
  single LSN, of a transaction that began before the committed LSN and committed
  after it, leaves a bookmark below the committed one. Changes are repeated,
  none is lost (`NoLoss`).
* The kinds of values in `Misfit` and `Divergent` of `ValuePaths`: JSON scalars
  and infinite numerics do not fit the declared schema, a key of NaN becomes a
  null; arrays of three levels, arrays of hour 24 or of unmapped types, and dates
  and arrays of timestamps out of range come out differently by copy and by WAL,
  or fail one of them; so do numerics that are infinite, null in the WAL, or have
  a fraction and more digits than a float keeps.
* A column that is dropped and added again has lost its de-selection if a
  refresh fell in between (`absent`).

Three of these contradict what the documentation says, in ways that the properties
name as exceptions, without a run of their own:

* SPEC.md:467 and 484 promise at-least-once delivery for INCREMENTAL, by an
  inclusive bound, and SPEC.md:456 that the bookmark "equals the last emitted key
  value". With a raised key the bookmark does equal the emitted value, and for
  that reason is not the key by which the next query filters. SPEC.md:497
  discusses the direction of the clamp for the values of a column, not for a
  column that is the replication key.
* SPEC.md:466 says "numeric values must never pass through binary floats", and
  README.md:160 of the repository says that they never do; SPEC.md:353 asks the
  decoding for a "decimal-precise value". `consume_message` calls `json.loads`
  without `parse_float=Decimal` (`logical.py:402`), and what
  `selected_value_to_singer_value` makes into a Decimal is the float.
  `test_decimal_full_precision` (tests/unit/test_conversion.py:75) covers the copy.
* SPEC.md:294 has a LOG_BASED stream copied once before it is streamed; see
  `SyncSkippedCopy`.

## Fairness

Safety runs assume none. `SessionLiveness` assumes weak fairness of `StartRun`
(runs are scheduled), `Consume` (the loop reads what the server sends), the
regular ends of a session (its loop tests them at every turn) and
`TargetCommit`. Nothing is assumed of the database's clients, of `Feedback`, or
of the interruptions, of which there are finitely many. `Copy` assumes that runs
are scheduled, that a query which returned rows is read to its end, and that the
target handles what it is sent. `Drift` assumes that runs are scheduled and that
a run goes on: the refresh, one of the steps of its copy, the start of its
session, the reading of what the server sends and the session's end. Nothing is
assumed of `AlterTable`, `Change` or `RunStops`.

## Proofs

All theorems hold for every value of the constants that the ASSUMEs of the
module allow. Those say that sets are finite and not empty where the code
iterates over them, that sizes and periods are positive, and that bounds are
numbers; `TypesAssumption` of `SchemaDrift` says more, and so do the hypotheses of
some theorems, each with a run that shows what happens without it.

### LogicalSessionProofs

For every set of streams, every `UPDATE_BOOKMARK_PERIOD`, both settings of
`break_at_end` and all bounds:

| theorem | statement |
|---|---|
| `InductiveInvariant` | `Spec => []IInv` |
| `TypeCorrect` | `Spec => []TypeOK` |
| `NothingLost` | `Spec => []NoLoss` |
| `StatesBacked` | `Spec => []StateIsBacked` |
| `FlushesOnlyCommitted` | `Spec => FlushOnlyCommitted` |
| `SessionImplementsFeed` | `Spec => ImplementsFeed` |

The assumptions are the ASSUMEs of `LogicalSession`: there is a stream,
`NoStream` is none of them, the period is positive, the bounds are numbers. The
model behind them is the one described above: transactions are sent in commit
order, a change precedes its commit record, and the walsender skips exactly what
committed before the start position.

*The argument.* `NoLoss` speaks of the state file and the slot only, and says
nothing about a running session, whose bookmarks become the next state file.
Besides, a bookmark is the LSN of a change while `NoLoss` is about commit
positions, and LSNs interleave. The invariant `IInv` connects the two. Call a
position *backed* by a set of changes when that set has every session change
committed below it and nothing can commit below it any more. `IInv` says that
the slot position and the state file's lowest bookmark are backed by what the
target has stored, each STATE on its way by that and its records, and the
bookmarks of the running session by that and what it has emitted. The last part
is kept by `Consume` because the server sends by commit order: when a change
with LSN *l* has been sent, whatever committed below *l* has been sent before
it, since its own commit is above *l*. This is also why an LSN may be bookmarked
before the next one arrives, and why bookmarks that go back do no harm.
The proof has a lemma for every action (`ConsumeInv`, `FeedbackInv`, ...),
`NextIInv` joins them, and the theorems follow. The refinement needs `IInv` in
both states: a step that grows the log, stores, or flushes is a step of
`ResumableFeed` by backedness, every other step is a stutter.

### FullTableCopyProofs

For any table, batch size and STATE period, any transactions and any crashes, in
both modes:

| theorem | statement |
|---|---|
| `TypeCorrect` | `Spec => []TypeOK` |
| `BackedInvariant` | `Spec => [](TypeInv /\ BackedInv)`, if `Ordered` |
| `WatermarkIsBacked` | `Spec => []WatermarkBacked`, if `Ordered` |
| `ActivatedIsComplete` | `Spec => CompleteWhenActivated`, if `Ordered` |

`Ordered` says that ids are ordered by their text as by their number. It cannot
be dropped: `CopyTextOrder` violates `CompleteWhenActivated` without it. The lemma
`SameLength` gives the case that matters, all ids of the same length. Ids have at
most two digits in the module (`CopyBoundsAssumption`, `TextBefore`); the proofs
use of the text order nothing but `Ordered`.

*The argument.* A row of `base` starts in the cursor of the version's first
query and ends in the target. `CoverOK` says that in between it is in the cursor,
the buffer, a message or the target, `OrderOK` that what is still in the cursor is
not below the watermark, so that a STATE with that watermark claims only rows
that have left it (`ClaimsOK`) and whatever reaches the state file is true of the
target (`FileOK`). When a run resumes, these rows need not be read again, and all
others of `base` are at or above the watermark and are in its query. The ACTIVATE_VERSION
at the end claims all of `base`. All this follows rows by their xmin, which works
because a row of `base` is read the same by every query of its version (`Agrees`).
`VersionOK` is for what an activation discards: while a version is in use, whatever
the target has of the table's present rows came with that version, without one
(BATCH), or is a row of `base`, which the copy's end answers for. A transaction
that commits later has an id that the target cannot have (`Committed`).
A record, an Arrow batch and the end of the query are the same kind of step,
`AtWork`: messages that deliver the rows at hand and spare the rest. `CopyRecordWorks`,
`CopyRecordBatchWorks` and `FinishCopyWorks` show that each is one, and every
invariant is kept by `AtWork` once, here (`ProgressTypes`, `ProgressBacked`) and in
`VersionedCopyProofs`.

### VersionedCopyProofs

For any table, batch size and STATE period, any transactions and any crashes, in
both modes:

| theorem | statement |
|---|---|
| `OpeningInvariant` | `Spec => []OpeningInv` |
| `CopyInvariant` | `Spec => []CopyInv`, if `Ordered` |
| `DiscardsOnlyStale` | `Spec => ActivationDiscardsOnlyStale`, if `Ordered` |
| `CopyIsVersioned` | `Spec => ImplementsVersionedCopy`, if `Ordered` |

`Ordered` is needed here too: with the constants of `CopyTextOrder` a resumed copy seals
although it is not complete, which no `VersionedCopy` does.

*The argument.* A step of the code is a step of `VersionedCopy` because of three
facts beyond the invariant of `FullTableCopyProofs`. `ClockOK`: the run, the
messages and the state file know one version, the last one handed out, so that
a fresh copy has a new one. `OpeningOK`: until a first STATE is handled the target
has nothing under a version, since that STATE heads the pipe. This is why the
activation that `sync_table` emits before any row, on a stream's first copy, is
harmless. `MarksOK`: from the state file through the STATE messages to the run
watermarks never go back, except at the end, where the watermark is cleared and
everything before that STATE completes the version (`Done`). So what a resumed copy may
skip only grows until nothing is left to skip. That what is settled is in the
target is `FileOK`, that a `Seal` is complete is `ClaimsOK` of the invariant before.

### IncrementalSyncProofs

For any table, any keys and any conversion of them, any limits, batch sizes and
STATE periods:

| theorem | statement |
|---|---|
| `InductiveInvariant` | `Spec => []IInv` |
| `BookmarkNeverSkips` | `Spec => []NoGaps` |
| `ActivationIsHarmless` | `Spec => ActivationDiscardsNothing` |
| `TypeCorrect` | `Spec => []TypeOK` |
| `BookmarkAdvances` | `Spec => BookmarkOnlyAdvances` |
| `SyncIsKeyedFeed` | `Spec => ImplementsKeyedFeed` |

*The argument.* `NoGaps` is about the bookmarks in the state file. Each was a
STATE message, written when the rows below it were spread over the target, the
messages before it and the buffer of the batch writer, and before that over the
cursor. `GapOK` follows a row through these: below the state file's key it is
in the target, below a STATE's key in the target or an earlier message, below the
key in memory also in the buffer, and what is below a row still in the cursor is
in one of them or in the cursor too. The last part holds because the cursor is
read in key order (`IsFront`), and starts to hold because the query returns what
is at or above the bookmark, in key order, however the limit cuts ties. When a row
leaves the cursor the bookmark becomes its converted key; if that is not above
the key itself, what is below the one is below the other. This is all that
`GapOK` needs of the conversion, and why it is stated for `~raised`. The
three kinds of progress, a record, an Arrow batch and the end, differ in what
they hand over and what they write; `AtWork` says what they have in common: a front of
the cursor handed over together with the messages written. `ProgressInv` proves once
that this keeps the invariant, and `SyncRecordWorks`, `SyncRecordBatchWorks` and
`FinishSyncWorks` that each action does it. `VersionOK` says that all messages of a run
that has begun carry the version of the state file that its first STATE will
leave, from which the third theorem follows.

`TypeOK` bounds what only grows. A version is handed out only while the state file
has none, and a run whose STATE was handled leaves one, so that every version
after the first has its crash (`ClockOK`); `WritesOK` and `BufferOK` bound the rows' writes
and the batch buffer. For `BookmarkAdvances`, `OrderOK` is about the state file,
the STATE messages behind it and the run: until a key is raised, bookmarks only
advance along these or go to one of `Fallbacks` (`Moves`), and what the query has
still to yield is beyond the run's bookmark. A bookmark that goes back has been made from a key
whose conversion is below that of a lower key, which makes it one that is `Lowered`
(lemma `BackOnlyLowered`).

The refinement adds one thing to these, that the target never goes back to an
older state of a row, and `SnapshotOK` is its reason: all that is on its way to the
target comes from one query, since a run starts only when the pipe is empty. That
query saw each row once, and nothing older than what the target has.

### SyncRunsProofs

For any number of streams, all methods and keys, and all settings:

| theorem | statement |
|---|---|
| `InductiveInvariant` | `Spec => []IInv` |
| `TypeCorrect` | `Spec => []TypeOK` |
| `StateAlwaysUsable` | `Spec => []StateUsable` |

*The argument.* The state file was a STATE message, which was a copy of the
whole state object at some moment of some run, so the invariant must hold of the
state object at every moment. `Sound` says of a bookmark what the method that
wrote it last may rely on: for FULL_TABLE a watermark has its version, for
INCREMENTAL a value belongs to the key it is stored with, for LOG_BASED a
watermark has its LSN. What the plan of a run establishes for the streams it has
classified (`TodoOK`, `SessionOK`) and what the start of a strategy adds for the
one at the front (`CopyOK`) keep each strategy inside `Sound`; the reset on a
change of method or key keeps it between runs.

### DovetailProofs

For any number of streams, all methods and keys, and every bound:

| theorem | statement |
|---|---|
| `CopyInvariant` | `Spec => [](IInv /\ CopyInv)` |
| `CopyIsMadeOnce` | `Spec => CopiedOnce` |
| `HandoverInvariant` | `Spec => [](IInv /\ CopyInv /\ HandoverInv)`, if `break_at_end` and not `use_secondary` |
| `NothingIsForgotten` | `Spec => []NothingForgotten`, if `break_at_end` and not `use_secondary` |

The two settings are needed: `SyncSharedSlot` and `SyncReplica` are
counterexamples without the one and without the other.

*The argument.* The state file, the STATE messages on their way and the state
object of the run form a timeline (`BookmarkAt`, `StoredAt`); a crash makes the
next run start from any of them but the last. Both invariants are stated for
each of them, with what the target has stored once it gets there. `CopyInv`: on
this timeline a LOG_BASED stream stays copied once it is, because a run that
finds it copied gives it to the session and neither copies it nor drops it.
`HandoverInv`: what a copied stream lacks lies at or after its bookmark
(`BookmarkBacked`) and at or after the slot (`SlotBacked`). A session moves the
slot for its own streams, to the least of their committed bookmarks. What keeps
that from passing the others is the end LSN as a fence (`FenceOK`, `QueryOK`):
the session does not go beyond it, and a stream that the same run has copied has
everything before it. A stream outside the catalog has no part in the session
and its bookmark is dropped when one starts, so `SlotBacked` asks it of the last
state object only; a failure before that object is committed is what `exposed`
records.

### SchemaDriftProofs

For any columns, keys, changes and ALTER TABLEs:

| theorem | statement |
|---|---|
| `DriftInvariant` | `Spec => []DriftInv` |
| `TypeCorrect` | `Spec => []TypeOK` |
| `RecordsFit` | `Spec => []RecordFitsSchema` |
| `DeselectedAreLeftOut` | `Spec => []DeselectedStaysOut` |
| `NoValueLost` | `Spec => []EveryValueDelivered`, if `ConfigDatabase = CatalogDatabase` |

`TypesAssumption` restricts the types a column may be given to integers, to
strings, or to types that discovery does not support: a value written under one
is a value of the others. `NoValueLost` assumes the configured database to be
the catalog's; `DriftDatabases` shows why. Like the property, it exempts changes
before an lsn that a broken-off copy left alone.

*The argument.* A change has the columns the table had then, the entry those it
had at the last look. `ServerOK` closes the gap between them: a column of a change
is in the table still, or it has been dropped since and is in `gone`. So after a
refresh caused by an unknown column the entry has every column that the change
can still be asked for, and without one it had them before. A copy answers for
all changes below the end LSN because that is taken before the refresh whose
columns it reads. A copy that breaks off divides the changes before its lsn: with
an xmin beside the lsn, a row in `copied` has arrived and a resumed copy brings the
others, and with the lsn alone all of them are before `skipped` (`LeftOut`,
`StateOK`). The resumed copy keeps its lsn, which is no later than this run's end LSN, so
the refresh has seen the columns of what it brings, too. `OutputOK` says that a
session's entry is the one it published last, which makes RECORDs fit.

### ValuePathsProofs

For arrays of any depth:

| theorem | statement |
|---|---|
| `SchemaAdmitsRecords` | `Spec => []ValuesFitSchema` |
| `CopyAndWalAgree` | `Spec => []PathsAgree` |

*The argument.* The types fall into twelve classes that discovery and both conversions
treat alike (`OfInteger`, ..., `OfUnmapped`; `AllClasses` says that these are all). For each
a lemma gives the declared schema, the scalars and what the two ways make of them.
`EveryScalar` joins these into what `Misfit` and `Divergent` say of a scalar, `EveryValue`
adds the arrays: below three levels both ways keep the shape and treat the scalars,
from the third on `reconstruct_array` stops and gives the inner lists to the rules
for scalars, which is `Divergent`. So depth 3 of the run stands for all depths.

### What stays with TLC

Liveness only (`EventuallyDurable`, `EveryRunEnds`, `CopyCompletes`,
`EveryChangeDelivered`): the prover has no rule for fairness and ENABLED. The
violations of the five runs that expect one are counterexamples, which TLC finds.

## Not modelled

* The catalog query of discovery, numeric bounds and lengths in schemas, and
  catalog normalisation; a refresh that finds its table gone (`DiscoveryError`),
  which stops the run as `RunStops` does.
* Retyping a column to a type its old values do not fit: drift is detected by
  name, and a change would be decoded by a type it was not written with.
* `use_secondary` in the schema refresh, which may then see an older table than
  the end LSN's.
* The text of values: a value is its kind. BATCH values, which Arrow converts.
* Slot names, the version gate, connection strings, quoting: read or built once
  per run, from nothing that changes.
* Views (no watermark, one query), streams without selected columns; several
  databases except in `DriftDatabases`.
* Deletes while a copy is interrupted: the version keeps its number, so rows
  deleted between two attempts survive the activation in the target.
* Wraparound of transaction ids and row freezing.
* psycopg2's own status messages. The model takes them to repeat the last flush
  position. A driver that moves it forward by itself when a keepalive arrives
  and everything received has been flushed could confirm more than
  `send_feedback` asked for; keepalives count here only by the position they
  report.
* Two runs at once: the pipeline starts a run when the last one's STATEs are
  committed.

## Plan

1. Done: `LogicalSession` with `ResumableFeed`; `FullTableCopy`,
   `IncrementalSync`, `SyncRuns`; `SchemaDrift`, `DataTypes`, `ValuePaths`; their
   runs; proofs about the session, the copy, INCREMENTAL, the state file, the
   hand-over from copy to session, and drift.
2. Done: `VersionedCopy`, which `FullTableCopy` implements, and `KeyedFeed`, which
   `IncrementalSync` implements, with their proofs; the types and the bookmark's
   order of INCREMENTAL replication proved; the two ways of a value compared for
   arrays of any depth.
3. `SyncRuns` composed with the full session, so that de-selected streams, the
   shared slot and interleaved transactions meet; several databases with a slot
   each.
4. A variant of `SendFeedback` in which the driver moves the flush position by
   itself on keepalives.
