------------------------------ MODULE SyncRuns ------------------------------
(***************************************************************************)
(* The orchestration of whole runs (src/tap_postgres/sync.py): which       *)
(* strategy each selected stream gets, in which order, from which          *)
(* bookmarks, and how the initial copy of a LOG_BASED stream hands over to *)
(* the replication session that all pure-logical streams share.  Catalogs  *)
(* change between runs, runs fail and the pipeline crashes.                *)
(*                                                                         *)
(* The strategies are abstract: a copy or an extraction is its start, its  *)
(* STATE messages and its end (FullTableCopy, IncrementalSync have the     *)
(* rows), and the session reads one change after another (LogicalSession   *)
(* has the rest).  Every change is a transaction of its own and its LSN is *)
(* its index in log.  0 is None.  One database, one slot.                  *)
(***************************************************************************)
EXTENDS Integers, Sequences, FiniteSetsExt

CONSTANTS
    StreamCount,      \* streams are numbered in the order of tap_stream_id
    Methods,          \* the replication methods catalogs use
    Keys,             \* the replication keys catalogs use
    break_at_end,     \* the setting break_at_end_lsn
    use_secondary,    \* the setting of that name
    MaxLsn,           \* bound: changes in the log
    MaxEdits,         \* bound: catalog changes
    MaxFailures,      \* bound: failed runs and crashes
    MaxPipe           \* bound: STATE messages on their way to the target

ASSUME StreamsAssumption == StreamCount \in Nat \ {0}
ASSUME MethodsAssumption == Methods \subseteq {"FULL_TABLE", "INCREMENTAL", "LOG_BASED"}
ASSUME KeysAssumption == 0 \notin Keys
ASSUME SettingsAssumption == {break_at_end, use_secondary} \subseteq BOOLEAN
ASSUME BoundsAssumption == {MaxLsn, MaxEdits, MaxFailures, MaxPipe} \subseteq Nat

VARIABLES
    \* The server.
    log,       \* the stream each change belongs to
    confirmed, \* the slot's confirmed_flush_lsn
    \* The operator.
    catalog,   \* each stream's selection: NotSelected, or its method and key
    \* The tap process.
    phase,     \* "idle", "traditional", "copying" or "logical"
    state,     \* the state object
    end_lsn,
    front,     \* currently_syncing as the run found it
    todo,      \* traditional streams still to be synced
    session,   \* the pure-logical streams
    query,     \* the last change the running copy's query sees
    position,  \* the last change the session has been sent or has skipped
    last_processed_lsn,
    last_fully_processed_lsn,
    rows,      \* history: changes written since the last STATE message
    \* Downstream.
    pipe,      \* STATE messages on their way, with the changes before them
    file,      \* the --state file
    durable,   \* the changes the target has stored
    edits,
    failures,
    exposed    \* history: streams a failure met while they were not LOG_BASED

server     == <<log, confirmed>>
progress   == <<position, last_processed_lsn, last_fully_processed_lsn>>
plan       == <<end_lsn, front, todo, session>>
process    == <<phase, state, plan, query, progress, rows>>
downstream == <<pipe, file, durable>>
mishaps    == <<edits, failures, exposed>>
vars       == <<server, catalog, process, downstream, mishaps>>

None    == 0
Streams == 1 .. StreamCount

NotSelected == [method |-> "none", key |-> None]

Entries ==
    {NotSelected}
    \cup {[method |-> m, key |-> None] : m \in Methods \ {"INCREMENTAL"}}
    \cup {[method |-> m, key |-> k] : m \in Methods \cap {"INCREMENTAL"}, k \in Keys}

Selected(entries, m) == {s \in Streams : entries[s].method = m}

\* A stream's bookmark.  replication_key_value is the replication key the
\* value was read from; copied is history: the copy that belongs to lsn is
\* complete.
NoBookmark ==
    [last_replication_method |-> "none", version |-> FALSE, xmin |-> FALSE, lsn |-> None,
     replication_key |-> None, replication_key_value |-> None, copied |-> FALSE]

WalEnd == Len(log) + 1

-----------------------------------------------------------------------------
(***************************************************************************)
(* Changes commit; the operator edits the catalog between runs.            *)
(***************************************************************************)

Commit ==
    /\ Len(log) < MaxLsn
    /\ \E s \in Streams : log' = Append(log, s)
    /\ UNCHANGED <<confirmed, catalog, process, downstream, mishaps>>

ChangeCatalog ==
    /\ phase = "idle"
    /\ pipe = << >>
    /\ edits < MaxEdits
    /\ edits' = edits + 1
    /\ \E s \in Streams, e \in Entries : e # catalog[s] /\ catalog' = [catalog EXCEPT ![s] = e]
    /\ UNCHANGED <<server, process, downstream, failures, exposed>>

-----------------------------------------------------------------------------
(***************************************************************************)
(* Planning a run.                                                         *)
(***************************************************************************)

\* MUTANT: a new replication key keeps the old one's bookmarks.
Reset_MethodOnly(bookmark, entry) ==
    IF bookmark.last_replication_method \notin {"none", entry.method}
    THEN [NoBookmark EXCEPT !.last_replication_method = entry.method]
    ELSE [bookmark EXCEPT !.last_replication_method = entry.method]

\* reset_state_on_method_change: whatever another method or another
\* replication key left behind is wiped.
Reset(bookmark, entry) ==
    LET method_changed == bookmark.last_replication_method \notin {"none", entry.method}
        key_changed == /\ entry.method = "INCREMENTAL"
                       /\ bookmark.replication_key \notin {None, entry.key}
    IN  IF method_changed \/ key_changed
        THEN [NoBookmark EXCEPT !.last_replication_method = entry.method]
        ELSE [bookmark EXCEPT !.last_replication_method = entry.method]

ResetAll(bookmarks) ==
    [s \in Streams |-> IF catalog[s] = NotSelected THEN bookmarks[s]
                       ELSE Reset(bookmarks[s], catalog[s])]

\* classify_log_based_work; an xmin without an lsn is fatal.
Classify(bookmark) ==
    CASE bookmark.lsn # None /\ ~bookmark.xmin -> "logical"
      [] bookmark.lsn = None /\ bookmark.xmin  -> "inconsistent"
      [] OTHER                                 -> "snapshot"

LogicalStreams(bookmarks) ==
    {s \in Selected(catalog, "LOG_BASED") : Classify(bookmarks[s]) = "logical"}

\* MUTANT: LOG_BASED streams are always synced in both ways.
TraditionalStreams_AllSelected(bookmarks) == {s \in Streams : catalog[s] # NotSelected}

TraditionalStreams(bookmarks) ==
    {s \in Streams : catalog[s] # NotSelected} \ LogicalStreams(bookmarks)

\* validate_bookmark_keys.
ValidForIncremental(bookmark) == ~bookmark.xmin /\ bookmark.lsn = None

\* A full pipe blocks the tap.
EmitState(s, changes) ==
    /\ Len(pipe) < MaxPipe
    /\ pipe' = Append(pipe, [state |-> s, rows |-> changes])

NoProcess ==
    /\ phase' = "idle"
    /\ state' = [currently_syncing |-> None, bookmarks |-> [s \in Streams |-> NoBookmark]]
    /\ end_lsn' = None
    /\ front' = None
    /\ todo' = {}
    /\ session' = {}
    /\ query' = None
    /\ position' = None
    /\ last_processed_lsn' = None
    /\ last_fully_processed_lsn' = None
    /\ rows' = {}

\* do_sync up to the traditional streams.  The pipeline starts a run when the
\* target has finished with the last one.  A run that raises here changes
\* nothing.
StartRun ==
    LET bookmarks == ResetAll(file.bookmarks)
        log_based == Selected(catalog, "LOG_BASED")
    IN  /\ phase = "idle"
        /\ pipe = << >>
        /\ \E s \in Streams : catalog[s] # NotSelected
        /\ \A s \in log_based : Classify(bookmarks[s]) # "inconsistent"
        /\ phase' = "traditional"
        /\ state' = [file EXCEPT !.bookmarks = bookmarks]
        /\ end_lsn' = IF log_based # {} THEN WalEnd ELSE None
        /\ front' = file.currently_syncing
        /\ session' = LogicalStreams(bookmarks)
        /\ todo' = TraditionalStreams(bookmarks)
        /\ UNCHANGED <<server, catalog, query, progress, rows, downstream, mishaps>>

-----------------------------------------------------------------------------
(***************************************************************************)
(* Traditional streams, one at a time (sync_traditional_stream).           *)
(***************************************************************************)

\* currently_syncing first, then in the order of tap_stream_id.
NextStream == IF front \in todo THEN front ELSE Min(todo)

\* A copy reads the replica when there is one, and that may lag.
Snapshots == IF use_secondary THEN 0 .. Len(log) ELSE {Len(log)}

\* The bookmark a strategy has written by its first STATE message.
Prepared(bookmark, entry) ==
    CASE entry.method = "FULL_TABLE"  -> [bookmark EXCEPT !.version = TRUE]
      [] entry.method = "INCREMENTAL" -> [bookmark EXCEPT !.version = TRUE,
                                                          !.replication_key = entry.key]
      [] entry.method = "LOG_BASED"   -> [bookmark EXCEPT !.version = TRUE,
                                             !.lsn = IF @ = None THEN end_lsn ELSE @]

StartStream ==
    LET s == NextStream
    IN  /\ phase = "traditional"
        /\ todo # {}
        /\ catalog[s].method = "INCREMENTAL" => ValidForIncremental(state.bookmarks[s])
        /\ phase' = "copying"
        /\ state' = [state EXCEPT !.currently_syncing = s, !.bookmarks[s] = Prepared(@, catalog[s])]
        /\ query' \in Snapshots
        /\ EmitState(state', {})
        /\ UNCHANGED <<server, catalog, plan, progress, rows, file, durable, mishaps>>

\* Rows have been written: the resume point moves, and a STATE message
\* follows when the period is full.
CopySome ==
    LET s == NextStream
    IN  /\ phase = "copying"
        /\ state' = IF catalog[s].method = "INCREMENTAL"
                    THEN [state EXCEPT !.bookmarks[s].replication_key_value = catalog[s].key]
                    ELSE [state EXCEPT !.bookmarks[s].xmin = TRUE]
        /\ state' # state
        /\ EmitState(state', {}) \/ UNCHANGED pipe
        /\ UNCHANGED <<server, catalog, phase, plan, query, progress, rows, file, durable,
                       mishaps>>

\* What the target has of the stream once its copy is complete.
CopiedChanges(s) == {i \in 1 .. query : log[i] = s}

\* MUTANT: the lsn bookmark is the WAL end at the end of the copy.
FinishStream_LsnAtEnd ==
    LET s == NextStream
    IN  /\ phase = "copying"
        /\ phase' = "traditional"
        /\ todo' = todo \ {s}
        /\ state' = [state EXCEPT !.currently_syncing = None, !.bookmarks[s].xmin = FALSE,
                         !.bookmarks[s].copied = @ \/ catalog[s].method = "LOG_BASED",
                         !.bookmarks[s].lsn = IF @ = None THEN @ ELSE WalEnd]
        /\ query' = None
        /\ EmitState(state', IF catalog[s].method = "LOG_BASED" THEN CopiedChanges(s) ELSE {})
        /\ UNCHANGED <<server, catalog, end_lsn, front, session, progress, rows, file, durable,
                       mishaps>>

\* The end of a copy or an extraction, and the STATE message after it.
FinishStream ==
    LET s == NextStream
    IN  /\ phase = "copying"
        /\ phase' = "traditional"
        /\ todo' = todo \ {s}
        /\ state' = [state EXCEPT !.currently_syncing = None, !.bookmarks[s].xmin = FALSE,
                         !.bookmarks[s].copied = @ \/ catalog[s].method = "LOG_BASED"]
        /\ query' = None
        /\ EmitState(state', IF catalog[s].method = "LOG_BASED" THEN CopiedChanges(s) ELSE {})
        /\ UNCHANGED <<server, catalog, end_lsn, front, session, progress, rows, file, durable,
                       mishaps>>

\* A run without pure-logical streams ends here.
FinishRun ==
    /\ phase = "traditional"
    /\ todo = {}
    /\ session = {}
    /\ EmitState(state, {})
    /\ NoProcess
    /\ UNCHANGED <<server, catalog, file, durable, mishaps>>

-----------------------------------------------------------------------------
(***************************************************************************)
(* The replication session (sync_logical_streams).                         *)
(***************************************************************************)

\* MUTANT: every stream outside the session loses its bookmark.
DropDeselected_NotInSession(bookmarks) ==
    [s \in Streams |-> IF s \notin session /\ bookmarks[s].lsn # None THEN NoBookmark
                       ELSE bookmarks[s]]

DropDeselected(bookmarks) ==
    [s \in Streams |-> IF catalog[s] = NotSelected /\ bookmarks[s].lsn # None THEN NoBookmark
                       ELSE bookmarks[s]]

CommittedMinLsn(bookmarks) ==
    LET lsns == {bookmarks[s].lsn : s \in session} \ {None}
    IN  IF lsns = {} THEN None ELSE Min(lsns)

StartSession ==
    /\ phase = "traditional"
    /\ todo = {}
    /\ session # {}
    /\ phase' = "logical"
    /\ state' = [state EXCEPT !.bookmarks = DropDeselected(@)]
    /\ position' = Max({CommittedMinLsn(state'.bookmarks), confirmed}) - 1
    /\ UNCHANGED <<server, catalog, plan, query, last_processed_lsn, last_fully_processed_lsn,
                   rows, downstream, mishaps>>

WriteAllBookmarks(lsn) ==
    [state EXCEPT !.bookmarks =
        [s \in Streams |-> IF s \in session THEN [@[s] EXCEPT !.lsn = lsn] ELSE @[s]]]

\* The next change of the session's streams, if there is one.
Upcoming == {i \in position + 1 .. Len(log) : log[i] \in session}

\* One message: the RECORD, the stream's bookmark, and the one before it
\* counts as fully processed; now and then a STATE message.
SessionReads ==
    LET i == Min(Upcoming)
    IN  /\ phase = "logical"
        /\ Upcoming # {}
        /\ break_at_end => i <= end_lsn
        /\ position' = i
        /\ last_processed_lsn' = i
        /\ last_fully_processed_lsn' = last_processed_lsn
        /\ \/ /\ state' = [state EXCEPT !.bookmarks[log[i]].lsn = i]
              /\ rows' = rows \cup {i}
              /\ UNCHANGED pipe
           \/ /\ last_processed_lsn # None
              /\ state' = WriteAllBookmarks(last_processed_lsn)
              /\ EmitState(state', rows \cup {i})
              /\ rows' = {}
        /\ UNCHANGED <<server, catalog, phase, plan, query, file, durable, mishaps>>

\* The slot is flushed to what the session's streams have committed: at the
\* first message, and as the state file advances, unless the session has yet to
\* reach that position.
Feedback ==
    LET committed == CommittedMinLsn(file.bookmarks)
    IN  /\ phase = "logical"
        /\ last_processed_lsn = None \/ committed <= last_processed_lsn
        /\ committed > confirmed
        /\ confirmed' = committed
        /\ UNCHANGED <<log, catalog, process, downstream, mishaps>>

\* However the session ends: its last STATE message, then the run's.
FinishSession ==
    /\ phase = "logical"
    /\ EmitState(IF last_fully_processed_lsn = None THEN state
                 ELSE WriteAllBookmarks(Max({last_fully_processed_lsn,
                                             CommittedMinLsn(file.bookmarks)})),
                 rows)
    /\ NoProcess
    /\ UNCHANGED <<server, catalog, file, durable, mishaps>>

-----------------------------------------------------------------------------
(***************************************************************************)
(* Failures, and the target.                                               *)
(***************************************************************************)

Fail ==
    /\ failures < MaxFailures
    /\ failures' = failures + 1
    /\ exposed' = exposed \cup {s \in Streams : catalog[s].method # "LOG_BASED"}
    /\ UNCHANGED edits

\* The run raises or is killed: what it wrote is on its way.
RunFails ==
    /\ phase # "idle"
    /\ Fail
    /\ NoProcess
    /\ UNCHANGED <<server, catalog, downstream>>

\* What the target had not stored is lost with the pipeline.
PipelineCrash ==
    /\ pipe # << >>
    /\ Fail
    /\ NoProcess
    /\ pipe' = << >>
    /\ UNCHANGED <<server, catalog, file, durable>>

\* The target stores what precedes a STATE message, then the state file is
\* rewritten with it.
TargetCommit ==
    /\ pipe # << >>
    /\ durable' = durable \cup Head(pipe).rows
    /\ file' = Head(pipe).state
    /\ pipe' = Tail(pipe)
    /\ UNCHANGED <<server, catalog, process, mishaps>>

-----------------------------------------------------------------------------
Init ==
    /\ log = << >>
    /\ confirmed = 1
    /\ catalog \in [Streams -> Entries]
    /\ phase = "idle"
    /\ state = [currently_syncing |-> None, bookmarks |-> [s \in Streams |-> NoBookmark]]
    /\ end_lsn = None
    /\ front = None
    /\ todo = {}
    /\ session = {}
    /\ query = None
    /\ position = None
    /\ last_processed_lsn = None
    /\ last_fully_processed_lsn = None
    /\ rows = {}
    /\ pipe = << >>
    /\ file = state
    /\ durable = {}
    /\ edits = 0
    /\ failures = 0
    /\ exposed = {}

Next ==
    \/ Commit
    \/ ChangeCatalog
    \/ StartRun
    \/ StartStream
    \/ CopySome
    \/ FinishStream
    \/ FinishRun
    \/ StartSession
    \/ SessionReads
    \/ Feedback
    \/ FinishSession
    \/ RunFails
    \/ PipelineCrash
    \/ TargetCommit

Spec == Init /\ [][Next]_vars
-----------------------------------------------------------------------------
(***************************************************************************)
(* Properties.                                                             *)
(***************************************************************************)

Bookmark ==
    [last_replication_method : Methods \cup {"none"}, version : BOOLEAN, xmin : BOOLEAN,
     lsn : 0 .. MaxLsn + 1, replication_key : Keys \cup {None},
     replication_key_value : Keys \cup {None}, copied : BOOLEAN]

StateObject == [currently_syncing : Streams \cup {None}, bookmarks : [Streams -> Bookmark]]

TypeOK ==
    /\ log \in Seq(Streams)
    /\ confirmed \in 1 .. WalEnd
    /\ catalog \in [Streams -> Entries]
    /\ phase \in {"idle", "traditional", "copying", "logical"}
    /\ {state, file} \subseteq StateObject
    /\ end_lsn \in 0 .. WalEnd
    /\ front \in Streams \cup {None}
    /\ todo \subseteq Streams /\ session \subseteq Streams /\ todo \cap session = {}
    /\ query \in 0 .. Len(log)
    /\ position \in 0 .. WalEnd
    /\ last_processed_lsn \in 0 .. Len(log)
    /\ last_fully_processed_lsn \in 0 .. last_processed_lsn
    /\ rows \subseteq DOMAIN log /\ durable \subseteq DOMAIN log
    /\ \A k \in DOMAIN pipe : pipe[k].state \in StateObject /\ pipe[k].rows \subseteq DOMAIN log
    /\ edits \in 0 .. MaxEdits /\ failures \in 0 .. MaxFailures /\ exposed \subseteq Streams

\* What the strategy an entry selects needs of the bookmark it finds.
Usable(bookmark, entry) ==
    CASE entry.method = "FULL_TABLE"  -> bookmark.xmin => bookmark.version
      [] entry.method = "INCREMENTAL" ->
            /\ ValidForIncremental(bookmark)
            /\ bookmark.replication_key_value \in {None, entry.key}
      [] entry.method = "LOG_BASED"   ->
            /\ Classify(bookmark) # "inconsistent"
            /\ bookmark.lsn # None => bookmark.version

\* The state file never makes a run fail: however catalogs and crashes follow
\* one another, no entry the operator may choose next meets an inconsistent
\* bookmark (SyncError, ReplicationKeyError, the missing version of
\* consume_message), nor the value of another replication key.
StateUsable ==
    \A s \in Streams, e \in Entries \ {NotSelected} : Usable(Reset(file.bookmarks[s], e), e)

\* A change of a stream with a complete copy is stored, or a session that
\* starts from the state file is sent it.
Recoverable(s) ==
    \A i \in DOMAIN log : log[i] = s /\ i \notin durable =>
        i >= file.bookmarks[s].lsn /\ i >= confirmed

\* The copy and the WAL stream of a LOG_BASED stream dovetail, and the slot it
\* shares never passes data the target lacks (SPEC.md 6.3.4, 10.1): once the
\* copy is committed, no change is neither stored nor still to come.  Streams
\* that were out of the catalog while a run failed are left out: the bookmark
\* of such a stream may outlive the positions the slot has kept for it.
NothingForgotten ==
    \A s \in Selected(catalog, "LOG_BASED") \ exposed :
        LET b == file.bookmarks[s]
        IN  b.last_replication_method = "LOG_BASED" /\ b.copied => Recoverable(s)

\* A stream streams from the WAL only after its initial copy is complete
\* (SPEC.md 6.3: first the snapshot, then continuous consumption).
StreamsOnlyAfterCopy == phase = "logical" => \A s \in session : state.bookmarks[s].copied

\* A committed copy is made once: as long as the catalog keeps the stream
\* LOG_BASED no run takes it back to its initial copy, whatever happens to the
\* other streams (DropDeselected, Reset).
CopiedOnce ==
    [][ \A s \in Selected(catalog, "LOG_BASED") :
            /\ file.bookmarks[s].copied /\ catalog'[s] = catalog[s]
            /\ file.bookmarks[s].last_replication_method = "LOG_BASED"
            => file'.bookmarks[s].copied ]_vars
=============================================================================
