--------------------------- MODULE LogicalSession ---------------------------
(***************************************************************************)
(* Log-based replication (src/tap_postgres/logical.py): the runs of        *)
(* sync_logical_streams against one replication slot, together with what   *)
(* the code talks to -- the walsender behind the slot and the pipeline     *)
(* that carries records and STATE messages to the target and writes the    *)
(* target's committed state back to the --state file.                      *)
(*                                                                         *)
(* A WAL position (LSN) is a positive integer and None is 0, which is also *)
(* what `session.committed_lsn or 0` makes of None: 0/0 is no WAL position *)
(* in PostgreSQL.  A change is identified by its index in wal; a record's  *)
(* content plays no part.                                                  *)
(***************************************************************************)
EXTENDS Integers, Sequences, FiniteSetsExt

CONSTANTS
    Streams,                 \* the session's streams: the pure-logical ones
    NoStream,                \* of a payload no session stream is found for
    UPDATE_BOOKMARK_PERIOD,  \* advances between periodic STATE messages
    break_at_end,            \* the setting break_at_end_lsn
    InitialEnd,              \* the WAL end the model starts with
    MaxLsn,                  \* bound: no transaction commits beyond it
    MaxRows,                 \* bound: changes of one transaction
    MaxChanges,              \* bound: changes in the WAL
    MaxInterruptions         \* bound: crashes, failures and early timeouts

ASSUME StreamsAssumption == Streams # {} /\ NoStream \notin Streams
ASSUME PeriodAssumption == UPDATE_BOOKMARK_PERIOD \in Nat \ {0}
ASSUME SettingAssumption == break_at_end \in BOOLEAN
ASSUME BoundsAssumption ==
    /\ InitialEnd \in Nat \ {0}
    /\ {MaxLsn, MaxRows, MaxChanges, MaxInterruptions} \subseteq Nat

VARIABLES
    \* The server.
    wal,            \* changes as the slot decodes them, in commit order
    walEnd,         \* the position the next WAL record gets
    confirmed,      \* the slot's confirmed_flush_lsn
    sent,           \* how many changes this connection has sent or skipped
    \* The tap process: LogicalSession's attributes.
    running,
    state,          \* each session stream's lsn bookmark
    end_lsn,
    committed_lsn,
    flushed_lsn,
    last_processed_lsn,
    last_fully_processed_lsn,
    processed_advances,
    received_first_message,
    emitted,        \* history: the changes this run has written as RECORDs
    \* Downstream.
    pipe,           \* STATE messages on their way, with the RECORDs before them
    file,           \* the lsn bookmarks in the --state file
    durable,        \* the changes the target has stored
    interruptions

server     == <<wal, walEnd, confirmed, sent>>
progress   == <<last_processed_lsn, last_fully_processed_lsn, processed_advances>>
session    == <<running, state, end_lsn, committed_lsn, flushed_lsn, progress,
                received_first_message, emitted>>
downstream == <<pipe, file, durable>>
vars       == <<server, session, downstream, interruptions>>

NoLsn     == 0
Lsn       == Nat \ {0}
Bookmarks == [Streams -> Lsn]
Change    == [lsn : Lsn, commit : Lsn, stream : Streams \cup {NoStream}]

Smaller(a, b) == IF a <= b THEN a ELSE b
Larger(a, b)  == IF a >= b THEN a ELSE b

(***************************************************************************)
(* LogicalSession._committed_min_lsn.  Every session stream has an lsn     *)
(* bookmark: that is what makes sync.py classify it as pure-logical.       *)
(***************************************************************************)
CommittedMinLsn(bookmarks) == Min({bookmarks[s] : s \in Streams})

-----------------------------------------------------------------------------
(***************************************************************************)
(* The server.  Changes carry the LSN of their own WAL record and are sent *)
(* when their transaction commits, so the LSNs the tap sees need not rise: *)
(* a transaction that began early and committed late comes last.  The      *)
(* changes of one COPY record share one LSN.                               *)
(***************************************************************************)
UsedLsns == {wal[i].lsn : i \in DOMAIN wal} \cup {wal[i].commit : i \in DOMAIN wal}

Transactions(c) ==
    {t \in UNION {[1 .. n -> [lsn : (1 .. c - 1) \ UsedLsns, commit : {c},
                              stream : Streams \cup {NoStream}]] : n \in 1 .. MaxRows} :
        \A i, j \in DOMAIN t : i < j => t[i].lsn <= t[j].lsn}

CommitTransaction ==
    /\ \E c \in walEnd .. MaxLsn : \E t \in Transactions(c) :
           /\ Len(wal) + Len(t) <= MaxChanges
           /\ wal' = wal \o t
           /\ walEnd' = c + 1
    /\ UNCHANGED <<confirmed, sent, session, downstream, interruptions>>

\* WAL the slot does not decode for this session: other tables, checkpoints.
OtherWal ==
    /\ walEnd <= MaxLsn
    /\ walEnd' = walEnd + 1
    /\ UNCHANGED <<wal, confirmed, sent, session, downstream, interruptions>>

\* START_REPLICATION begins at the later of the position asked for and the
\* slot's own, and skips the transactions that committed before it.
StartReplication(start_lsn) ==
    LET start == Larger(start_lsn, confirmed)
    IN  /\ sent' \in 0 .. Len(wal)
        /\ \A i \in 1 .. sent' : wal[i].commit < start
        /\ \A i \in sent' + 1 .. Len(wal) : wal[i].commit >= start

\* The most a keepalive may report while the next change is still to come.
ServerPosition == IF sent < Len(wal) THEN wal[sent + 1].commit ELSE walEnd

\* Standby feedback with a flush position.
SendFeedback(flush_lsn) ==
    /\ confirmed' = Larger(confirmed, flush_lsn)
    /\ flushed_lsn' = flush_lsn

-----------------------------------------------------------------------------
(***************************************************************************)
(* The session.                                                            *)
(***************************************************************************)

EmitState(bookmarks, rows) == pipe' = Append(pipe, [lsn |-> bookmarks, rows |-> rows])

WriteAllBookmarks(lsn) == [s \in Streams |-> lsn]

\* The process is gone; the values are those of no session.
NoSession ==
    /\ running' = FALSE
    /\ state' = WriteAllBookmarks(NoLsn)
    /\ end_lsn' = NoLsn
    /\ committed_lsn' = NoLsn
    /\ flushed_lsn' = NoLsn
    /\ last_processed_lsn' = NoLsn
    /\ last_fully_processed_lsn' = NoLsn
    /\ processed_advances' = 0
    /\ received_first_message' = FALSE
    /\ emitted' = {}
    /\ sent' = 0

\* sync_logical_streams up to its loop.  The pipeline starts the next run
\* when the target has finished with the last one, from the state file.
StartRun ==
    /\ ~running
    /\ pipe = << >>
    /\ running' = TRUE
    /\ state' = file
    /\ end_lsn' = walEnd
    /\ committed_lsn' = CommittedMinLsn(file)
    /\ StartReplication(CommittedMinLsn(file))
    /\ UNCHANGED <<wal, walEnd, confirmed, flushed_lsn, progress,
                   received_first_message, emitted, downstream, interruptions>>

\* MUTANT: the committed LSN is ignored.
FirstFlush_FirstMessage(first_lsn) == first_lsn

\* Where the slot is flushed to when the first message arrives.
FirstFlush(first_lsn) == Smaller(committed_lsn, first_lsn)

FlushOnFirstMessage(first_lsn) ==
    IF received_first_message
    THEN UNCHANGED <<confirmed, flushed_lsn, received_first_message>>
    ELSE /\ received_first_message' = TRUE
         /\ SendFeedback(FirstFlush(first_lsn))

\* MUTANT: without the test for None, the first message already counts.
RecordProcessed_NoneTestDropped(lsn, bookmarks, rows) ==
    /\ last_processed_lsn' = lsn
    /\ last_fully_processed_lsn' = last_processed_lsn
    /\ processed_advances' = processed_advances + 1
    /\ state' = WriteAllBookmarks(last_processed_lsn)
    /\ EmitState(state', rows)

\* A change's LSN counts as fully processed once a higher one arrives;
\* bookmarks and rows are those the message just consumed leaves behind.
RecordProcessed(lsn, bookmarks, rows) ==
    /\ last_processed_lsn' = lsn
    /\ IF last_processed_lsn # NoLsn /\ lsn > last_processed_lsn
       THEN /\ last_fully_processed_lsn' = last_processed_lsn
            /\ processed_advances' = processed_advances + 1
            /\ IF processed_advances' % UPDATE_BOOKMARK_PERIOD = 0
               THEN /\ state' = WriteAllBookmarks(last_processed_lsn)
                    /\ EmitState(state', rows)
               ELSE state' = bookmarks /\ UNCHANGED pipe
       ELSE /\ state' = bookmarks
            /\ UNCHANGED <<last_fully_processed_lsn, processed_advances, pipe>>

BeyondEnd(lsn) == break_at_end /\ lsn > end_lsn

\* MUTANT: a record that cannot be built is skipped and counts as processed.
ConsumeMessage_SkipsBadRecord(m) ==
    /\ emitted' \in {emitted, emitted \cup {sent + 1}}
    /\ RecordProcessed(m.lsn, state, emitted')

\* A message for one of the session's streams becomes a RECORD and moves
\* that stream's bookmark; any other only counts as processed.
ConsumeMessage(m) ==
    /\ emitted' = IF m.stream \in Streams THEN emitted \cup {sent + 1} ELSE emitted
    /\ RecordProcessed(m.lsn,
                       IF m.stream \in Streams
                       THEN [state EXCEPT ![m.stream] = m.lsn] ELSE state,
                       emitted')

Consume ==
    /\ running
    /\ sent < Len(wal)
    /\ ~BeyondEnd(wal[sent + 1].lsn)
    /\ FlushOnFirstMessage(wal[sent + 1].lsn)
    /\ ConsumeMessage(wal[sent + 1])
    /\ sent' = sent + 1
    /\ UNCHANGED <<wal, walEnd, running, end_lsn, committed_lsn, file, durable,
                   interruptions>>

\* MUTANT: the slot is flushed to what the tap has processed.
Feedback_FlushesProcessed ==
    /\ running
    /\ last_processed_lsn # NoLsn
    /\ SendFeedback(last_processed_lsn)
    /\ UNCHANGED <<wal, walEnd, sent, running, state, end_lsn, committed_lsn, progress,
                   received_first_message, emitted, downstream, interruptions>>

\* The periodic branch of the loop: the state file is read again and the slot
\* flushed to it.  A read that fails changes nothing.
Feedback ==
    LET committed == CommittedMinLsn(file)
        behind_current == last_processed_lsn = NoLsn \/ committed <= last_processed_lsn
        already_flushed == flushed_lsn # NoLsn /\ committed <= flushed_lsn
    IN  /\ running
        /\ committed_lsn' = Larger(committed, committed_lsn)
        /\ IF behind_current /\ ~already_flushed
           THEN SendFeedback(committed)
           ELSE UNCHANGED <<confirmed, flushed_lsn>>
        /\ UNCHANGED <<wal, walEnd, sent, running, state, end_lsn, progress,
                       received_first_message, emitted, downstream, interruptions>>

\* MUTANT: the run is taken to have reached its end LSN.
FinalBookmarks_EndLsn == WriteAllBookmarks(end_lsn)

FinalBookmarks ==
    IF last_fully_processed_lsn = NoLsn
    THEN state
    ELSE WriteAllBookmarks(Larger(last_fully_processed_lsn, committed_lsn))

\* MUTANT: a session that advanced no bookmark emits no STATE.
Finalize_OnlyWhenAdvanced ==
    /\ IF last_fully_processed_lsn = NoLsn
       THEN UNCHANGED pipe ELSE EmitState(FinalBookmarks, emitted)
    /\ NoSession
    /\ UNCHANGED <<wal, walEnd, file, durable>>

\* The loop's finally clause, however it was left: the last STATE, then exit.
Finalize ==
    /\ EmitState(FinalBookmarks, emitted)
    /\ NoSession
    /\ UNCHANGED <<wal, walEnd, file, durable>>

StopBeyondEnd ==
    /\ running
    /\ sent < Len(wal)
    /\ BeyondEnd(wal[sent + 1].lsn)
    /\ Finalize
    /\ UNCHANGED <<confirmed, interruptions>>

StopOnKeepalive ==
    /\ running
    /\ BeyondEnd(ServerPosition)
    /\ Finalize
    /\ UNCHANGED <<confirmed, interruptions>>

\* MUTANT: only a position beyond the end LSN ends an idle session.
StopWhenIdle_KeepaliveOnly ==
    /\ running
    /\ sent = Len(wal)
    /\ BeyondEnd(ServerPosition)
    /\ Finalize
    /\ UNCHANGED <<confirmed, interruptions>>

\* logical_poll_total_seconds without data: there is none to receive.
StopWhenIdle ==
    /\ running
    /\ sent = Len(wal)
    /\ Finalize
    /\ UNCHANGED <<confirmed, interruptions>>

Interrupt ==
    /\ interruptions < MaxInterruptions
    /\ interruptions' = interruptions + 1

\* max_run_seconds, an interrupt or a failed read_message: between messages.
StopEarly ==
    /\ running
    /\ Interrupt
    /\ Finalize
    /\ UNCHANGED confirmed

\* consume_message raises: after the first-message flush, before the RECORD.
ConsumeFails ==
    /\ running
    /\ sent < Len(wal)
    /\ ~BeyondEnd(wal[sent + 1].lsn)
    /\ Interrupt
    /\ Finalize
    /\ confirmed' = IF received_first_message THEN confirmed
                    ELSE Larger(confirmed, FirstFlush(wal[sent + 1].lsn))

-----------------------------------------------------------------------------
(***************************************************************************)
(* The pipeline.                                                           *)
(***************************************************************************)

\* The tap is killed: nothing of finalize runs, what it wrote is on its way.
TapCrash ==
    /\ running
    /\ Interrupt
    /\ NoSession
    /\ UNCHANGED <<wal, walEnd, confirmed, downstream>>

\* The target, or the machine, goes too: what it had not stored is lost.  It
\* may have stored records whose STATE never reached the state file.
PipelineCrash ==
    /\ running \/ pipe # << >>
    /\ Interrupt
    /\ NoSession
    /\ pipe' = << >>
    /\ \/ UNCHANGED durable
       \/ pipe # << >> /\ durable' = durable \cup Head(pipe).rows
    /\ UNCHANGED <<wal, walEnd, confirmed, file>>

\* The target stores everything before a STATE message, then the state file
\* is rewritten with it.  Two STATEs stored at once are two of these steps.
TargetCommit ==
    /\ pipe # << >>
    /\ durable' = durable \cup Head(pipe).rows
    /\ file' = Head(pipe).lsn
    /\ pipe' = Tail(pipe)
    /\ UNCHANGED <<server, session, interruptions>>

-----------------------------------------------------------------------------
Init ==
    /\ wal = << >>
    /\ walEnd = InitialEnd
    /\ sent = 0
    /\ running = FALSE
    /\ state = WriteAllBookmarks(NoLsn)
    /\ end_lsn = NoLsn
    /\ committed_lsn = NoLsn
    /\ flushed_lsn = NoLsn
    /\ last_processed_lsn = NoLsn
    /\ last_fully_processed_lsn = NoLsn
    /\ processed_advances = 0
    /\ received_first_message = FALSE
    /\ emitted = {}
    /\ pipe = << >>
    /\ file \in [Streams -> 1 .. InitialEnd]
    /\ confirmed \in 1 .. CommittedMinLsn(file)
    /\ durable = {}
    /\ interruptions = 0

SessionEnds == StopBeyondEnd \/ StopOnKeepalive \/ StopWhenIdle

Next ==
    \/ CommitTransaction
    \/ OtherWal
    \/ StartRun
    \/ Consume
    \/ Feedback
    \/ StopBeyondEnd
    \/ StopOnKeepalive
    \/ StopWhenIdle
    \/ StopEarly
    \/ ConsumeFails
    \/ TapCrash
    \/ PipelineCrash
    \/ TargetCommit

Spec == Init /\ [][Next]_vars

\* Runs are scheduled again and again, the loop keeps reading what the server
\* sends and leaves when it may, the target stores what it is given.  Nothing
\* is asked of the database's clients, of timers cutting a run short, or of
\* the periodic feedback.
Fairness ==
    /\ WF_vars(StartRun)
    /\ WF_vars(Consume)
    /\ WF_vars(SessionEnds)
    /\ WF_vars(TargetCommit)

FairSpec == Spec /\ Fairness
-----------------------------------------------------------------------------
(***************************************************************************)
(* Properties.                                                             *)
(***************************************************************************)

TypeOK ==
    /\ wal \in Seq(Change)
    /\ walEnd \in Lsn
    /\ confirmed \in Lsn
    /\ sent \in 0 .. Len(wal)
    /\ running \in BOOLEAN
    /\ state \in [Streams -> Nat]
    /\ end_lsn \in Nat /\ committed_lsn \in Nat /\ flushed_lsn \in Nat
    /\ last_processed_lsn \in Nat /\ last_fully_processed_lsn \in Nat
    /\ processed_advances \in Nat
    /\ received_first_message \in BOOLEAN
    /\ emitted \subseteq DOMAIN wal
    /\ pipe \in Seq([lsn : Bookmarks, rows : SUBSET DOMAIN wal])
    /\ file \in Bookmarks
    /\ durable \subseteq DOMAIN wal
    /\ interruptions \in Nat

Wanted(i) == wal[i].stream \in Streams

\* Every session change whose transaction committed below pos is in rows.
Covered(rows, pos) == \A i \in DOMAIN wal : Wanted(i) /\ wal[i].commit < pos => i \in rows

\* No change is lost: whatever crashes now, a change of a session stream that
\* the target has not stored belongs to a transaction the server will send
\* again to a run started from the state file (start_lsn, flush control).
NoLoss == Covered(durable, Larger(CommittedMinLsn(file), confirmed))

\* A STATE message never runs ahead of the RECORDs before it: once the target
\* has stored what precedes it, it has every change committed below the lowest
\* bookmark (record_processed, finalize).
StateIsBacked ==
    \A k \in DOMAIN pipe : Covered(durable \cup pipe[k].rows, CommittedMinLsn(pipe[k].lsn))

\* The slot is never flushed past what the state file says the target has
\* committed, not even to a position the tap has read in an earlier one.
FlushOnlyCommitted == [][confirmed' # confirmed => confirmed' <= CommittedMinLsn(file)]_vars

\* The session implements the abstract feed.
Feed == INSTANCE ResumableFeed WITH
    log <- [i \in DOMAIN wal |-> [commit |-> wal[i].commit, wanted |-> Wanted(i)]],
    resume <- CommittedMinLsn(file),
    trimmed <- confirmed
ImplementsFeed == Feed!Spec

\* Every committed change of a session stream is at last stored by the target,
\* however many runs that takes.
EventuallyDurable ==
    \A i \in 1 .. MaxChanges : (i \in DOMAIN wal /\ Wanted(i)) ~> (i \in durable)

\* Every run ends.
EveryRunEnds == running ~> ~running
=============================================================================
