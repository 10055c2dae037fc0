--------------------------- MODULE DovetailProofs ---------------------------
(***************************************************************************)
(* How the initial copy of a LOG_BASED stream hands over to the WAL, for   *)
(* any number of streams and every bound: a copy is made once, and when    *)
(* runs break at the end LSN and copies read the primary, no change of a   *)
(* copied stream is ever neither stored nor still to come.                 *)
(***************************************************************************)
EXTENDS SyncRunsProofs

-----------------------------------------------------------------------------
(***************************************************************************)
(* The timeline of state objects: the state file first, then the STATE     *)
(* messages on their way, and the state object of the run last.  A failure *)
(* makes the run go on from any of them but the last, so the invariants    *)
(* say of each what a run may rely on that starts from it.                 *)
(***************************************************************************)

Last == IF phase = "idle" THEN Len(pipe) ELSE Len(pipe) + 1

StateAt(k) == IF k = 0 THEN file ELSE IF k <= Len(pipe) THEN pipe[k].state ELSE state

BookmarkAt(k, s) == StateAt(k).bookmarks[s]

RowsAt(j) == IF j <= Len(pipe) THEN pipe[j].rows ELSE rows

\* What the target has stored when it has handled the messages up to k.
StoredAt(k) == durable \cup UNION {RowsAt(j) : j \in 1 .. k}

Missing(s, k) == {i \in 1 .. Len(log) : log[i] = s /\ i \notin StoredAt(k)}

LEMMA Appended ==
    ASSUME NEW S, NEW q \in Seq(S), NEW x
    PROVE  /\ Len(Append(q, x)) = Len(q) + 1 /\ Len(q) \in Nat
           /\ Append(q, x)[Len(q) + 1] = x
           /\ \A j \in 1 .. Len(q) : Append(q, x)[j] = q[j]
<1>1. q \in Seq(S \cup {x})
  <2>1. \A j \in 1 .. Len(q) : q[j] \in S \cup {x}
    OBVIOUS
  <2> QED BY <2>1
<1> QED BY <1>1

LEMMA TimelineType ==
    ASSUME DataOK
    PROVE  /\ Len(pipe) \in Nat /\ Last \in Nat /\ Len(pipe) <= Last
           /\ phase = "idle" => Last = Len(pipe)
           /\ phase # "idle" => Last = Len(pipe) + 1
           /\ pipe = << >> => Len(pipe) = 0
           /\ pipe # << >> => Len(pipe) > 0
BY DEF DataOK, Last

LEMMA StateAtType ==
    ASSUME DataOK, NEW k \in 0 .. Last
    PROVE  StateAt(k) \in States(WalEnd)
<1>1. k \in Nat /\ Len(pipe) \in Nat
  BY TimelineType
<1>2. CASE k \in 1 .. Len(pipe)
  <2>1. pipe[k] \in Message(WalEnd)
    BY <1>2 DEF DataOK
  <2> QED BY <1>2, <2>1 DEF StateAt, Message
<1>3. CASE k \notin 1 .. Len(pipe)
  BY <1>1, <1>3 DEF StateAt, DataOK
<1> QED BY <1>2, <1>3

LEMMA BookmarkAtType ==
    ASSUME DataOK, NEW k \in 0 .. Last, NEW s \in Streams
    PROVE  BookmarkAt(k, s) \in SoundBookmark(WalEnd)
BY StateAtType DEF BookmarkAt, States

LEMMA Ends ==
    ASSUME DataOK
    PROVE  /\ \A s \in Streams : BookmarkAt(0, s) = file.bookmarks[s]
           /\ phase # "idle" => \A s \in Streams : BookmarkAt(Last, s) = state.bookmarks[s]
           /\ StoredAt(0) = durable
           /\ phase # "idle" => StoredAt(Last) = StoredAt(Len(pipe)) \cup rows
<1>1. Len(pipe) \in Nat /\ (phase # "idle" => Last = Len(pipe) + 1)
  BY TimelineType
<1>2. StoredAt(0) = durable
  BY DEF StoredAt
<1>3. ASSUME phase # "idle"
      PROVE  StoredAt(Last) = StoredAt(Len(pipe)) \cup rows
  <2>1. \A j \in 1 .. Last : j \in 1 .. Len(pipe) \/ j = Last
    BY <1>1, <1>3
  <2>2. \A j \in 1 .. Len(pipe) : j \in 1 .. Last
    BY <1>1, <1>3
  <2>3. RowsAt(Last) = rows /\ Last \in 1 .. Last
    BY <1>1, <1>3 DEF RowsAt
  <2>4. StoredAt(Last) \subseteq StoredAt(Len(pipe)) \cup rows
    BY <2>1, <2>3 DEF StoredAt
  <2>5. StoredAt(Len(pipe)) \cup rows \subseteq StoredAt(Last)
    BY <2>2, <2>3 DEF StoredAt
  <2> QED BY <2>4, <2>5
<1>4. phase # "idle" => StateAt(Last) = state
  BY <1>1 DEF StateAt
<1> QED BY <1>2, <1>3, <1>4 DEF BookmarkAt, StateAt

\* A later state object has more stored before it.
LEMMA StoredGrows ==
    ASSUME NEW j \in Nat, NEW k \in Nat, j <= k
    PROVE  /\ StoredAt(j) \subseteq StoredAt(k)
           /\ durable \subseteq StoredAt(k)
           /\ \A s \in Streams : Missing(s, k) \subseteq Missing(s, j)
<1>1. 1 .. j \subseteq 1 .. k
  OBVIOUS
<1>2. StoredAt(j) \subseteq StoredAt(k) /\ durable \subseteq StoredAt(k)
  BY <1>1 DEF StoredAt
<1> QED BY <1>2 DEF Missing

\* Steps leave the objects alone that are on their way or in the file.
LEMMA PastStays ==
    ASSUME DataOK, UNCHANGED <<file, durable>>,
           pipe' = pipe \/ \E st, r : EmitState(st, r),
           NEW k \in 0 .. Len(pipe)
    PROVE  /\ \A s \in Streams : BookmarkAt(k, s)' = BookmarkAt(k, s)
           /\ StoredAt(k)' = StoredAt(k)
<1>1. pipe \in Seq(Message(WalEnd)) /\ Len(pipe) \in Nat
  BY TimelineType DEF DataOK
<1>2. /\ Len(pipe') \in Nat /\ Len(pipe) <= Len(pipe')
      /\ \A j \in 1 .. Len(pipe) : pipe'[j] = pipe[j]
  <2>1. CASE pipe' = pipe
    BY <1>1, <2>1
  <2>2. ASSUME NEW st, NEW r, EmitState(st, r)
        PROVE  /\ Len(pipe') \in Nat /\ Len(pipe) <= Len(pipe')
               /\ \A j \in 1 .. Len(pipe) : pipe'[j] = pipe[j]
    BY <1>1, <2>2, Appended DEF EmitState
  <2> QED BY <2>1, <2>2
<1>3. \A j \in 1 .. k : RowsAt(j)' = RowsAt(j)
  BY <1>1, <1>2 DEF RowsAt
<1>4. StoredAt(k)' = StoredAt(k)
  BY <1>3 DEF StoredAt
<1>5. StateAt(k)' = StateAt(k)
  BY <1>1, <1>2 DEF StateAt
<1> QED BY <1>4, <1>5 DEF BookmarkAt

\* A STATE message takes the place after them.
LEMMA Emitted ==
    ASSUME DataOK, UNCHANGED <<file, durable>>, NEW st, NEW r, EmitState(st, r),
           NEW n, n = Len(pipe) + 1
    PROVE  /\ Len(pipe') = n
           /\ \A s \in Streams : BookmarkAt(n, s)' = st.bookmarks[s]
           /\ StoredAt(n)' = StoredAt(Len(pipe)) \cup r
<1>1. pipe \in Seq(Message(WalEnd)) /\ Len(pipe) \in Nat /\ n \in Nat
  BY TimelineType DEF DataOK
<1>2. /\ Len(pipe') = n /\ pipe'[n] = [state |-> st, rows |-> r]
      /\ \A j \in 1 .. Len(pipe) : pipe'[j] = pipe[j]
  BY <1>1, Appended DEF EmitState
<1>3. \A j \in 1 .. Len(pipe) : RowsAt(j)' = RowsAt(j)
  BY <1>1, <1>2 DEF RowsAt
<1>4. RowsAt(n)' = r /\ n \in 1 .. n
  BY <1>1, <1>2 DEF RowsAt
<1>5. \A j \in 1 .. n : j \in 1 .. Len(pipe) \/ j = n
  BY <1>1
<1>6. \A j \in 1 .. Len(pipe) : j \in 1 .. n
  BY <1>1
<1>7. StoredAt(n)' \subseteq StoredAt(Len(pipe)) \cup r
  BY <1>3, <1>4, <1>5 DEF StoredAt
<1>8. StoredAt(Len(pipe)) \cup r \subseteq StoredAt(n)'
  BY <1>3, <1>4, <1>6 DEF StoredAt
<1>9. StateAt(n)' = st
  BY <1>1, <1>2 DEF StateAt
<1> QED BY <1>2, <1>7, <1>8, <1>9 DEF BookmarkAt

\* The target has handled a message: every object comes one place forward.
LEMMA Forward ==
    ASSUME DataOK, TargetCommit
    PROVE  /\ Last' = Last - 1 /\ Last > 0
           /\ \A k \in 0 .. Last' : /\ \A s \in Streams : BookmarkAt(k, s)' = BookmarkAt(k + 1, s)
                                   /\ StoredAt(k)' = StoredAt(k + 1)
<1>1. /\ pipe \in Seq(Message(WalEnd)) /\ Len(pipe) \in Nat /\ Len(pipe) > 0
      /\ UNCHANGED <<phase, state, rows>> /\ durable' = durable \cup Head(pipe).rows
      /\ file' = Head(pipe).state /\ pipe' = Tail(pipe)
  BY TimelineType DEF DataOK, TargetCommit, process
<1>2. /\ Len(pipe') = Len(pipe) - 1 /\ Head(pipe) = pipe[1]
      /\ \A j \in 1 .. Len(pipe) - 1 : pipe'[j] = pipe[j + 1]
  BY <1>1
<1>3. Last' = Last - 1 /\ Last > 0 /\ Last \in Nat
  BY <1>1, <1>2 DEF Last
<1>4. \A j \in Nat \ {0} : RowsAt(j)' = RowsAt(j + 1)
  BY <1>1, <1>2 DEF RowsAt
<1>5. RowsAt(1) = Head(pipe).rows
  BY <1>1, <1>2 DEF RowsAt
<1>6. ASSUME NEW k \in Nat
      PROVE  StoredAt(k)' = StoredAt(k + 1)
  <2>1. \A j \in 1 .. k + 1 : j = 1 \/ (j - 1 \in 1 .. k /\ RowsAt(j) = RowsAt(j - 1)')
    BY <1>4
  <2>2. \A j \in 1 .. k : j + 1 \in 1 .. k + 1 /\ RowsAt(j)' = RowsAt(j + 1)
    BY <1>4
  <2>3. StoredAt(k)' \subseteq StoredAt(k + 1)
    BY <1>1, <1>5, <2>2 DEF StoredAt
  <2>4. StoredAt(k + 1) \subseteq StoredAt(k)'
    BY <1>1, <1>5, <2>1 DEF StoredAt
  <2> QED BY <2>3, <2>4
<1>7. \A k \in Nat : StateAt(k)' = StateAt(k + 1)
  BY <1>1, <1>2 DEF StateAt
<1> QED BY <1>3, <1>6, <1>7 DEF BookmarkAt

LEMMA StoredNext ==
    ASSUME NEW k \in Nat
    PROVE  /\ StoredAt(k + 1) = StoredAt(k) \cup RowsAt(k + 1)
           /\ StoredAt(k + 1)' = StoredAt(k)' \cup RowsAt(k + 1)'
<1>1. 1 .. k + 1 = (1 .. k) \cup {k + 1}
  OBVIOUS
<1> QED BY <1>1 DEF StoredAt

\* A step within a run changes the state object of the run, and may emit it.
\* r is what the run has written since the last message, the step included.
LEMMA RunGoesOn ==
    ASSUME DataOK, phase # "idle", phase' # "idle", UNCHANGED <<file, durable>>,
           NEW r, \/ pipe' = pipe /\ rows' = r
                  \/ EmitState(state', r) /\ rows' = {},
           NEW k \in 0 .. Last'
    PROVE  \/ /\ k \in 0 .. Len(pipe) /\ k \in 0 .. Last
              /\ \A s \in Streams : BookmarkAt(k, s)' = BookmarkAt(k, s)
              /\ StoredAt(k)' = StoredAt(k)
           \/ /\ k >= Last
              /\ \A s \in Streams : BookmarkAt(k, s)' = state'.bookmarks[s]
              /\ StoredAt(k)' = StoredAt(Len(pipe)) \cup r
<1> PICK n : n = Len(pipe)
  OBVIOUS
<1>1. n \in Nat /\ Last = n + 1 /\ pipe \in Seq(Message(WalEnd))
  BY TimelineType DEF DataOK
<1>2. Last' = Len(pipe') + 1
  BY DEF Last
<1>3. CASE k \in 0 .. n
  BY <1>1, <1>3, PastStays
<1>4. StoredAt(n)' = StoredAt(n)
  BY <1>1, PastStays
<1>5. CASE k > n /\ pipe' = pipe /\ rows' = r
  <2>1. k = n + 1 /\ k \in Nat
    BY <1>1, <1>2, <1>5
  <2>2. StateAt(k)' = state' /\ RowsAt(k)' = r
    BY <1>1, <1>5, <2>1 DEF StateAt, RowsAt
  <2>3. StoredAt(k)' = StoredAt(n) \cup r
    BY <1>1, <1>4, <2>1, <2>2, StoredNext
  <2> QED BY <1>1, <2>1, <2>2, <2>3 DEF BookmarkAt
<1>6. CASE k > n /\ EmitState(state', r) /\ rows' = {}
  <2>1. /\ Len(pipe') = n + 1
        /\ \A s \in Streams : BookmarkAt(n + 1, s)' = state'.bookmarks[s]
        /\ StoredAt(n + 1)' = StoredAt(n) \cup r
    <3>1. n + 1 = Len(pipe) + 1
      OBVIOUS
    <3> QED BY <1>6, <3>1, Emitted
  <2>2. k = n + 1 \/ k = n + 2
    BY <1>1, <1>2, <1>6, <2>1
  <2>3. CASE k = n + 1
    BY <1>1, <2>1, <2>3
  <2>4. CASE k = n + 2
    <3>1. StateAt(k)' = state' /\ RowsAt(k)' = {} /\ k = (n + 1) + 1 /\ n + 1 \in Nat
      BY <1>1, <1>6, <2>1, <2>4 DEF StateAt, RowsAt
    <3>2. StoredAt(k)' = StoredAt(n) \cup r
      BY <2>1, <3>1, StoredNext
    <3> QED BY <1>1, <2>4, <3>1, <3>2 DEF BookmarkAt
  <2> QED BY <2>2, <2>3, <2>4
<1> QED BY <1>1, <1>2, <1>3, <1>5, <1>6

\* The end of a run emits its last state object.
LEMMA RunEnds ==
    ASSUME DataOK, phase # "idle", phase' = "idle", UNCHANGED <<file, durable>>,
           NEW st, NEW r, EmitState(st, r),
           NEW k \in 0 .. Last'
    PROVE  /\ Last' = Last
           /\ \/ /\ k \in 0 .. Len(pipe) /\ k \in 0 .. Last /\ k < Last
                 /\ \A s \in Streams : BookmarkAt(k, s)' = BookmarkAt(k, s)
                 /\ StoredAt(k)' = StoredAt(k)
              \/ /\ k = Last
                 /\ \A s \in Streams : BookmarkAt(k, s)' = st.bookmarks[s]
                 /\ StoredAt(k)' = StoredAt(Len(pipe)) \cup r
<1> PICK n : n = Len(pipe)
  OBVIOUS
<1>1. n \in Nat /\ Last = n + 1
  BY TimelineType DEF DataOK
<1>2. n + 1 = Len(pipe) + 1
  OBVIOUS
<1>3. /\ Len(pipe') = n + 1
      /\ \A s \in Streams : BookmarkAt(n + 1, s)' = st.bookmarks[s]
      /\ StoredAt(n + 1)' = StoredAt(n) \cup r
  BY <1>2, Emitted
<1>4. Last' = n + 1
  BY <1>3 DEF Last
<1>5. CASE k \in 0 .. n
  BY <1>1, <1>4, <1>5, PastStays
<1>6. CASE k = n + 1
  BY <1>1, <1>3, <1>4, <1>6
<1> QED BY <1>1, <1>4, <1>5, <1>6

-----------------------------------------------------------------------------
(***************************************************************************)
(* A copy is made once.  Along the timeline a stream that the catalog has  *)
(* as LOG_BASED stays copied once it is.  A step that writes a bookmark    *)
(* keeps that because the plan of the run gives a copied stream to the     *)
(* session, and no strategy but that one touches it.                       *)
(***************************************************************************)

LogBased(s) == catalog[s].method = "LOG_BASED"

Copied(k, s) == BookmarkAt(k, s).copied

\* The bookmark of a copied stream is the session's.
Marked(b) ==
    b.copied => b.last_replication_method = "LOG_BASED" /\ b.lsn # None /\ ~b.xmin

AllMarked == \A k \in 0 .. Last, s \in Streams : Marked(BookmarkAt(k, s))

AllKept ==
    \A s \in Streams, k \in 0 .. Last : \A j \in 0 .. k :
        LogBased(s) /\ Copied(j, s) => Copied(k, s)

\* Streams a run copies are not copied, nor those it will not stream, and the
\* session's streams were copied when the run started or are not at all.
PlanKept ==
    phase # "idle" =>
        \A s \in Streams :
            /\ s \in session /\ state.bookmarks[s].copied => file.bookmarks[s].copied
            /\ \/ s \in todo
               \/ catalog[s] # NotSelected /\ ~LogBased(s)
               \/ phase = "logical" /\ ~LogBased(s)
               => ~state.bookmarks[s].copied

\* Only a session has written changes that no STATE message follows yet.
RowsOK == phase # "logical" => rows = {}

CopyInv == AllMarked /\ AllKept /\ PlanKept /\ RowsOK

\* What a step within a run has to establish.
LEMMA CopyRunGoesOn ==
    ASSUME IInv, CopyInv, phase # "idle", phase' # "idle",
           UNCHANGED <<catalog, file, durable>>,
           NEW r, \/ pipe' = pipe /\ rows' = r
                  \/ EmitState(state', r) /\ rows' = {},
           \A s \in Streams : /\ Marked(state'.bookmarks[s])
                              /\ LogBased(s) /\ state.bookmarks[s].copied
                                 => state'.bookmarks[s].copied,
           PlanKept', RowsOK'
    PROVE  CopyInv'
<1>1. DataOK /\ Last \in Nat /\ Len(pipe) \in Nat /\ Last = Len(pipe) + 1
  BY TimelineType DEF IInv
<1>2. \A s \in Streams : BookmarkAt(Last, s) = state.bookmarks[s]
  BY <1>1, Ends
<1>3. AllMarked'
  <2> SUFFICES ASSUME NEW k \in 0 .. Last', NEW s \in Streams
               PROVE  Marked(BookmarkAt(k, s))'
    BY DEF AllMarked
  <2>1. CASE k \in 0 .. Last /\ BookmarkAt(k, s)' = BookmarkAt(k, s)
    BY <2>1 DEF CopyInv, AllMarked, Marked
  <2>2. CASE BookmarkAt(k, s)' = state'.bookmarks[s]
    BY <2>2 DEF Marked
  <2> QED BY <1>1, <2>1, <2>2, RunGoesOn
<1>4. AllKept'
  <2> SUFFICES ASSUME NEW s \in Streams, NEW k \in 0 .. Last', NEW j \in 0 .. k,
                      LogBased(s), Copied(j, s)'
               PROVE  Copied(k, s)'
    BY DEF AllKept, LogBased
  <2>1. j \in 0 .. Last'
    BY DEF Last
  <2>2. CASE j \in 0 .. Len(pipe) /\ j \in 0 .. Last /\ BookmarkAt(j, s)' = BookmarkAt(j, s)
    <3>1. Copied(j, s)
      BY <2>2 DEF Copied
    <3>2. CASE k \in 0 .. Last /\ BookmarkAt(k, s)' = BookmarkAt(k, s)
      BY <3>1, <3>2 DEF CopyInv, AllKept, Copied
    <3>3. CASE BookmarkAt(k, s)' = state'.bookmarks[s]
      <4>1. Last \in 0 .. Last /\ j \in 0 .. Last
        BY <1>1, <2>2
      <4>2. Copied(Last, s)
        BY <3>1, <4>1 DEF CopyInv, AllKept
      <4> QED BY <1>2, <3>3, <4>2 DEF Copied
    <3> QED BY <1>1, <3>2, <3>3, RunGoesOn
  <2>3. CASE j >= Last /\ BookmarkAt(j, s)' = state'.bookmarks[s]
    <3>1. ~ (k \in 0 .. Len(pipe))
      BY <1>1, <2>3
    <3>2. BookmarkAt(k, s)' = state'.bookmarks[s]
      BY <1>1, <3>1, RunGoesOn
    <3> QED BY <2>3, <3>2 DEF Copied
  <2> QED BY <1>1, <2>1, <2>2, <2>3, RunGoesOn
<1> QED BY <1>3, <1>4 DEF CopyInv

\* What the steps of a copy do to the bookmarks.
LEMMA StartStreamWrites ==
    ASSUME IInv, StartStream, NEW s, s = NextStream
    PROVE  /\ s \in todo /\ s \in Streams
           /\ \A t \in Streams \ {s} : state'.bookmarks[t] = state.bookmarks[t]
           /\ state'.bookmarks[s].copied = state.bookmarks[s].copied
           /\ state'.bookmarks[s].xmin = state.bookmarks[s].xmin
           /\ state'.bookmarks[s].last_replication_method = catalog[s].method
           /\ state.bookmarks[s].last_replication_method = catalog[s].method
           /\ state'.bookmarks[s].lsn =
                 IF LogBased(s) /\ state.bookmarks[s].lsn = None THEN end_lsn
                 ELSE state.bookmarks[s].lsn
<1> DEFINE b == state.bookmarks[s]
           c == Prepared(b, catalog[s])
<1>1. phase = "traditional" /\ todo # {} /\ s \in todo /\ s \in Streams
  BY NextIsTodo DEF StartStream, IInv
<1>2. b \in Bookmark /\ state \in States(WalEnd) /\ PlannedFor(b, catalog[s])
  BY <1>1 DEF IInv, DataOK, States, SoundBookmark, TodoOK
<1>3. state' = [state EXCEPT !.currently_syncing = s, !.bookmarks[s] = c]
  BY DEF StartStream
<1>4. /\ catalog[s] \in Entries
      /\ catalog[s].method \in {"FULL_TABLE", "INCREMENTAL", "LOG_BASED"}
  BY <1>1, <1>2, MethodsAssumption DEF IInv, DataOK, Entries, PlannedFor, NotSelected
<1> HIDE DEF b
<1>5. /\ c.copied = b.copied /\ c.xmin = b.xmin
      /\ c.last_replication_method = b.last_replication_method
      /\ c.lsn = IF LogBased(s) /\ b.lsn = None THEN end_lsn ELSE b.lsn
  <2>1. CASE catalog[s].method = "FULL_TABLE"
    BY <1>2, <2>1 DEF Prepared, Bookmark, LogBased
  <2>2. CASE catalog[s].method = "INCREMENTAL"
    BY <1>2, <2>2 DEF Prepared, Bookmark, LogBased
  <2>3. CASE catalog[s].method = "LOG_BASED"
    BY <1>2, <2>3 DEF Prepared, Bookmark, LogBased
  <2> QED BY <1>4, <2>1, <2>2, <2>3
<1> HIDE DEF c
<1>6. state'.bookmarks = [state.bookmarks EXCEPT ![s] = c]
  BY <1>2, <1>3 DEF States
<1>7. /\ state'.bookmarks[s] = c
      /\ \A t \in Streams \ {s} : state'.bookmarks[t] = state.bookmarks[t]
  BY <1>1, <1>2, <1>6 DEF States
<1> QED BY <1>1, <1>2, <1>5, <1>7 DEF b, PlannedFor

LEMMA CopySomeWrites ==
    ASSUME IInv, CopySome, NEW s, s = NextStream
    PROVE  /\ s \in todo /\ s \in Streams
           /\ \A t \in Streams \ {s} : state'.bookmarks[t] = state.bookmarks[t]
           /\ state'.bookmarks[s].copied = state.bookmarks[s].copied
           /\ state'.bookmarks[s].lsn = state.bookmarks[s].lsn
<1> DEFINE b == state.bookmarks[s]
           c == IF catalog[s].method = "INCREMENTAL"
                THEN [b EXCEPT !.replication_key_value = catalog[s].key]
                ELSE [b EXCEPT !.xmin = TRUE]
<1>1. phase = "copying" /\ s \in todo /\ s \in Streams
  BY NextIsTodo DEF CopySome, IInv, CopyOK
<1>2. b \in Bookmark /\ state \in States(WalEnd)
  BY <1>1 DEF IInv, DataOK, States, SoundBookmark
<1>3. state' = [state EXCEPT !.bookmarks[s] = c]
  BY DEF CopySome
<1> HIDE DEF b
<1>4. c.copied = b.copied /\ c.lsn = b.lsn
  BY <1>2 DEF Bookmark
<1> HIDE DEF c
<1>5. state'.bookmarks = [state.bookmarks EXCEPT ![s] = c]
  BY <1>2, <1>3 DEF States
<1>6. /\ state'.bookmarks[s] = c
      /\ \A t \in Streams \ {s} : state'.bookmarks[t] = state.bookmarks[t]
  BY <1>1, <1>2, <1>5 DEF States
<1> QED BY <1>1, <1>4, <1>6 DEF b

LEMMA FinishStreamWrites ==
    ASSUME IInv, FinishStream, NEW s, s = NextStream
    PROVE  /\ s \in todo /\ s \in Streams
           /\ \A t \in Streams \ {s} : state'.bookmarks[t] = state.bookmarks[t]
           /\ state'.bookmarks[s].copied <=> state.bookmarks[s].copied \/ LogBased(s)
           /\ state'.bookmarks[s].lsn = state.bookmarks[s].lsn
           /\ ~state'.bookmarks[s].xmin
           /\ state'.bookmarks[s].last_replication_method = catalog[s].method
           /\ LogBased(s) => state.bookmarks[s].lsn # None
<1> DEFINE b == state.bookmarks[s]
           c == [b EXCEPT !.xmin = FALSE, !.copied = @ \/ catalog[s].method = "LOG_BASED"]
<1>1. phase = "copying" /\ s \in todo /\ s \in Streams
  BY NextIsTodo DEF FinishStream, IInv, CopyOK
<1>2. /\ b \in Bookmark /\ state \in States(WalEnd)
      /\ PlannedFor(b, catalog[s]) /\ Started(b, catalog[s])
  BY <1>1 DEF IInv, DataOK, States, SoundBookmark, TodoOK, CopyOK
<1>3. state' = [state EXCEPT !.currently_syncing = None, !.bookmarks[s] = c]
  BY <1>1, <1>2 DEF FinishStream, States
<1> HIDE DEF b
<1>4. /\ c.copied <=> b.copied \/ LogBased(s)
      /\ c.lsn = b.lsn /\ ~c.xmin /\ c.last_replication_method = b.last_replication_method
  BY <1>2 DEF Bookmark, LogBased
<1> HIDE DEF c
<1>5. state'.bookmarks = [state.bookmarks EXCEPT ![s] = c]
  BY <1>2, <1>3 DEF States
<1>6. /\ state'.bookmarks[s] = c
      /\ \A t \in Streams \ {s} : state'.bookmarks[t] = state.bookmarks[t]
  BY <1>1, <1>2, <1>5 DEF States
<1> QED BY <1>1, <1>2, <1>4, <1>6 DEF b, PlannedFor, Started, LogBased

\* What the start of a session does to them.
LEMMA StartSessionWrites ==
    ASSUME IInv, StartSession, NEW s \in Streams
    PROVE  state'.bookmarks[s] = IF catalog[s] = NotSelected /\ state.bookmarks[s].lsn # None
                                 THEN NoBookmark ELSE state.bookmarks[s]
<1>1. state \in States(WalEnd)
  BY DEF IInv, DataOK
<1>2. state'.bookmarks = DropDeselected(state.bookmarks)
  BY <1>1 DEF StartSession, States
<1> QED BY <1>2 DEF DropDeselected

\* What the messages of a session do to them: at every position the session
\* writes, nothing but the lsn of its streams changes.
LEMMA WrittenAll ==
    ASSUME IInv, phase = "logical", NEW l \in 1 .. WalEnd, NEW s \in Streams
    PROVE  LET b == state.bookmarks[s]
               c == WriteAllBookmarks(l).bookmarks[s]
           IN  /\ c.copied = b.copied /\ c.xmin = b.xmin
               /\ c.last_replication_method = b.last_replication_method
               /\ c.lsn = IF s \in session THEN l ELSE b.lsn
<1> DEFINE b == state.bookmarks[s]
           c == WriteAllBookmarks(l).bookmarks[s]
<1>1. state \in States(WalEnd) /\ b \in Bookmark
  BY DEF IInv, DataOK, States, SoundBookmark
<1>2. c = IF s \in session THEN [b EXCEPT !.lsn = l] ELSE b
  BY <1>1 DEF WriteAllBookmarks, States
<1> HIDE DEF b, c
<1>3. /\ c.copied = b.copied /\ c.xmin = b.xmin
      /\ c.last_replication_method = b.last_replication_method
      /\ c.lsn = IF s \in session THEN l ELSE b.lsn
  BY <1>1, <1>2 DEF Bookmark
<1> QED BY <1>3 DEF b, c

LEMMA SessionReadsWrites ==
    ASSUME IInv, SessionReads, NEW i, i = Min(Upcoming)
    PROVE  /\ i \in 1 .. Len(log) /\ position < i /\ log[i] \in session /\ log[i] \in Streams
           /\ \A j \in 1 .. Len(log) : log[j] \in session /\ position < j => i <= j
           /\ \A s \in Streams :
                 /\ state'.bookmarks[s].copied = state.bookmarks[s].copied
                 /\ state'.bookmarks[s].xmin = state.bookmarks[s].xmin
                 /\ state'.bookmarks[s].last_replication_method
                      = state.bookmarks[s].last_replication_method
                 /\ \/ state'.bookmarks[s].lsn = state.bookmarks[s].lsn
                    \/ s \in session /\ state'.bookmarks[s].lsn \in {i, last_processed_lsn} \ {None}
<1>1. /\ phase = "logical" /\ Upcoming # {}
      /\ state \in States(WalEnd) /\ WalEnd = Len(log) + 1 /\ Len(log) \in Nat
      /\ session \subseteq Streams /\ position \in Nat /\ last_processed_lsn \in 0 .. Len(log)
  BY LogType DEF IInv, DataOK, PositionOK, WalEnd, SessionReads
<1>2. Upcoming \in SUBSET Nat /\ Upcoming \subseteq 1 .. Len(log)
  BY <1>1 DEF Upcoming
<1>3. i \in Upcoming /\ \A j \in Upcoming : i <= j
  BY <1>1, <1>2, MinOf
<1>4. /\ i \in 1 .. Len(log) /\ position < i /\ log[i] \in session /\ log[i] \in Streams
      /\ \A j \in 1 .. Len(log) : log[j] \in session /\ position < j => i <= j
  BY <1>1, <1>2, <1>3 DEF Upcoming
<1>5. \/ state' = [state EXCEPT !.bookmarks[log[i]].lsn = i]
      \/ last_processed_lsn # None /\ state' = WriteAllBookmarks(last_processed_lsn)
  BY DEF SessionReads
<1>6. ASSUME NEW s \in Streams
      PROVE  /\ state'.bookmarks[s].copied = state.bookmarks[s].copied
             /\ state'.bookmarks[s].xmin = state.bookmarks[s].xmin
             /\ state'.bookmarks[s].last_replication_method
                  = state.bookmarks[s].last_replication_method
             /\ \/ state'.bookmarks[s].lsn = state.bookmarks[s].lsn
                \/ s \in session /\ state'.bookmarks[s].lsn \in {i, last_processed_lsn} \ {None}
  <2> DEFINE b == state.bookmarks[s]
             c == state'.bookmarks[s]
  <2>1. CASE state' = [state EXCEPT !.bookmarks[log[i]].lsn = i]
    <3>1. c = IF s = log[i] THEN [b EXCEPT !.lsn = i] ELSE b
      BY <1>1, <1>4, <2>1 DEF States
    <3>2. b \in Bookmark /\ i # None
      BY <1>1, <1>4 DEF States, SoundBookmark, None
    <3> HIDE DEF b, c
    <3>3. /\ c.copied = b.copied /\ c.xmin = b.xmin
          /\ c.last_replication_method = b.last_replication_method
          /\ c.lsn = IF s = log[i] THEN i ELSE b.lsn
      BY <3>1, <3>2 DEF Bookmark
    <3> QED BY <1>4, <3>2, <3>3 DEF b, c
  <2>2. CASE last_processed_lsn # None /\ state' = WriteAllBookmarks(last_processed_lsn)
    <3>1. last_processed_lsn \in 1 .. WalEnd
      BY <1>1, <2>2 DEF None
    <3> QED BY <1>1, <2>2, <3>1, WrittenAll
  <2> QED BY <1>5, <2>1, <2>2
<1> QED BY <1>4, <1>6

-----------------------------------------------------------------------------
(***************************************************************************)
(* The steps.                                                              *)
(***************************************************************************)

\* The run's own state object is on the timeline.
LEMMA MarkedNow ==
    ASSUME IInv, CopyInv, phase # "idle"
    PROVE  \A s \in Streams : Marked(state.bookmarks[s])
<1>1. DataOK /\ Last \in 0 .. Last
  BY TimelineType DEF IInv
<1> QED BY <1>1, Ends DEF CopyInv, AllMarked

LEMMA CopyInit == Init => CopyInv
<1> SUFFICES ASSUME Init PROVE CopyInv
  OBVIOUS
<1>1. Last = 0 /\ StateAt(0) = file /\ phase = "idle"
  BY DEF Init, Last, StateAt
<1>2. \A s \in Streams : ~BookmarkAt(0, s).copied
  BY <1>1 DEF Init, BookmarkAt, NoBookmark
<1> QED BY <1>1, <1>2 DEF Init, CopyInv, AllMarked, AllKept, PlanKept, RowsOK, Marked, Copied

\* Steps that move neither the timeline nor the plan.
LEMMA TimelineStays ==
    ASSUME UNCHANGED <<phase, state, rows, pipe, file, durable>>
    PROVE  /\ Last' = Last
           /\ \A k \in Nat : StoredAt(k)' = StoredAt(k)
           /\ \A k \in Nat : \A s \in Streams : BookmarkAt(k, s)' = BookmarkAt(k, s)
<1>1. Last' = Last /\ (\A k \in Nat : StateAt(k)' = StateAt(k) /\ RowsAt(k)' = RowsAt(k))
  BY DEF Last, StateAt, RowsAt
<1>2. ASSUME NEW k \in Nat PROVE StoredAt(k)' = StoredAt(k)
  BY <1>1 DEF StoredAt
<1> QED BY <1>1, <1>2 DEF BookmarkAt

LEMMA CopyTimelineStays ==
    ASSUME IInv, CopyInv, UNCHANGED <<catalog, phase, state, todo, session, rows, pipe, file, durable>>
    PROVE  CopyInv'
<1>1. /\ Last' = Last /\ Last \in Nat
      /\ \A k \in Nat : \A s \in Streams : BookmarkAt(k, s)' = BookmarkAt(k, s)
  BY TimelineStays, TimelineType DEF IInv
<1>2. AllMarked'
  BY <1>1 DEF CopyInv, AllMarked, Marked
<1>3. AllKept'
  BY <1>1 DEF CopyInv, AllKept, Copied, LogBased
<1>4. PlanKept'
  BY DEF CopyInv, PlanKept, LogBased
<1> QED BY <1>2, <1>3, <1>4 DEF CopyInv, RowsOK

\* Between runs with nothing on its way only the state file counts.
LEMMA CopyIdle ==
    ASSUME IInv, CopyInv, phase' = "idle", pipe' = << >>, UNCHANGED file, rows' = {}
    PROVE  CopyInv'
<1>1. Last' = 0 /\ \A s \in Streams : BookmarkAt(0, s)' = BookmarkAt(0, s)
  BY DEF Last, BookmarkAt, StateAt
<1>2. Last \in Nat
  BY TimelineType DEF IInv
<1>3. \A s \in Streams : Marked(BookmarkAt(0, s))
  BY <1>2 DEF CopyInv, AllMarked
<1>4. AllMarked' /\ AllKept'
  BY <1>1, <1>3 DEF AllMarked, AllKept, Marked, Copied
<1> QED BY <1>4 DEF CopyInv, PlanKept, RowsOK

\* What the plan of a run does to the bookmarks of the state file.
LEMMA StartRunWrites ==
    ASSUME IInv, CopyInv, StartRun, NEW s \in Streams
    PROVE  /\ BookmarkAt(0, s)' = file.bookmarks[s]
           /\ BookmarkAt(1, s)' = state'.bookmarks[s]
           /\ state'.bookmarks[s] = ResetAll(file.bookmarks)[s]
           /\ Marked(file.bookmarks[s]) /\ Marked(state'.bookmarks[s])
           /\ LogBased(s) /\ file.bookmarks[s].copied => state'.bookmarks[s].copied
           /\ state'.bookmarks[s].copied =>
                 file.bookmarks[s].copied /\ state'.bookmarks[s].lsn = file.bookmarks[s].lsn
           /\ catalog[s] # NotSelected /\ state'.bookmarks[s].copied =>
                 LogBased(s) /\ Classify(state'.bookmarks[s]) = "logical"
<1> DEFINE bs == ResetAll(file.bookmarks)
           b  == file.bookmarks[s]
           c  == state'.bookmarks[s]
<1>1. /\ pipe = << >> /\ pipe' = << >> /\ phase = "idle" /\ file' = file
      /\ state' = [file EXCEPT !.bookmarks = bs]
  BY DEF StartRun, downstream
<1>2. file \in States(WalEnd) /\ Last = 0
  BY <1>1 DEF IInv, DataOK, Last
<1>3. c = bs[s]
  BY <1>1, <1>2 DEF States
<1>4. StateAt(0) = file /\ StateAt(0)' = file /\ StateAt(1)' = state'
  BY <1>1 DEF StateAt
<1>5. Marked(b) /\ b \in Bookmark
  BY <1>2, <1>4 DEF CopyInv, AllMarked, BookmarkAt, States, SoundBookmark
<1>6. catalog[s] # NotSelected => catalog[s].method # "none"
  BY MethodsAssumption DEF IInv, DataOK, Entries, NotSelected
<1>7. /\ Marked(c)
      /\ LogBased(s) /\ b.copied => c.copied
      /\ c.copied => b.copied /\ c.lsn = b.lsn
      /\ catalog[s] # NotSelected /\ c.copied => LogBased(s) /\ Classify(c) = "logical"
  <2>1. CASE catalog[s] = NotSelected
    BY <1>3, <1>5, <2>1 DEF ResetAll, NotSelected, LogBased
  <2>2. CASE catalog[s] # NotSelected
    <3> DEFINE kept  == [b EXCEPT !.last_replication_method = catalog[s].method]
               wiped == [NoBookmark EXCEPT !.last_replication_method = catalog[s].method]
    <3>1. c = Reset(b, catalog[s])
      BY <1>3, <2>2 DEF ResetAll
    <3> HIDE DEF b, c
    <3>2. ~wiped.copied
      BY DEF NoBookmark
    <3>3. CASE b.copied
      <4>1. CASE LogBased(s)
        <5>1. c = kept
          BY <1>5, <3>1, <3>3, <4>1 DEF Reset, Marked, LogBased
        <5>2. c.copied /\ c.lsn = b.lsn /\ c.xmin = b.xmin /\ c.last_replication_method = "LOG_BASED"
          BY <1>5, <3>3, <4>1, <5>1 DEF Bookmark, LogBased
        <5> QED BY <1>5, <3>3, <4>1, <5>2 DEF Marked, Classify
      <4>2. CASE ~LogBased(s)
        <5>1. c = wiped
          BY <1>5, <1>6, <2>2, <3>1, <3>3, <4>2 DEF Reset, Marked, LogBased
        <5> QED BY <3>2, <4>2, <5>1 DEF Marked
      <4> QED BY <4>1, <4>2
    <3>4. CASE ~b.copied
      <4>1. ~kept.copied
        BY <1>5, <3>4 DEF Bookmark
      <4>2. ~c.copied
        BY <3>1, <3>2, <4>1 DEF Reset
      <4> QED BY <3>4, <4>2 DEF Marked
    <3> QED BY <3>3, <3>4
  <2> QED BY <2>1, <2>2
<1> QED BY <1>3, <1>4, <1>5, <1>7 DEF BookmarkAt

LEMMA CopyStartRun == ASSUME IInv, CopyInv, StartRun PROVE CopyInv'
<1> DEFINE bs == ResetAll(file.bookmarks)
<1>1. /\ UNCHANGED <<catalog, rows, pipe, file, durable>>
      /\ phase' = "traditional" /\ phase = "idle" /\ pipe = << >>
      /\ session' = LogicalStreams(bs) /\ todo' = TraditionalStreams(bs)
  BY DEF StartRun, downstream
<1>2. Last' = 1
  BY <1>1 DEF Last
<1> HIDE DEF bs
<1>5. AllMarked'
  <2> SUFFICES ASSUME NEW k \in 0 .. 1, NEW s \in Streams PROVE Marked(BookmarkAt(k, s))'
    BY <1>2 DEF AllMarked
  <2> QED BY StartRunWrites DEF Marked
<1>6. AllKept'
  <2> SUFFICES ASSUME NEW s \in Streams, LogBased(s), BookmarkAt(0, s)'.copied
               PROVE  BookmarkAt(1, s)'.copied
    BY <1>1, <1>2 DEF AllKept, Copied, LogBased
  <2> QED BY StartRunWrites
<1>7. PlanKept'
  <2> SUFFICES ASSUME NEW s \in Streams, state'.bookmarks[s].copied
               PROVE  file.bookmarks[s].copied /\ s \notin todo' /\ (catalog[s] # NotSelected => LogBased(s))
    BY <1>1 DEF PlanKept, LogBased
  <2>1. CASE catalog[s] = NotSelected
    BY <1>1, <2>1, StartRunWrites DEF TraditionalStreams
  <2>2. CASE catalog[s] # NotSelected
    <3>1. LogBased(s) /\ Classify(state'.bookmarks[s]) = "logical" /\ state'.bookmarks[s] = bs[s]
      BY <2>2, StartRunWrites DEF bs
    <3>2. s \in LogicalStreams(bs)
      BY <3>1 DEF LogicalStreams, Selected, LogBased
    <3> QED BY <1>1, <3>1, <3>2, StartRunWrites DEF TraditionalStreams
  <2> QED BY <2>1, <2>2
<1> QED BY <1>1, <1>5, <1>6, <1>7 DEF CopyInv, RowsOK

LEMMA CopyStartStream == ASSUME IInv, CopyInv, StartStream PROVE CopyInv'
<1> PICK s : s = NextStream
  OBVIOUS
<1>1. /\ UNCHANGED <<catalog, todo, session, rows, file, durable>>
      /\ phase = "traditional" /\ phase' = "copying" /\ EmitState(state', {})
  BY DEF StartStream, plan
<1>2. rows = {} /\ \A t \in Streams : Marked(state.bookmarks[t])
  BY <1>1, MarkedNow DEF CopyInv, RowsOK
<1>3. ~state.bookmarks[s].copied
  BY <1>1, StartStreamWrites DEF CopyInv, PlanKept
<1>4. \A t \in Streams : /\ Marked(state'.bookmarks[t])
                         /\ state'.bookmarks[t].copied = state.bookmarks[t].copied
  BY <1>2, <1>3, StartStreamWrites DEF Marked
<1>5. PlanKept'
  <2> SUFFICES ASSUME NEW t \in Streams
               PROVE  /\ t \in session /\ state'.bookmarks[t].copied => file.bookmarks[t].copied
                      /\ t \in todo \/ (catalog[t] # NotSelected /\ ~LogBased(t))
                         => ~state'.bookmarks[t].copied
    BY <1>1 DEF PlanKept, LogBased
  <2> QED BY <1>1, <1>4 DEF CopyInv, PlanKept
<1> QED BY <1>1, <1>2, <1>4, <1>5, CopyRunGoesOn DEF RowsOK

LEMMA CopyCopySome == ASSUME IInv, CopyInv, CopySome PROVE CopyInv'
<1> PICK s : s = NextStream
  OBVIOUS
<1>1. /\ UNCHANGED <<catalog, todo, session, rows, file, durable>>
      /\ phase = "copying" /\ phase' = "copying"
      /\ EmitState(state', {}) \/ pipe' = pipe
  BY DEF CopySome, plan
<1>2. rows = {} /\ \A t \in Streams : Marked(state.bookmarks[t])
  BY <1>1, MarkedNow DEF CopyInv, RowsOK
<1>3. ~state.bookmarks[s].copied
  BY <1>1, CopySomeWrites DEF CopyInv, PlanKept
<1>4. \A t \in Streams : /\ Marked(state'.bookmarks[t])
                         /\ state'.bookmarks[t].copied = state.bookmarks[t].copied
  BY <1>2, <1>3, CopySomeWrites DEF Marked
<1>5. PlanKept'
  <2> SUFFICES ASSUME NEW t \in Streams
               PROVE  /\ t \in session /\ state'.bookmarks[t].copied => file.bookmarks[t].copied
                      /\ t \in todo \/ (catalog[t] # NotSelected /\ ~LogBased(t))
                         => ~state'.bookmarks[t].copied
    BY <1>1 DEF PlanKept, LogBased
  <2> QED BY <1>1, <1>4 DEF CopyInv, PlanKept
<1> QED BY <1>1, <1>2, <1>4, <1>5, CopyRunGoesOn DEF RowsOK

LEMMA CopyFinishStream == ASSUME IInv, CopyInv, FinishStream PROVE CopyInv'
<1> PICK s : s = NextStream
  OBVIOUS
<1>1. /\ UNCHANGED <<catalog, session, rows, file, durable>> /\ todo' = todo \ {s}
      /\ phase = "copying" /\ phase' = "traditional"
      /\ \E r : EmitState(state', r)
  BY DEF FinishStream
<1>2. rows = {} /\ \A t \in Streams : Marked(state.bookmarks[t])
  BY <1>1, MarkedNow DEF CopyInv, RowsOK
<1>3. s \in todo /\ s \in Streams /\ ~state.bookmarks[s].copied /\ s \notin session
  BY <1>1, FinishStreamWrites DEF CopyInv, PlanKept, IInv, DataOK
<1>4. \A t \in Streams : /\ Marked(state'.bookmarks[t])
                         /\ state.bookmarks[t].copied => state'.bookmarks[t].copied
                         /\ state'.bookmarks[t].copied =>
                               state.bookmarks[t].copied \/ (t = s /\ LogBased(s))
  BY <1>2, <1>3, FinishStreamWrites DEF Marked, LogBased
<1>5. PlanKept'
  <2> SUFFICES ASSUME NEW t \in Streams
               PROVE  /\ t \in session /\ state'.bookmarks[t].copied => file.bookmarks[t].copied
                      /\ t \in todo \ {s} \/ (catalog[t] # NotSelected /\ ~LogBased(t))
                         => ~state'.bookmarks[t].copied
    BY <1>1 DEF PlanKept, LogBased
  <2> QED BY <1>1, <1>3, <1>4 DEF CopyInv, PlanKept
<1>6. PICK r : EmitState(state', r)
  BY <1>1
<1> QED BY <1>1, <1>2, <1>4, <1>5, <1>6, CopyRunGoesOn DEF RowsOK

LEMMA CopyStartSession == ASSUME IInv, CopyInv, StartSession PROVE CopyInv'
<1>1. /\ UNCHANGED <<catalog, todo, session, rows, file, durable, pipe>> /\ todo = {}
      /\ phase = "traditional" /\ phase' = "logical"
  BY DEF StartSession, plan, downstream
<1>2. \A t \in Streams : Marked(state.bookmarks[t])
  BY <1>1, MarkedNow
<1>3. ASSUME NEW t \in Streams
      PROVE  /\ Marked(state'.bookmarks[t])
             /\ state'.bookmarks[t].copied => state.bookmarks[t].copied
             /\ LogBased(t) => state'.bookmarks[t] = state.bookmarks[t]
             /\ catalog[t] = NotSelected => ~state'.bookmarks[t].copied
  BY <1>2, StartSessionWrites DEF Marked, NoBookmark, NotSelected, LogBased
<1>4. PlanKept'
  <2> SUFFICES ASSUME NEW t \in Streams
               PROVE  /\ t \in session /\ state'.bookmarks[t].copied => file.bookmarks[t].copied
                      /\ ~LogBased(t) => ~state'.bookmarks[t].copied
    BY <1>1 DEF PlanKept, LogBased, NotSelected
  <2> QED BY <1>1, <1>3 DEF CopyInv, PlanKept
<1> QED BY <1>1, <1>3, <1>4, CopyRunGoesOn DEF RowsOK

LEMMA CopySessionReads == ASSUME IInv, CopyInv, SessionReads PROVE CopyInv'
<1> PICK i : i = Min(Upcoming)
  OBVIOUS
<1>1. /\ UNCHANGED <<catalog, phase, todo, session, file, durable>> /\ phase = "logical"
      /\ \/ pipe' = pipe /\ rows' = rows \cup {i}
         \/ EmitState(state', rows \cup {i}) /\ rows' = {}
  BY DEF SessionReads, plan
<1>2. \A t \in Streams : Marked(state.bookmarks[t])
  BY <1>1, MarkedNow
<1>3. \A t \in Streams : /\ Marked(state'.bookmarks[t])
                         /\ state'.bookmarks[t].copied = state.bookmarks[t].copied
  BY <1>2, SessionReadsWrites DEF Marked
<1>4. PlanKept'
  <2> SUFFICES ASSUME NEW t \in Streams
               PROVE  /\ t \in session /\ state'.bookmarks[t].copied => file.bookmarks[t].copied
                      /\ \/ t \in todo
                         \/ catalog[t] # NotSelected /\ ~LogBased(t)
                         \/ ~LogBased(t)
                         => ~state'.bookmarks[t].copied
    BY <1>1 DEF PlanKept, LogBased
  <2> QED BY <1>1, <1>3 DEF CopyInv, PlanKept
<1> QED BY <1>1, <1>3, <1>4, CopyRunGoesOn DEF RowsOK

\* The end of a run, which emits st.
LEMMA CopyRunEnds ==
    ASSUME IInv, CopyInv, phase # "idle", phase' = "idle", rows' = {},
           UNCHANGED <<catalog, file, durable>>,
           NEW st, NEW r, EmitState(st, r),
           \A s \in Streams : /\ Marked(st.bookmarks[s])
                              /\ state.bookmarks[s].copied => st.bookmarks[s].copied
    PROVE  CopyInv'
<1>1. DataOK /\ Last \in 0 .. Last /\ Last \in Nat
  BY TimelineType DEF IInv
<1>2. \A s \in Streams : BookmarkAt(Last, s) = state.bookmarks[s]
  BY <1>1, Ends
<1>3. AllMarked'
  <2> SUFFICES ASSUME NEW k \in 0 .. Last', NEW s \in Streams
               PROVE  Marked(BookmarkAt(k, s))'
    BY DEF AllMarked
  <2>1. CASE k \in 0 .. Last /\ BookmarkAt(k, s)' = BookmarkAt(k, s)
    BY <2>1 DEF CopyInv, AllMarked, Marked
  <2>2. CASE BookmarkAt(k, s)' = st.bookmarks[s]
    BY <2>2 DEF Marked
  <2> QED BY <1>1, <2>1, <2>2, RunEnds
<1>4. AllKept'
  <2> SUFFICES ASSUME NEW s \in Streams, NEW k \in 0 .. Last', NEW j \in 0 .. k,
                      LogBased(s), Copied(j, s)'
               PROVE  Copied(k, s)'
    BY DEF AllKept, LogBased
  <2>1. j \in 0 .. Last' /\ Last' \in Nat /\ k <= Last'
    <3>1. Last' = Last
      BY <1>1, RunEnds
    <3> QED BY <1>1, <3>1
  <2>2. CASE j \in 0 .. Last /\ BookmarkAt(j, s)' = BookmarkAt(j, s)
    <3>1. Copied(j, s)
      BY <2>2 DEF Copied
    <3>2. CASE k \in 0 .. Last /\ BookmarkAt(k, s)' = BookmarkAt(k, s)
      BY <3>1, <3>2 DEF CopyInv, AllKept, Copied
    <3>3. CASE BookmarkAt(k, s)' = st.bookmarks[s]
      <4>1. Copied(Last, s)
        BY <1>1, <2>2, <3>1 DEF CopyInv, AllKept
      <4> QED BY <1>2, <3>3, <4>1 DEF Copied
    <3> QED BY <1>1, <3>2, <3>3, RunEnds
  <2>3. CASE j = Last /\ BookmarkAt(j, s)' = st.bookmarks[s]
    <3>1. k = j
      BY <1>1, <2>1, <2>3, RunEnds
    <3> QED BY <3>1
  <2> QED BY <1>1, <2>1, <2>2, <2>3, RunEnds
<1> QED BY <1>3, <1>4 DEF CopyInv, PlanKept, RowsOK

LEMMA CopyFinishRun == ASSUME IInv, CopyInv, FinishRun PROVE CopyInv'
<1>1. /\ phase # "idle" /\ phase' = "idle" /\ rows' = {}
      /\ UNCHANGED <<catalog, file, durable>> /\ EmitState(state, {})
  BY DEF FinishRun, NoProcess
<1> QED BY <1>1, MarkedNow, CopyRunEnds

\* What a session ends with.
FinalLsn == Max({last_fully_processed_lsn, CommittedMinLsn(file.bookmarks)})

FinalState == IF last_fully_processed_lsn = None THEN state ELSE WriteAllBookmarks(FinalLsn)

LEMMA FinalStateWrites ==
    ASSUME IInv, FinishSession
    PROVE  /\ EmitState(FinalState, rows)
           /\ FinalLsn \in {last_fully_processed_lsn, CommittedMinLsn(file.bookmarks)}
           /\ last_fully_processed_lsn # None => FinalLsn # None
           /\ \A s \in Streams :
                /\ FinalState.bookmarks[s].copied = state.bookmarks[s].copied
                /\ FinalState.bookmarks[s].xmin = state.bookmarks[s].xmin
                /\ FinalState.bookmarks[s].last_replication_method
                     = state.bookmarks[s].last_replication_method
                /\ FinalState.bookmarks[s].lsn =
                      IF s \in session /\ last_fully_processed_lsn # None
                      THEN FinalLsn ELSE state.bookmarks[s].lsn
<1>1. EmitState(FinalState, rows) /\ phase = "logical"
  BY DEF FinishSession, FinalState, FinalLsn
<1>2. /\ WalEnd \in Nat /\ WalEnd = Len(log) + 1 /\ Len(log) \in Nat /\ session \subseteq Streams
      /\ file.bookmarks \in [Streams -> SoundBookmark(WalEnd)]
      /\ last_fully_processed_lsn \in 0 .. Len(log)
  BY LogType DEF IInv, DataOK, States, PositionOK, WalEnd
<1>3. CommittedMinLsn(file.bookmarks) \in 0 .. WalEnd
  BY <1>2, CommittedType
<1>4. /\ FinalLsn \in {last_fully_processed_lsn, CommittedMinLsn(file.bookmarks)}
      /\ last_fully_processed_lsn <= FinalLsn
  BY <1>2, <1>3, MaxOfTwo DEF FinalLsn
<1>5. FinalLsn \in 0 .. WalEnd /\ (last_fully_processed_lsn # None => FinalLsn # None)
  BY <1>2, <1>3, <1>4 DEF None
<1>6. ASSUME NEW s \in Streams
      PROVE  /\ FinalState.bookmarks[s].copied = state.bookmarks[s].copied
             /\ FinalState.bookmarks[s].xmin = state.bookmarks[s].xmin
             /\ FinalState.bookmarks[s].last_replication_method
                  = state.bookmarks[s].last_replication_method
             /\ FinalState.bookmarks[s].lsn =
                   IF s \in session /\ last_fully_processed_lsn # None
                   THEN FinalLsn ELSE state.bookmarks[s].lsn
  <2>1. CASE last_fully_processed_lsn = None
    BY <2>1 DEF FinalState
  <2>2. CASE last_fully_processed_lsn # None
    <3>1. FinalLsn \in 1 .. WalEnd
      BY <1>2, <1>5, <2>2 DEF None
    <3> QED BY <1>1, <2>2, <3>1, WrittenAll DEF FinalState
  <2> QED BY <2>1, <2>2
<1> QED BY <1>1, <1>4, <1>5, <1>6

LEMMA CopyFinishSession == ASSUME IInv, CopyInv, FinishSession PROVE CopyInv'
<1>1. /\ phase # "idle" /\ phase' = "idle" /\ rows' = {}
      /\ UNCHANGED <<catalog, file, durable>>
  BY DEF FinishSession, NoProcess
<1>2. \A s \in Streams : Marked(FinalState.bookmarks[s])
  BY <1>1, MarkedNow, FinalStateWrites DEF Marked
<1> QED BY <1>1, <1>2, FinalStateWrites, CopyRunEnds

LEMMA CopyRunFails == ASSUME IInv, CopyInv, RunFails PROVE CopyInv'
<1>1. /\ phase # "idle" /\ phase' = "idle" /\ rows' = {}
      /\ UNCHANGED <<catalog, pipe, file, durable>>
  BY DEF RunFails, NoProcess, downstream
<1>2. DataOK /\ Last \in Nat /\ Last' = Len(pipe) /\ Len(pipe) \in Nat /\ Len(pipe) <= Last
  BY <1>1, TimelineType DEF IInv, Last
<1>3. \A k \in 0 .. Len(pipe) : \A s \in Streams : BookmarkAt(k, s)' = BookmarkAt(k, s)
  BY <1>1, <1>2, PastStays
<1>4. AllMarked'
  BY <1>2, <1>3 DEF CopyInv, AllMarked, Marked
<1>5. AllKept'
  BY <1>1, <1>2, <1>3 DEF CopyInv, AllKept, Copied, LogBased
<1> QED BY <1>1, <1>4, <1>5 DEF CopyInv, PlanKept, RowsOK

LEMMA CopyTargetCommit == ASSUME IInv, CopyInv, TargetCommit PROVE CopyInv'
<1>1. /\ Last \in Nat /\ Last' = Last - 1 /\ Last > 0
      /\ \A k \in 0 .. Last' : \A s \in Streams : BookmarkAt(k, s)' = BookmarkAt(k + 1, s)
  BY Forward, TimelineType DEF IInv
<1>2. UNCHANGED <<catalog, phase, state, todo, session, rows>> /\ file' = Head(pipe).state
  BY DEF TargetCommit, process, plan
<1>3. AllMarked'
  BY <1>1 DEF CopyInv, AllMarked, Marked
<1>4. AllKept'
  <2> SUFFICES ASSUME NEW s \in Streams, NEW k \in 0 .. Last', NEW j \in 0 .. k,
                      LogBased(s), Copied(j, s)'
               PROVE  Copied(k, s)'
    BY <1>2 DEF AllKept, LogBased
  <2>1. k + 1 \in 0 .. Last /\ j + 1 \in 0 .. k + 1 /\ j \in 0 .. Last'
    BY <1>1
  <2> QED BY <1>1, <2>1 DEF CopyInv, AllKept, Copied
<1>5. PlanKept'
  <2>1. ASSUME phase # "idle", NEW s \in session, state.bookmarks[s].copied
        PROVE  file'.bookmarks[s].copied
    <3>1. /\ s \in Streams /\ file.bookmarks[s].copied /\ LogBased(s)
      BY <2>1 DEF CopyInv, PlanKept, IInv, DataOK, SessionOK, LogBased
    <3>2. Copied(0, s)
      BY <3>1, Ends DEF Copied, IInv
    <3>3. Copied(1, s)
      BY <1>1, <3>1, <3>2 DEF CopyInv, AllKept
    <3>4. BookmarkAt(0, s)' = BookmarkAt(1, s) /\ BookmarkAt(0, s)' = file'.bookmarks[s]
      BY <1>1, <3>1 DEF BookmarkAt, StateAt
    <3> QED BY <3>3, <3>4 DEF Copied
  <2> QED BY <1>2, <2>1 DEF CopyInv, PlanKept, LogBased
<1> QED BY <1>2, <1>3, <1>4, <1>5 DEF CopyInv, RowsOK

LEMMA CopyNext == ASSUME IInv, CopyInv, [Next]_vars PROVE CopyInv'
<1>1. CASE Commit \/ Feedback \/ UNCHANGED vars
  <2>1. UNCHANGED <<catalog, phase, state, todo, session, rows, pipe, file, durable>>
    BY <1>1 DEF Commit, Feedback, vars, process, plan, downstream
  <2> QED BY <2>1, CopyTimelineStays
<1>2. CASE ChangeCatalog
  <2>1. phase' = "idle" /\ pipe' = << >> /\ file' = file /\ rows' = rows /\ phase = "idle"
    BY <1>2 DEF ChangeCatalog, process, downstream
  <2>2. rows = {}
    BY <2>1 DEF CopyInv, RowsOK
  <2> QED BY <2>1, <2>2, CopyIdle
<1>3. CASE PipelineCrash
  <2>1. phase' = "idle" /\ pipe' = << >> /\ file' = file /\ rows' = {}
    BY <1>3 DEF PipelineCrash, NoProcess
  <2> QED BY <2>1, CopyIdle
<1> QED BY <1>1, <1>2, <1>3, CopyStartRun, CopyStartStream, CopyCopySome, CopyFinishStream,
           CopyFinishRun, CopyStartSession, CopySessionReads, CopyFinishSession, CopyRunFails,
           CopyTargetCommit DEF Next

\* The bookmarks of a run and of the STATE messages behind it say of every
\* stream whether its initial copy is complete, and what has been copied is
\* streamed (classify_log_based_work, reset_state_on_method_change).
THEOREM CopyInvariant == Spec => [](IInv /\ CopyInv)
<1>1. IInv /\ CopyInv /\ [Next]_vars => CopyInv'
  BY CopyNext
<1> QED BY InductiveInvariant, CopyInit, <1>1, PTL DEF Spec

\* Whatever happens to the other streams, and whatever fails, no run takes a
\* LOG_BASED stream with a committed copy back to its initial copy (do_sync,
\* LogicalSession.drop_deselected_bookmarks).
THEOREM CopyIsMadeOnce == Spec => CopiedOnce
<1>1. ASSUME IInv, CopyInv, [Next]_vars, NEW s \in Selected(catalog, "LOG_BASED"),
             file.bookmarks[s].copied
      PROVE  file'.bookmarks[s].copied
  <2>1. s \in Streams /\ LogBased(s)
    BY <1>1 DEF Selected, LogBased
  <2>2. CASE TargetCommit
    <3>1. /\ Last \in Nat /\ Last > 0 /\ BookmarkAt(0, s)' = BookmarkAt(1, s)
      BY <1>1, <2>1, <2>2, Forward, TimelineType DEF IInv
    <3>2. Copied(0, s)
      BY <1>1, <2>1, Ends DEF Copied, IInv
    <3>3. Copied(1, s)
      BY <1>1, <2>1, <3>1, <3>2 DEF CopyInv, AllKept
    <3> QED BY <3>1, <3>3 DEF Copied, BookmarkAt, StateAt
  <2>3. CASE ~TargetCommit
    <3>1. UNCHANGED file
      BY <1>1, <2>3 DEF Next, Commit, ChangeCatalog, StartRun, StartStream, CopySome,
         FinishStream, FinishRun, StartSession, SessionReads, Feedback, FinishSession, RunFails,
         PipelineCrash, vars, downstream
    <3> QED BY <1>1, <3>1
  <2> QED BY <2>2, <2>3
<1>2. IInv /\ CopyInv /\ [Next]_vars =>
          [ \A s \in Selected(catalog, "LOG_BASED") :
                /\ file.bookmarks[s].copied /\ catalog'[s] = catalog[s]
                /\ file.bookmarks[s].last_replication_method = "LOG_BASED"
                => file'.bookmarks[s].copied ]_vars
  BY <1>1
<1> QED BY CopyInvariant, <1>2, PTL DEF Spec, CopiedOnce

-----------------------------------------------------------------------------
(***************************************************************************)
(* The hand-over.  A copied stream has every change that precedes its lsn  *)
(* bookmark, and every change the slot has let go, stored by the time the  *)
(* target has handled the messages up to that bookmark; this needs the end *)
(* LSN as the fence between the streams a run copies and the slot it moves *)
(* for the others.                                                         *)
(***************************************************************************)

\* Every change of s before position p is stored once k has been handled.
Covered(s, k, p) == \A i \in Missing(s, k) : i >= p

BookmarkBacked ==
    \A k \in 0 .. Last, s \in Streams \ exposed :
        Copied(k, s) => Covered(s, k, BookmarkAt(k, s).lsn)

\* A stream outside the catalog may come back: the last state object counts,
\* since the catalog changes between runs only.
SlotBacked ==
    \A k \in 0 .. Last, s \in Streams \ exposed :
        (LogBased(s) \/ k = Last) /\ Copied(k, s) => Covered(s, k, confirmed)

\* The end LSN of a run: the session does not pass it, and a copy covers what
\* precedes it.
FenceOK ==
    phase # "idle" =>
        \A s \in Streams : LogBased(s) =>
            /\ confirmed <= end_lsn /\ last_processed_lsn <= end_lsn
            /\ state.bookmarks[s].lsn <= end_lsn
            /\ s \in session => \A k \in 0 .. Last : BookmarkAt(k, s).lsn <= end_lsn
            /\ s \notin session => \A k \in 0 .. Last : Copied(k, s) => Covered(s, k, end_lsn)

QueryOK == phase = "copying" /\ LogBased(NextStream) => end_lsn <= query + 1

\* The session has written all it has passed.
ReadOK ==
    phase = "logical" =>
        /\ position <= Len(log)
        /\ \A s \in session \ exposed : state.bookmarks[s].copied =>
               \A k \in 0 .. Last : k = Last => Covered(s, k, position + 1)

HandoverInv == BookmarkBacked /\ SlotBacked /\ FenceOK /\ QueryOK /\ ReadOK

LEMMA HandoverInit == Init => HandoverInv
<1> SUFFICES ASSUME Init PROVE HandoverInv
  OBVIOUS
<1>1. Last = 0 /\ Len(log) = 0 /\ phase = "idle"
  BY DEF Init, Last
<1>2. \A k \in 0 .. Last, s \in Streams : Missing(s, k) = {}
  BY <1>1 DEF Missing
<1> QED BY <1>1, <1>2 DEF HandoverInv, BookmarkBacked, SlotBacked, FenceOK, QueryOK, ReadOK, Covered

\* A change of s that precedes p is stored or among changes.
NewCovered(s, changes, p) ==
    \A i \in 1 .. Len(log) :
        log[i] = s /\ i \notin StoredAt(Len(pipe)) /\ i \notin changes => i >= p

LEMMA StillCovered ==
    ASSUME DataOK, phase # "idle", NEW s \in Streams, NEW r, rows \subseteq r, NEW p,
           Covered(s, Last, p)
    PROVE  NewCovered(s, r, p)
BY Ends DEF Covered, NewCovered, Missing

\* What a step within a run has to establish.
LEMMA HandoverRunGoesOn ==
    ASSUME IInv, CopyInv, HandoverInv, phase # "idle", phase' # "idle",
           UNCHANGED <<log, confirmed, catalog, end_lsn, session, file, durable, exposed>>,
           NEW r, \/ pipe' = pipe /\ rows' = r
                  \/ EmitState(state', r) /\ rows' = {},
           \A s \in Streams \ exposed : state'.bookmarks[s].copied =>
               NewCovered(s, r, state'.bookmarks[s].lsn) /\ NewCovered(s, r, confirmed),
           \A s \in Streams : LogBased(s) =>
               /\ last_processed_lsn' <= end_lsn
               /\ state'.bookmarks[s].lsn <= end_lsn
               /\ s \notin session /\ state'.bookmarks[s].copied => NewCovered(s, r, end_lsn),
           phase' = "logical" =>
               /\ position' <= Len(log)
               /\ \A s \in session \ exposed : state'.bookmarks[s].copied =>
                      NewCovered(s, r, position' + 1),
           QueryOK'
    PROVE  HandoverInv'
<1>1. DataOK /\ Last \in Nat /\ Len(pipe) \in Nat /\ Last = Len(pipe) + 1 /\ session \subseteq Streams
  BY TimelineType DEF IInv, DataOK
<1>2. Last' \in Nat /\ Last <= Last'
  BY <1>1, Appended DEF Last, EmitState, DataOK
<1>3. ASSUME NEW k \in 0 .. Last', NEW s \in Streams
      PROVE  \/ /\ k \in 0 .. Last /\ k < Last
                /\ BookmarkAt(k, s)' = BookmarkAt(k, s) /\ Missing(s, k)' = Missing(s, k)
             \/ /\ k >= Last /\ BookmarkAt(k, s)' = state'.bookmarks[s]
                /\ \A p : NewCovered(s, r, p) => Covered(s, k, p)'
  <2>1. CASE /\ k \in 0 .. Len(pipe) /\ k \in 0 .. Last
             /\ BookmarkAt(k, s)' = BookmarkAt(k, s) /\ StoredAt(k)' = StoredAt(k)
    BY <1>1, <2>1 DEF Missing
  <2>2. CASE /\ k >= Last /\ BookmarkAt(k, s)' = state'.bookmarks[s]
             /\ StoredAt(k)' = StoredAt(Len(pipe)) \cup r
    BY <2>2 DEF Missing, Covered, NewCovered
  <2> QED BY <1>1, <2>1, <2>2, RunGoesOn
<1>4. BookmarkBacked'
  <2> SUFFICES ASSUME NEW k \in 0 .. Last', NEW s \in Streams \ exposed, Copied(k, s)'
               PROVE  \A i \in Missing(s, k)' : i >= BookmarkAt(k, s)'.lsn
    BY DEF BookmarkBacked, Covered
  <2> QED BY <1>3 DEF HandoverInv, BookmarkBacked, Covered, Copied
<1>5. SlotBacked'
  <2> SUFFICES ASSUME NEW k \in 0 .. Last', NEW s \in Streams \ exposed, Copied(k, s)',
                      LogBased(s) \/ k = Last'
               PROVE  \A i \in Missing(s, k)' : i >= confirmed
    BY DEF SlotBacked, Covered, LogBased
  <2>1. CASE k < Last
    BY <1>1, <1>2, <1>3, <2>1 DEF HandoverInv, SlotBacked, Covered, Copied
  <2>2. CASE ~ (k < Last)
    BY <1>3, <2>2 DEF Covered, Copied
  <2> QED BY <2>1, <2>2
<1>6. FenceOK'
  <2> SUFFICES ASSUME NEW s \in Streams, LogBased(s)
               PROVE  /\ confirmed <= end_lsn /\ last_processed_lsn' <= end_lsn
                      /\ state'.bookmarks[s].lsn <= end_lsn
                      /\ s \in session => \A k \in 0 .. Last' : BookmarkAt(k, s)'.lsn <= end_lsn
                      /\ s \notin session => \A k \in 0 .. Last' :
                            Copied(k, s)' => \A i \in Missing(s, k)' : i >= end_lsn
    BY DEF FenceOK, Covered, LogBased
  <2>1. /\ confirmed <= end_lsn /\ last_processed_lsn' <= end_lsn
        /\ state'.bookmarks[s].lsn <= end_lsn
    BY DEF HandoverInv, FenceOK
  <2>2. ASSUME NEW k \in 0 .. Last', s \in session PROVE BookmarkAt(k, s)'.lsn <= end_lsn
    BY <1>3, <2>1, <2>2 DEF HandoverInv, FenceOK
  <2>3. ASSUME NEW k \in 0 .. Last', s \notin session, Copied(k, s)'
        PROVE  \A i \in Missing(s, k)' : i >= end_lsn
    BY <1>3, <2>3 DEF HandoverInv, FenceOK, Covered, Copied
  <2> QED BY <2>1, <2>2, <2>3
<1>7. ReadOK'
  <2> SUFFICES ASSUME phase' = "logical", NEW s \in session \ exposed, state'.bookmarks[s].copied,
                      NEW k \in 0 .. Last', k = Last'
               PROVE  \A i \in Missing(s, k)' : i >= position' + 1
    BY DEF ReadOK, Covered
  <2>1. NewCovered(s, r, position' + 1) /\ s \in Streams /\ ~ (k < Last)
    BY <1>1, <1>2
  <2> QED BY <1>3, <2>1 DEF Covered
<1> QED BY <1>4, <1>5, <1>6, <1>7 DEF HandoverInv

\* What the end of a run has to establish.
LEMMA HandoverRunEnds ==
    ASSUME IInv, CopyInv, HandoverInv, phase # "idle", phase' = "idle",
           UNCHANGED <<log, confirmed, catalog, file, durable, exposed>>,
           NEW st, NEW r, EmitState(st, r),
           \A s \in Streams \ exposed : st.bookmarks[s].copied =>
               NewCovered(s, r, st.bookmarks[s].lsn) /\ NewCovered(s, r, confirmed)
    PROVE  HandoverInv'
<1>1. DataOK /\ Last \in Nat
  BY TimelineType DEF IInv
<1>2. ASSUME NEW k \in 0 .. Last', NEW s \in Streams
      PROVE  \/ /\ k \in 0 .. Last /\ k < Last /\ Last' = Last
                /\ BookmarkAt(k, s)' = BookmarkAt(k, s) /\ Missing(s, k)' = Missing(s, k)
             \/ /\ BookmarkAt(k, s)' = st.bookmarks[s]
                /\ \A p : NewCovered(s, r, p) => Covered(s, k, p)'
  <2>1. CASE /\ k \in 0 .. Last /\ k < Last /\ Last' = Last
             /\ BookmarkAt(k, s)' = BookmarkAt(k, s) /\ StoredAt(k)' = StoredAt(k)
    BY <2>1 DEF Missing
  <2>2. CASE /\ BookmarkAt(k, s)' = st.bookmarks[s]
             /\ StoredAt(k)' = StoredAt(Len(pipe)) \cup r
    BY <2>2 DEF Missing, Covered, NewCovered
  <2> QED BY <1>1, <2>1, <2>2, RunEnds
<1>3. BookmarkBacked'
  <2> SUFFICES ASSUME NEW k \in 0 .. Last', NEW s \in Streams \ exposed, Copied(k, s)'
               PROVE  \A i \in Missing(s, k)' : i >= BookmarkAt(k, s)'.lsn
    BY DEF BookmarkBacked, Covered
  <2> QED BY <1>2 DEF HandoverInv, BookmarkBacked, Covered, Copied
<1>4. SlotBacked'
  <2> SUFFICES ASSUME NEW k \in 0 .. Last', NEW s \in Streams \ exposed, Copied(k, s)',
                      LogBased(s) \/ k = Last'
               PROVE  \A i \in Missing(s, k)' : i >= confirmed
    BY DEF SlotBacked, Covered, LogBased
  <2> QED BY <1>1, <1>2 DEF HandoverInv, SlotBacked, Covered, Copied
<1> QED BY <1>3, <1>4 DEF HandoverInv, FenceOK, QueryOK, ReadOK

\* What the invariant says of the state object of a run.
LEMMA Now ==
    ASSUME IInv, CopyInv, HandoverInv, phase # "idle", NEW r, rows \subseteq r
    PROVE  /\ \A s \in Streams \ exposed : state.bookmarks[s].copied =>
                 NewCovered(s, r, state.bookmarks[s].lsn) /\ NewCovered(s, r, confirmed)
           /\ \A s \in Streams : LogBased(s) =>
                 /\ last_processed_lsn <= end_lsn
                 /\ state.bookmarks[s].lsn <= end_lsn
                 /\ s \notin session /\ state.bookmarks[s].copied => NewCovered(s, r, end_lsn)
           /\ phase = "logical" =>
                 /\ position <= Len(log)
                 /\ \A s \in session \ exposed : state.bookmarks[s].copied =>
                        NewCovered(s, r, position + 1)
<1>1. DataOK /\ Last \in 0 .. Last /\ session \subseteq Streams
  <2>1. DataOK
    BY DEF IInv
  <2>2. Last \in Nat
    BY <2>1, TimelineType
  <2>3. session \subseteq Streams
    BY <2>1 DEF DataOK
  <2> QED BY <2>1, <2>2, <2>3
<1>2. \A s \in Streams : BookmarkAt(Last, s) = state.bookmarks[s]
  BY <1>1, Ends
<1>3. \A s \in Streams \ exposed : state.bookmarks[s].copied =>
          Covered(s, Last, state.bookmarks[s].lsn) /\ Covered(s, Last, confirmed)
  BY <1>1, <1>2 DEF HandoverInv, BookmarkBacked, SlotBacked, Copied
<1>4. \A s \in Streams : LogBased(s) =>
          /\ last_processed_lsn <= end_lsn
          /\ state.bookmarks[s].lsn <= end_lsn
          /\ s \notin session /\ state.bookmarks[s].copied => Covered(s, Last, end_lsn)
  BY <1>1, <1>2 DEF HandoverInv, FenceOK, Copied
<1>5. phase = "logical" =>
          /\ position <= Len(log)
          /\ \A s \in session \ exposed : state.bookmarks[s].copied => Covered(s, Last, position + 1)
  BY <1>1 DEF HandoverInv, ReadOK
<1> QED BY <1>1, <1>3, <1>4, <1>5, StillCovered

LEMMA HandoverStartStream ==
    ASSUME ~use_secondary, IInv, CopyInv, HandoverInv, StartStream PROVE HandoverInv'
<1> PICK s : s = NextStream
  OBVIOUS
<1>1. /\ UNCHANGED <<log, confirmed, catalog, end_lsn, session, file, durable, exposed, rows,
                     last_processed_lsn, front, todo>>
      /\ phase = "traditional" /\ phase' = "copying" /\ EmitState(state', {})
      /\ query' \in Snapshots
  BY DEF StartStream, server, plan, progress, mishaps
<1>2. rows = {} /\ rows \subseteq {}
  BY <1>1 DEF CopyInv, RowsOK
<1>3. ~state'.bookmarks[s].copied /\ s \in Streams
  BY <1>1, StartStreamWrites DEF CopyInv, PlanKept
<1>4. \A t \in Streams \ {s} : state'.bookmarks[t] = state.bookmarks[t]
  BY StartStreamWrites
<1>5. end_lsn \in 0 .. Len(log) + 1 /\ Len(log) \in Nat
  BY LogType DEF IInv, DataOK, WalEnd
<1>6. LogBased(s) => state'.bookmarks[s].lsn <= end_lsn
  BY <1>1, <1>2, <1>3, <1>5, Now, StartStreamWrites
<1>7. QueryOK'
  <2>1. query' = Len(log)
    BY <1>1 DEF Snapshots
  <2> QED BY <1>1, <1>5, <2>1 DEF QueryOK
<1> QED BY <1>1, <1>2, <1>3, <1>4, <1>6, <1>7, Now, HandoverRunGoesOn

LEMMA HandoverCopySome == ASSUME IInv, CopyInv, HandoverInv, CopySome PROVE HandoverInv'
<1> PICK s : s = NextStream
  OBVIOUS
<1>1. /\ UNCHANGED <<log, confirmed, catalog, end_lsn, session, file, durable, exposed, rows,
                     last_processed_lsn, front, todo, query>>
      /\ phase = "copying" /\ phase' = "copying"
      /\ EmitState(state', {}) \/ pipe' = pipe
  BY DEF CopySome, server, plan, progress, mishaps
<1>2. rows = {} /\ rows \subseteq {}
  BY <1>1 DEF CopyInv, RowsOK
<1>3. \A t \in Streams : /\ state'.bookmarks[t].copied = state.bookmarks[t].copied
                         /\ state'.bookmarks[t].lsn = state.bookmarks[t].lsn
  BY CopySomeWrites
<1>4. QueryOK'
  BY <1>1 DEF HandoverInv, QueryOK, NextStream, LogBased
<1> QED BY <1>1, <1>2, <1>3, <1>4, Now, HandoverRunGoesOn

LEMMA HandoverFinishStream == ASSUME IInv, CopyInv, HandoverInv, FinishStream PROVE HandoverInv'
<1> PICK s : s = NextStream
  OBVIOUS
<1> PICK r : r = IF LogBased(s) THEN CopiedChanges(s) ELSE {}
  OBVIOUS
<1>1. /\ UNCHANGED <<log, confirmed, catalog, end_lsn, session, file, durable, exposed, rows,
                     last_processed_lsn>>
      /\ phase = "copying" /\ phase' = "traditional" /\ EmitState(state', r)
  BY DEF FinishStream, server, progress, mishaps, LogBased
<1>2. rows = {} /\ rows \subseteq r
  BY <1>1 DEF CopyInv, RowsOK
<1>3. s \in Streams /\ s \in todo /\ ~state.bookmarks[s].copied
  BY <1>1, FinishStreamWrites DEF CopyInv, PlanKept
<1>4. \A t \in Streams \ {s} : state'.bookmarks[t] = state.bookmarks[t]
  BY FinishStreamWrites
<1>5. state'.bookmarks[s].lsn = state.bookmarks[s].lsn
      /\ (state'.bookmarks[s].copied <=> LogBased(s))
  BY <1>3, FinishStreamWrites
<1>6. ASSUME LogBased(s)
      PROVE  /\ NewCovered(s, r, state'.bookmarks[s].lsn) /\ NewCovered(s, r, confirmed)
             /\ NewCovered(s, r, end_lsn) /\ state'.bookmarks[s].lsn <= end_lsn
  <2>1. /\ confirmed \in Nat /\ end_lsn \in Nat /\ query \in Nat /\ Len(log) \in Nat
        /\ state.bookmarks[s].lsn \in Nat
    BY <1>3, LogType DEF IInv, DataOK, States, SoundBookmark, Bookmark
  <2>2. /\ confirmed <= end_lsn /\ state.bookmarks[s].lsn <= end_lsn /\ end_lsn <= query + 1
    BY <1>1, <1>3, <1>6 DEF HandoverInv, FenceOK, QueryOK
  <2>3. \A i \in 1 .. Len(log) : log[i] = s /\ i \notin r => i >= query + 1
    BY <1>6, <2>1 DEF CopiedChanges
  <2> QED BY <1>5, <2>1, <2>2, <2>3 DEF NewCovered
<1>7. QueryOK'
  BY <1>1 DEF QueryOK
<1> QED BY <1>1, <1>2, <1>3, <1>4, <1>5, <1>6, <1>7, Now, HandoverRunGoesOn

\* The least lsn of the session's streams.
LEMMA CommittedLeast ==
    ASSUME NEW e \in Nat, NEW bs \in [Streams -> SoundBookmark(e)], session \subseteq Streams
    PROVE  /\ \A s \in session : bs[s].lsn # None => CommittedMinLsn(bs) <= bs[s].lsn
           /\ CommittedMinLsn(bs) # None => \E s \in session : bs[s].lsn = CommittedMinLsn(bs)
<1> DEFINE lsns == {bs[s].lsn : s \in session} \ {None}
<1>1. lsns \in SUBSET Nat
  BY DEF SoundBookmark, Bookmark
<1>2. CASE lsns = {}
  BY <1>2 DEF CommittedMinLsn, None
<1>3. CASE lsns # {}
  <2>1. \A s \in session : bs[s].lsn # None => bs[s].lsn \in lsns
    OBVIOUS
  <2>2. \A l \in lsns : \E s \in session : bs[s].lsn = l
    OBVIOUS
  <2>3. CommittedMinLsn(bs) = Min(lsns)
    BY <1>3 DEF CommittedMinLsn
  <2> HIDE DEF lsns
  <2>4. Min(lsns) \in lsns /\ \A l \in lsns : Min(lsns) <= l
    BY <1>1, <1>3, MinOf
  <2> QED BY <2>1, <2>2, <2>3, <2>4
<1> QED BY <1>2, <1>3

LEMMA HandoverStartSession ==
    ASSUME IInv, CopyInv, HandoverInv, StartSession PROVE HandoverInv'
<1>1. /\ UNCHANGED <<log, confirmed, catalog, end_lsn, session, pipe, file, durable, exposed, rows,
                     last_processed_lsn>>
      /\ phase = "traditional" /\ phase' = "logical"
      /\ position' = Max({CommittedMinLsn(state'.bookmarks), confirmed}) - 1
  BY DEF StartSession, server, plan, downstream, mishaps
<1>2. rows = {} /\ rows \subseteq {}
  BY <1>1 DEF CopyInv, RowsOK
<1>3. \A t \in Streams : state'.bookmarks[t].copied => state'.bookmarks[t] = state.bookmarks[t]
  BY StartSessionWrites DEF NoBookmark
<1>4. \A t \in Streams : LogBased(t) => state'.bookmarks[t] = state.bookmarks[t]
  BY StartSessionWrites DEF LogBased, NotSelected
<1>5. /\ state'.bookmarks \in [Streams -> SoundBookmark(WalEnd)] /\ session \subseteq Streams
      /\ WalEnd = Len(log) + 1 /\ Len(log) \in Nat /\ confirmed \in 1 .. WalEnd
  <2>1. IInv' /\ UNCHANGED log
    BY <1>1, StartSessionInv
  <2> QED BY <2>1, SameLog, LogType DEF IInv, DataOK, States, WalEnd
<1> PICK m : m = CommittedMinLsn(state'.bookmarks)
  OBVIOUS
<1>6. m \in 0 .. WalEnd /\ \A t \in session : state'.bookmarks[t].lsn # None => m <= state'.bookmarks[t].lsn
  BY <1>5, CommittedType, CommittedLeast
<1> PICK x : x = Max({m, confirmed})
  OBVIOUS
<1>7. x \in {m, confirmed} /\ position' + 1 = x /\ position' <= Len(log)
  BY <1>1, <1>5, <1>6, MaxOfTwo
<1>8. \A t \in session \ exposed : state'.bookmarks[t].copied => NewCovered(t, {}, position' + 1)
  <2> SUFFICES ASSUME NEW t \in session \ exposed, state'.bookmarks[t].copied
               PROVE  NewCovered(t, {}, x)
    BY <1>7
  <2>1. /\ NewCovered(t, {}, state.bookmarks[t].lsn) /\ NewCovered(t, {}, confirmed)
        /\ state'.bookmarks[t] = state.bookmarks[t] /\ state.bookmarks[t].lsn # None
    BY <1>1, <1>2, <1>3, <1>5, Now DEF IInv, SessionOK
  <2>2. m <= state.bookmarks[t].lsn /\ m \in Nat /\ state.bookmarks[t].lsn \in Nat
    BY <1>5, <1>6, <2>1 DEF SoundBookmark, Bookmark
  <2>3. \A i \in 1 .. Len(log) :
           log[i] = t /\ i \notin StoredAt(Len(pipe)) => i >= state.bookmarks[t].lsn /\ i >= confirmed
    BY <2>1 DEF NewCovered
  <2>4. \A i \in 1 .. Len(log) : log[i] = t /\ i \notin StoredAt(Len(pipe)) => i >= x
    BY <1>5, <1>7, <2>2, <2>3
  <2> QED BY <2>4 DEF NewCovered
<1>9. QueryOK'
  BY <1>1 DEF QueryOK
<1> QED BY <1>1, <1>2, <1>3, <1>4, <1>7, <1>8, <1>9, Now, HandoverRunGoesOn

LEMMA HandoverSessionReads ==
    ASSUME break_at_end, IInv, CopyInv, HandoverInv, SessionReads PROVE HandoverInv'
<1> PICK i : i = Min(Upcoming)
  OBVIOUS
<1> PICK r : r = rows \cup {i}
  OBVIOUS
<1>1. /\ UNCHANGED <<log, confirmed, catalog, phase, end_lsn, session, file, durable, exposed>>
      /\ phase = "logical" /\ position' = i /\ last_processed_lsn' = i /\ i <= end_lsn
      /\ \/ pipe' = pipe /\ rows' = r
         \/ EmitState(state', r) /\ rows' = {}
  BY DEF SessionReads, server, plan, mishaps
<1>2. /\ i \in 1 .. Len(log) /\ position < i /\ log[i] \in session /\ log[i] \in Streams
      /\ \A j \in 1 .. Len(log) : log[j] \in session /\ position < j => i <= j
      /\ \A t \in Streams :
            /\ state'.bookmarks[t].copied = state.bookmarks[t].copied
            /\ \/ state'.bookmarks[t].lsn = state.bookmarks[t].lsn
               \/ t \in session /\ state'.bookmarks[t].lsn \in {i, last_processed_lsn}
  BY SessionReadsWrites
<1>3. /\ Len(log) \in Nat /\ position \in Nat /\ last_processed_lsn \in Nat
      /\ last_processed_lsn <= position /\ session \subseteq Streams
  BY LogType DEF IInv, PositionOK, DataOK, WalEnd
<1>4. rows \subseteq r
  OBVIOUS
<1>5. ASSUME NEW t \in session \ exposed, state.bookmarks[t].copied
      PROVE  NewCovered(t, r, i + 1)
  <2>1. NewCovered(t, r, position + 1)
    BY <1>1, <1>4, <1>5, Now
  <2> SUFFICES ASSUME NEW j \in 1 .. Len(log), log[j] = t, j \notin StoredAt(Len(pipe)), j \notin r
               PROVE  j >= i + 1
    BY DEF NewCovered
  <2>2. j >= position + 1 /\ j # i /\ log[j] \in session
    BY <2>1 DEF NewCovered
  <2>3. position < j
    BY <1>3, <2>2
  <2>4. i <= j
    BY <1>2, <2>2, <2>3
  <2> QED BY <1>2, <1>3, <2>2, <2>4
<1>6. ASSUME NEW t \in Streams \ exposed, state'.bookmarks[t].copied
      PROVE  NewCovered(t, r, state'.bookmarks[t].lsn) /\ NewCovered(t, r, confirmed)
  <2>1. /\ state.bookmarks[t].copied
        /\ NewCovered(t, r, state.bookmarks[t].lsn) /\ NewCovered(t, r, confirmed)
    BY <1>1, <1>2, <1>4, <1>6, Now
  <2>2. CASE t \in session /\ state'.bookmarks[t].lsn \in {i, last_processed_lsn}
    <3>1. NewCovered(t, r, i + 1)
      BY <1>5, <2>1, <2>2
    <3>2. state'.bookmarks[t].lsn \in Nat /\ state'.bookmarks[t].lsn <= i /\ i \in Nat
      BY <1>2, <1>3, <2>2
    <3> QED BY <1>3, <2>1, <3>1, <3>2 DEF NewCovered
  <2> QED BY <1>2, <2>1, <2>2
<1>7. ASSUME NEW t \in Streams, LogBased(t)
      PROVE  /\ last_processed_lsn' <= end_lsn
             /\ state'.bookmarks[t].lsn <= end_lsn
             /\ t \notin session /\ state'.bookmarks[t].copied => NewCovered(t, r, end_lsn)
  BY <1>1, <1>2, <1>4, <1>7, Now
<1>8. /\ position' <= Len(log)
      /\ \A t \in session \ exposed : state'.bookmarks[t].copied => NewCovered(t, r, position' + 1)
  <2>1. position' <= Len(log)
    BY <1>1, <1>2, <1>3
  <2>2. ASSUME NEW t \in session \ exposed, state'.bookmarks[t].copied
        PROVE  NewCovered(t, r, position' + 1)
    <3>1. state.bookmarks[t].copied
      BY <1>2, <1>3, <2>2
    <3>2. NewCovered(t, r, i + 1)
      BY <1>5, <3>1
    <3> QED BY <1>1, <3>2
  <2> QED BY <2>1, <2>2
<1>9. QueryOK'
  BY <1>1 DEF QueryOK
<1> QED BY <1>1, <1>4, <1>6, <1>7, <1>8, <1>9, HandoverRunGoesOn

\* The slot may follow the state file: what the session's streams lack lies
\* ahead of their bookmarks, what the others lack lies beyond the fence.
LEMMA CommittedBacked ==
    ASSUME IInv, CopyInv, HandoverInv, phase = "logical", NEW k \in 0 .. Last,
           NEW s \in Streams \ exposed, LogBased(s) \/ k = Last, Copied(k, s)
    PROVE  Covered(s, k, CommittedMinLsn(file.bookmarks))
<1> PICK m : m = CommittedMinLsn(file.bookmarks)
  OBVIOUS
<1>1. /\ DataOK /\ Last \in Nat /\ k \in Nat /\ WalEnd \in Nat /\ session \subseteq Streams
      /\ file.bookmarks \in [Streams -> SoundBookmark(WalEnd)] /\ end_lsn \in Nat
  <2>1. DataOK /\ Last \in Nat /\ WalEnd \in Nat
    BY TimelineType, LogType DEF IInv
  <2>2. file \in States(WalEnd) /\ end_lsn \in 0 .. WalEnd /\ session \subseteq Streams
    BY DEF IInv, DataOK
  <2> QED BY <2>1, <2>2 DEF States
<1>2. /\ m \in 0 .. WalEnd
      /\ \A t \in session : file.bookmarks[t].lsn # None => m <= file.bookmarks[t].lsn
      /\ m # None => \E t \in session : file.bookmarks[t].lsn = m
  BY <1>1, CommittedType, CommittedLeast
<1>3. BookmarkAt(Last, s) = state.bookmarks[s]
  BY <1>1, Ends
<1>4. LogBased(s) /\ Copied(Last, s)
  <2>1. CASE k = Last
    BY <1>3, <2>1 DEF CopyInv, PlanKept, Copied
  <2>2. CASE k # Last
    <3>1. LogBased(s) /\ Last \in 0 .. Last
      BY <1>1, <2>2
    <3> QED BY <3>1 DEF CopyInv, AllKept
  <2> QED BY <2>1, <2>2
<1>5. \A i \in Missing(s, k) : i \in Nat
  BY <1>1, LogType DEF Missing
<1>6. CASE s \in session
  <2>1. file.bookmarks[s].copied /\ BookmarkAt(0, s) = file.bookmarks[s] /\ 0 \in 0 .. Last
    BY <1>1, <1>3, <1>4, <1>6, Ends DEF CopyInv, PlanKept, Copied
  <2>2. Covered(s, 0, file.bookmarks[s].lsn) /\ file.bookmarks[s].lsn # None
    BY <2>1 DEF HandoverInv, BookmarkBacked, CopyInv, AllMarked, Marked, Copied
  <2>3. Missing(s, k) \subseteq Missing(s, 0)
    BY <1>1, StoredGrows
  <2>4. m <= file.bookmarks[s].lsn /\ file.bookmarks[s].lsn \in Nat
    BY <1>1, <1>2, <1>6, <2>2 DEF SoundBookmark, Bookmark
  <2> QED BY <1>2, <1>5, <2>2, <2>3, <2>4 DEF Covered
<1>7. CASE s \notin session
  <2>1. Covered(s, k, end_lsn)
    BY <1>4, <1>7 DEF HandoverInv, FenceOK
  <2>2. m <= end_lsn
    <3>1. CASE m = None
      BY <1>1, <3>1 DEF None
    <3>2. CASE m # None
      <4>1. PICK t \in session : file.bookmarks[t].lsn = m
        BY <1>2, <3>2
      <4>2. LogBased(t) /\ t \in Streams /\ BookmarkAt(0, t) = file.bookmarks[t] /\ 0 \in 0 .. Last
        BY <1>1, Ends DEF IInv, SessionOK, LogBased
      <4> QED BY <4>1, <4>2 DEF HandoverInv, FenceOK
    <3> QED BY <3>1, <3>2
  <2> QED BY <1>1, <1>2, <1>5, <2>1, <2>2 DEF Covered
<1> QED BY <1>6, <1>7

LEMMA CommittedFenced ==
    ASSUME IInv, HandoverInv, phase # "idle", CommittedMinLsn(file.bookmarks) # None
    PROVE  CommittedMinLsn(file.bookmarks) <= end_lsn
<1>1. /\ DataOK /\ Last \in Nat /\ WalEnd \in Nat /\ session \subseteq Streams
      /\ file.bookmarks \in [Streams -> SoundBookmark(WalEnd)]
  BY TimelineType, LogType DEF IInv, DataOK, States
<1>2. PICK t \in session : file.bookmarks[t].lsn = CommittedMinLsn(file.bookmarks)
  BY <1>1, CommittedLeast
<1>3. LogBased(t) /\ t \in Streams /\ BookmarkAt(0, t) = file.bookmarks[t] /\ 0 \in 0 .. Last
  BY <1>1, Ends DEF IInv, SessionOK, LogBased
<1> QED BY <1>2, <1>3 DEF HandoverInv, FenceOK

LEMMA HandoverFeedback == ASSUME IInv, CopyInv, HandoverInv, Feedback PROVE HandoverInv'
<1>1. /\ UNCHANGED <<log, catalog, phase, state, end_lsn, todo, session, query, position,
                     last_processed_lsn, rows, pipe, file, durable, exposed>>
      /\ phase = "logical" /\ confirmed' = CommittedMinLsn(file.bookmarks)
      /\ confirmed' > confirmed
  BY DEF Feedback, process, plan, progress, downstream, mishaps
<1>2. Last' = Last /\ Last \in Nat
  BY <1>1, TimelineStays, TimelineType DEF IInv
<1>3. ASSUME NEW k \in Nat, NEW s \in Streams
      PROVE  BookmarkAt(k, s)' = BookmarkAt(k, s) /\ Missing(s, k)' = Missing(s, k)
  BY <1>1, TimelineStays DEF Missing
<1>4. BookmarkBacked'
  BY <1>1, <1>2, <1>3 DEF HandoverInv, BookmarkBacked, Covered, Copied
<1>5. SlotBacked'
  <2> SUFFICES ASSUME NEW k \in 0 .. Last, NEW s \in Streams \ exposed, Copied(k, s),
                      LogBased(s) \/ k = Last
               PROVE  Covered(s, k, CommittedMinLsn(file.bookmarks))
    BY <1>1, <1>2, <1>3 DEF SlotBacked, Covered, Copied, LogBased
  <2> QED BY <1>1, CommittedBacked
<1>6. FenceOK'
  <2>1. confirmed' <= end_lsn
    <3>1. confirmed \in Nat /\ confirmed > 0
      BY LogType DEF IInv, DataOK
    <3>2. confirmed' # None
      BY <1>1, <3>1 DEF None
    <3> QED BY <1>1, <3>2, CommittedFenced
  <2> QED BY <1>1, <1>2, <1>3, <2>1 DEF HandoverInv, FenceOK, Covered, Copied, LogBased
<1>7. QueryOK'
  BY <1>1 DEF QueryOK
<1>8. ReadOK'
  <2>1. session \subseteq Streams
    BY DEF IInv, DataOK
  <2> QED BY <1>1, <1>2, <1>3, <2>1 DEF HandoverInv, ReadOK, Covered
<1> QED BY <1>4, <1>5, <1>6, <1>7, <1>8 DEF HandoverInv

LEMMA HandoverFinishRun == ASSUME IInv, CopyInv, HandoverInv, FinishRun PROVE HandoverInv'
<1>1. /\ phase # "idle" /\ phase # "logical" /\ phase' = "idle" /\ EmitState(state, {})
      /\ UNCHANGED <<log, confirmed, catalog, file, durable, exposed>>
  BY DEF FinishRun, NoProcess, server, mishaps
<1>2. rows \subseteq {}
  BY <1>1 DEF CopyInv, RowsOK
<1> QED BY <1>1, <1>2, Now, HandoverRunEnds

LEMMA HandoverFinishSession ==
    ASSUME IInv, CopyInv, HandoverInv, FinishSession PROVE HandoverInv'
<1>1. /\ phase = "logical" /\ phase' = "idle"
      /\ UNCHANGED <<log, confirmed, catalog, file, durable, exposed>>
  BY DEF FinishSession, NoProcess, server, mishaps
<1>2. /\ EmitState(FinalState, rows)
      /\ FinalLsn \in {last_fully_processed_lsn, CommittedMinLsn(file.bookmarks)}
      /\ \A s \in Streams :
            /\ FinalState.bookmarks[s].copied = state.bookmarks[s].copied
            /\ \/ FinalState.bookmarks[s].lsn = state.bookmarks[s].lsn
               \/ s \in session /\ FinalState.bookmarks[s].lsn = FinalLsn
  BY FinalStateWrites
<1>3. ASSUME NEW s \in Streams \ exposed, FinalState.bookmarks[s].copied
      PROVE  /\ NewCovered(s, rows, FinalState.bookmarks[s].lsn)
             /\ NewCovered(s, rows, confirmed)
  <2>1. /\ state.bookmarks[s].copied
        /\ NewCovered(s, rows, state.bookmarks[s].lsn) /\ NewCovered(s, rows, confirmed)
        /\ s \in session => NewCovered(s, rows, position + 1)
    BY <1>1, <1>2, <1>3, Now
  <2>2. CASE s \in session /\ FinalState.bookmarks[s].lsn = last_fully_processed_lsn
    <3>1. /\ position \in Nat /\ last_fully_processed_lsn \in Nat /\ Len(log) \in Nat
          /\ last_fully_processed_lsn <= position
      BY LogType DEF IInv, PositionOK
    <3> QED BY <2>1, <2>2, <3>1 DEF NewCovered
  <2>3. CASE s \in session /\ FinalState.bookmarks[s].lsn = CommittedMinLsn(file.bookmarks)
    <3>1. DataOK /\ Last \in 0 .. Last /\ phase # "idle"
      BY <1>1, TimelineType DEF IInv
    <3>2. Copied(Last, s)
      BY <2>1, <3>1, Ends DEF Copied
    <3>3. Covered(s, Last, CommittedMinLsn(file.bookmarks))
      BY <1>1, <3>1, <3>2, CommittedBacked
    <3> QED BY <2>1, <2>3, <3>1, <3>3, StillCovered
  <2> QED BY <1>2, <2>1, <2>2, <2>3
<1> QED BY <1>1, <1>2, <1>3, HandoverRunEnds

LEMMA HandoverCommit == ASSUME IInv, CopyInv, HandoverInv, Commit PROVE HandoverInv'
<1>1. UNCHANGED <<confirmed, catalog, phase, state, end_lsn, front, todo, session, query, position,
                  last_processed_lsn, rows, pipe, file, durable, exposed>>
  BY DEF Commit, process, plan, progress, downstream, mishaps
<1>2. PICK t \in Streams : log' = Append(log, t)
  BY DEF Commit
<1>3. /\ log \in Seq(Streams) /\ Len(log) \in Nat /\ WalEnd = Len(log) + 1 /\ WalEnd \in Nat
      /\ Len(log') = WalEnd /\ \A i \in 1 .. Len(log) : log'[i] = log[i]
  BY <1>2, LogType DEF IInv, DataOK, WalEnd
<1>4. /\ Last' = Last /\ Last \in Nat /\ session \subseteq Streams
      /\ confirmed \in 1 .. WalEnd /\ end_lsn \in 0 .. WalEnd
  BY <1>1, TimelineStays, TimelineType DEF IInv, DataOK
<1>5. ASSUME NEW k \in Nat, NEW s \in Streams
      PROVE  /\ BookmarkAt(k, s)' = BookmarkAt(k, s)
             /\ \A i \in Missing(s, k)' : i \in Missing(s, k) \/ i = WalEnd
  <2>1. BookmarkAt(k, s)' = BookmarkAt(k, s) /\ StoredAt(k)' = StoredAt(k)
    BY <1>1, TimelineStays
  <2>2. \A i \in 1 .. Len(log') : i \in 1 .. Len(log) \/ i = WalEnd
    BY <1>3
  <2> QED BY <1>3, <2>1, <2>2 DEF Missing
<1>6. \A k \in 0 .. Last, s \in Streams : BookmarkAt(k, s).lsn \in 0 .. WalEnd
  BY <1>3, BookmarkAtType DEF IInv, SoundBookmark, Bookmark
<1>7. BookmarkBacked'
  BY <1>1, <1>3, <1>4, <1>5, <1>6 DEF HandoverInv, BookmarkBacked, Covered, Copied
<1>8. SlotBacked'
  BY <1>1, <1>3, <1>4, <1>5 DEF HandoverInv, SlotBacked, Covered, Copied, LogBased
<1>9. FenceOK'
  BY <1>1, <1>3, <1>4, <1>5 DEF HandoverInv, FenceOK, Covered, Copied, LogBased
<1>10. QueryOK'
  BY <1>1 DEF HandoverInv, QueryOK, NextStream, LogBased
<1>11. ReadOK'
  <2>1. position \in Nat
    BY <1>3 DEF IInv, PositionOK
  <2> QED BY <1>1, <1>3, <1>4, <1>5, <2>1 DEF HandoverInv, ReadOK, Covered
<1> QED BY <1>7, <1>8, <1>9, <1>10, <1>11 DEF HandoverInv

\* Between runs with nothing on its way only the state file counts; a failure
\* exposes the streams that were not LOG_BASED.
LEMMA HandoverIdle ==
    ASSUME IInv, CopyInv, HandoverInv, phase' = "idle", pipe' = << >>,
           UNCHANGED <<log, confirmed, file, durable>>, exposed \subseteq exposed',
           Last = 0 \/ \A s \in Streams \ exposed' : LogBased(s)
    PROVE  HandoverInv'
<1>1. Last' = 0 /\ \A s \in Streams : BookmarkAt(0, s)' = BookmarkAt(0, s)
  BY DEF Last, BookmarkAt, StateAt
<1>2. Last \in Nat
  BY TimelineType DEF IInv
<1>3. \A s \in Streams : Missing(s, 0)' = Missing(s, 0)
  BY DEF Missing, StoredAt
<1>4. \A s \in Streams \ exposed' : Copied(0, s) =>
          Covered(s, 0, BookmarkAt(0, s).lsn) /\ Covered(s, 0, confirmed)
  BY <1>2 DEF HandoverInv, BookmarkBacked, SlotBacked
<1>5. BookmarkBacked' /\ SlotBacked'
  BY <1>1, <1>3, <1>4 DEF BookmarkBacked, SlotBacked, Covered, Copied
<1> QED BY <1>5 DEF HandoverInv, FenceOK, QueryOK, ReadOK

LEMMA HandoverStartRun == ASSUME IInv, CopyInv, HandoverInv, StartRun PROVE HandoverInv'
<1>1. /\ UNCHANGED <<log, confirmed, catalog, rows, pipe, file, durable, exposed, last_processed_lsn>>
      /\ phase' = "traditional" /\ phase = "idle" /\ pipe = << >>
      /\ end_lsn' = IF Selected(catalog, "LOG_BASED") # {} THEN WalEnd ELSE None
      /\ session' = LogicalStreams(ResetAll(file.bookmarks))
      /\ todo' = TraditionalStreams(ResetAll(file.bookmarks))
  BY DEF StartRun, server, progress, downstream, mishaps
<1>2. Last = 0 /\ Last' = 1 /\ DataOK /\ DataOK' /\ WalEnd \in Nat /\ WalEnd' = WalEnd
  BY <1>1, StartRunInv, LogType DEF IInv, Last, WalEnd
<1>3. \A s \in Streams : Missing(s, 0)' = Missing(s, 0) /\ Missing(s, 1)' = Missing(s, 0)
  <2>1. StoredAt(0)' = StoredAt(0) /\ StoredAt(0) = durable
    BY <1>1 DEF StoredAt
  <2>2. RowsAt(1)' = {}
    BY <1>1 DEF RowsAt, CopyInv, RowsOK
  <2>3. StoredAt(1)' = StoredAt(0)
    BY <1>1, <2>2 DEF StoredAt
  <2> QED BY <1>1, <2>1, <2>3 DEF Missing
<1>4. ASSUME NEW s \in Streams, NEW k \in 0 .. 1, Copied(k, s)'
      PROVE  /\ Missing(s, k)' = Missing(s, 0) /\ BookmarkAt(k, s)'.lsn = BookmarkAt(0, s).lsn
             /\ Copied(0, s) /\ (LogBased(s) => s \in session')
  <2>1. BookmarkAt(0, s) = file.bookmarks[s]
    BY <1>2, Ends
  <2>2. /\ file.bookmarks[s].copied /\ BookmarkAt(k, s)'.lsn = file.bookmarks[s].lsn
        /\ LogBased(s) => state'.bookmarks[s].copied
    BY <1>4, StartRunWrites DEF Copied
  <2>3. LogBased(s) => s \in session'
    BY <1>1, <2>2, StartRunWrites DEF LogicalStreams, Selected, LogBased, NotSelected
  <2> QED BY <1>3, <2>1, <2>2, <2>3 DEF Copied
<1>5. \A s \in Streams \ exposed : Copied(0, s) =>
          Covered(s, 0, BookmarkAt(0, s).lsn) /\ Covered(s, 0, confirmed)
  BY <1>2 DEF HandoverInv, BookmarkBacked, SlotBacked
<1>6. BookmarkBacked' /\ SlotBacked'
  BY <1>1, <1>2, <1>4, <1>5 DEF BookmarkBacked, SlotBacked, Covered
<1>7. FenceOK'
  <2> SUFFICES ASSUME NEW s \in Streams, LogBased(s)
               PROVE  /\ confirmed <= end_lsn' /\ last_processed_lsn <= end_lsn'
                      /\ state'.bookmarks[s].lsn <= end_lsn'
                      /\ \A k \in 0 .. Last' : BookmarkAt(k, s)'.lsn <= end_lsn'
                      /\ s \notin session' => \A k \in 0 .. Last' : ~Copied(k, s)'
    BY <1>1 DEF FenceOK, LogBased
  <2>1. end_lsn' = WalEnd
    BY <1>1 DEF Selected, LogBased
  <2>2. confirmed <= WalEnd /\ last_processed_lsn <= WalEnd
    BY <1>1, <1>2 DEF DataOK, IInv, PositionOK, None
  <2>3. state'.bookmarks[s].lsn <= WalEnd /\ file.bookmarks[s].lsn <= WalEnd
    BY <1>1, <1>2 DEF DataOK, States, SoundBookmark
  <2>4. \A k \in 0 .. Last' : BookmarkAt(k, s)'.lsn <= WalEnd
    BY <1>2, <2>3, StartRunWrites
  <2> QED BY <1>2, <1>4, <2>1, <2>2, <2>3, <2>4
<1> QED BY <1>1, <1>6, <1>7 DEF HandoverInv, QueryOK, ReadOK

LEMMA HandoverRunFails == ASSUME IInv, CopyInv, HandoverInv, RunFails PROVE HandoverInv'
<1>1. /\ phase # "idle" /\ phase' = "idle" /\ exposed \subseteq exposed'
      /\ \A s \in Streams \ exposed' : LogBased(s)
      /\ UNCHANGED <<log, confirmed, catalog, pipe, file, durable>>
  BY DEF RunFails, Fail, NoProcess, server, downstream, LogBased
<1>2. DataOK /\ Last \in Nat /\ Last' = Len(pipe) /\ Len(pipe) \in Nat /\ Len(pipe) <= Last
  BY <1>1, TimelineType DEF IInv, Last
<1>3. ASSUME NEW k \in 0 .. Len(pipe), NEW s \in Streams
      PROVE  BookmarkAt(k, s)' = BookmarkAt(k, s) /\ Missing(s, k)' = Missing(s, k)
  BY <1>1, <1>2, PastStays DEF Missing
<1>4. BookmarkBacked'
  BY <1>1, <1>2, <1>3 DEF HandoverInv, BookmarkBacked, Covered, Copied
<1>5. SlotBacked'
  BY <1>1, <1>2, <1>3 DEF HandoverInv, SlotBacked, Covered, Copied, LogBased
<1> QED BY <1>1, <1>4, <1>5 DEF HandoverInv, FenceOK, QueryOK, ReadOK

LEMMA HandoverTargetCommit ==
    ASSUME IInv, CopyInv, HandoverInv, TargetCommit PROVE HandoverInv'
<1>1. UNCHANGED <<log, confirmed, catalog, phase, state, end_lsn, front, todo, session, query,
                  position, last_processed_lsn, rows, exposed>>
  BY DEF TargetCommit, server, process, plan, progress, mishaps
<1>2. Last \in Nat /\ Last' = Last - 1 /\ Last > 0 /\ session \subseteq Streams
  BY Forward, TimelineType DEF IInv, DataOK
<1>3. ASSUME NEW k \in 0 .. Last', NEW s \in Streams
      PROVE  /\ k + 1 \in 0 .. Last /\ (k = Last' => k + 1 = Last)
             /\ BookmarkAt(k, s)' = BookmarkAt(k + 1, s) /\ Missing(s, k)' = Missing(s, k + 1)
  BY <1>1, <1>2, Forward DEF Missing, IInv
<1>4. BookmarkBacked'
  BY <1>1, <1>3 DEF HandoverInv, BookmarkBacked, Covered, Copied
<1>5. SlotBacked'
  BY <1>1, <1>3 DEF HandoverInv, SlotBacked, Covered, Copied, LogBased
<1>6. FenceOK'
  BY <1>1, <1>3 DEF HandoverInv, FenceOK, Covered, Copied, LogBased
<1>7. QueryOK'
  BY <1>1 DEF HandoverInv, QueryOK, NextStream, LogBased
<1>8. ReadOK'
  BY <1>1, <1>2, <1>3 DEF HandoverInv, ReadOK, Covered
<1> QED BY <1>4, <1>5, <1>6, <1>7, <1>8 DEF HandoverInv

LEMMA HandoverStutter == ASSUME IInv, HandoverInv, UNCHANGED vars PROVE HandoverInv'
<1>1. UNCHANGED <<log, confirmed, catalog, phase, state, end_lsn, front, todo, session, query,
                  position, last_processed_lsn, rows, pipe, file, durable, exposed>>
  BY DEF vars, server, process, plan, progress, downstream, mishaps
<1>2. Last' = Last /\ Last \in Nat /\ session \subseteq Streams
  BY <1>1, TimelineStays, TimelineType DEF IInv, DataOK
<1>3. ASSUME NEW k \in Nat, NEW s \in Streams
      PROVE  BookmarkAt(k, s)' = BookmarkAt(k, s) /\ Missing(s, k)' = Missing(s, k)
  BY <1>1, TimelineStays DEF Missing
<1>4. BookmarkBacked'
  BY <1>1, <1>2, <1>3 DEF HandoverInv, BookmarkBacked, Covered, Copied
<1>5. SlotBacked'
  BY <1>1, <1>2, <1>3 DEF HandoverInv, SlotBacked, Covered, Copied, LogBased
<1>6. FenceOK'
  BY <1>1, <1>2, <1>3 DEF HandoverInv, FenceOK, Covered, Copied, LogBased
<1>7. QueryOK'
  BY <1>1 DEF HandoverInv, QueryOK, NextStream, LogBased
<1>8. ReadOK'
  BY <1>1, <1>2, <1>3 DEF HandoverInv, ReadOK, Covered
<1> QED BY <1>4, <1>5, <1>6, <1>7, <1>8 DEF HandoverInv

LEMMA HandoverNext ==
    ASSUME break_at_end, ~use_secondary, IInv, CopyInv, HandoverInv, [Next]_vars
    PROVE  HandoverInv'
<1>1. CASE ChangeCatalog
  <2>1. /\ phase' = "idle" /\ pipe' = << >> /\ phase = "idle" /\ pipe = << >>
        /\ UNCHANGED <<log, confirmed, file, durable, exposed>>
    BY <1>1 DEF ChangeCatalog, server, process, downstream
  <2>2. Last = 0
    BY <2>1 DEF Last
  <2> QED BY <2>1, <2>2, HandoverIdle
<1>2. CASE PipelineCrash
  <2>1. /\ phase' = "idle" /\ pipe' = << >> /\ exposed \subseteq exposed'
        /\ UNCHANGED <<log, confirmed, file, durable>>
        /\ \A s \in Streams \ exposed' : LogBased(s)
    BY <1>2 DEF PipelineCrash, Fail, NoProcess, server, LogBased
  <2> QED BY <2>1, HandoverIdle
<1> QED BY <1>1, <1>2, HandoverCommit, HandoverStartRun, HandoverStartStream, HandoverCopySome,
           HandoverFinishStream, HandoverFinishRun, HandoverStartSession, HandoverSessionReads,
           HandoverFeedback, HandoverFinishSession, HandoverRunFails, HandoverTargetCommit,
           HandoverStutter DEF Next

-----------------------------------------------------------------------------
(***************************************************************************)
(* The theorems.  Both settings are needed: SyncSharedSlot and SyncReplica *)
(* are the counterexamples without them.                                   *)
(***************************************************************************)

\* When runs break at the end LSN and copies read the primary, a copied stream
\* lacks nothing that lies before its bookmark or before the slot, whichever
\* STATE message the target gets to.
THEOREM HandoverInvariant ==
    ASSUME break_at_end, ~use_secondary
    PROVE  Spec => [](IInv /\ CopyInv /\ HandoverInv)
<1>1. IInv /\ CopyInv /\ HandoverInv /\ [Next]_vars => HandoverInv'
  BY HandoverNext
<1> QED BY CopyInvariant, HandoverInit, <1>1, PTL DEF Spec

\* Under these settings the copy and the WAL stream dovetail: of a LOG_BASED
\* stream with a committed copy, every change is stored or still to come, in
\* its bookmark's and in the slot's eyes (SPEC.md 6.3.4, 10.1).
THEOREM NothingIsForgotten ==
    ASSUME break_at_end, ~use_secondary
    PROVE  Spec => []NothingForgotten
<1>1. IInv /\ HandoverInv => NothingForgotten
  <2> SUFFICES ASSUME IInv, HandoverInv, NEW s \in Selected(catalog, "LOG_BASED") \ exposed,
                      file.bookmarks[s].copied,
                      NEW i \in DOMAIN log, log[i] = s, i \notin durable
               PROVE  i >= file.bookmarks[s].lsn /\ i >= confirmed
    BY DEF NothingForgotten, Recoverable
  <2>1. s \in Streams \ exposed /\ LogBased(s)
    BY DEF Selected, LogBased
  <2>2. 0 \in 0 .. Last /\ BookmarkAt(0, s) = file.bookmarks[s] /\ StoredAt(0) = durable
    BY <2>1, TimelineType, Ends DEF IInv
  <2>3. i \in Missing(s, 0)
    BY <2>2, LogType DEF Missing, IInv
  <2> QED BY <2>1, <2>2, <2>3 DEF HandoverInv, BookmarkBacked, SlotBacked, Covered, Copied
<1> QED BY HandoverInvariant, <1>1, PTL
=============================================================================
