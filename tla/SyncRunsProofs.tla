--------------------------- MODULE SyncRunsProofs ---------------------------
(***************************************************************************)
(* What holds of SyncRuns for any number of streams, all methods and keys, *)
(* both settings and every bound: types, and that the state file is usable *)
(* under whatever catalog comes next.                                      *)
(***************************************************************************)
EXTENDS SyncRuns, WellFoundedInduction, TLAPS

-----------------------------------------------------------------------------
(***************************************************************************)
(* The inductive invariant.  StateUsable speaks of the state file, which   *)
(* is a STATE message from the pipe, which is the state object of some     *)
(* moment of a run: the invariant says of all of them that a bookmark is   *)
(* sound, which is what the method that wrote it last can rely on.  That a *)
(* strategy keeps its bookmark sound depends on what the plan of the run   *)
(* and the start of the strategy have made of it.                          *)
(***************************************************************************)

\* What a strategy may rely on in a bookmark that it has written itself.
Sound(b) ==
    /\ b.last_replication_method \in {"none", "FULL_TABLE"} => (b.xmin => b.version)
    /\ b.last_replication_method \in {"none", "INCREMENTAL"} =>
          /\ ValidForIncremental(b)
          /\ b.replication_key_value \in {None, b.replication_key}
    /\ b.last_replication_method \in {"none", "LOG_BASED"} =>
          /\ b.xmin => b.lsn # None
          /\ b.lsn # None => b.version

\* Sound bookmarks of a log that ends before position e.
SoundBookmark(e) == {b \in Bookmark : Sound(b) /\ b.lsn <= e}
States(e)  == [currently_syncing : Streams \cup {None}, bookmarks : [Streams -> SoundBookmark(e)]]
Message(e) == [state : States(e), rows : SUBSET (1 .. e - 1)]

DataOK ==
    /\ log \in Seq(Streams) /\ Len(log) <= MaxLsn
    /\ confirmed \in 1 .. WalEnd
    /\ catalog \in [Streams -> Entries]
    /\ phase \in {"idle", "traditional", "copying", "logical"}
    /\ state \in States(WalEnd) /\ file \in States(WalEnd)
    /\ pipe \in Seq(Message(WalEnd))
    /\ end_lsn \in 0 .. WalEnd
    /\ front \in Streams \cup {None}
    /\ todo \subseteq Streams /\ session \subseteq Streams /\ todo \cap session = {}
    /\ query \in 0 .. Len(log)
    /\ rows \subseteq 1 .. Len(log) /\ durable \subseteq 1 .. Len(log)
    /\ edits \in 0 .. MaxEdits /\ failures \in 0 .. MaxFailures /\ exposed \subseteq Streams

\* The session's position; before it there is none.
PositionOK ==
    /\ position \in 0 .. WalEnd
    /\ last_processed_lsn \in 0 .. Len(log) /\ last_processed_lsn <= position
    /\ last_fully_processed_lsn \in 0 .. last_processed_lsn
    /\ phase # "logical" => last_processed_lsn = None /\ last_fully_processed_lsn = None

\* A bookmark as the plan of the run leaves it for the strategy of entry e.
PlannedFor(b, e) ==
    /\ e # NotSelected
    /\ b.last_replication_method = e.method
    /\ e.method = "INCREMENTAL" => b.replication_key \in {None, e.key}
    /\ e.method = "LOG_BASED" => end_lsn # None

TodoOK == phase # "idle" => \A s \in todo : PlannedFor(state.bookmarks[s], catalog[s])

\* What a session may rely on.
SessionOK ==
    phase # "idle" =>
        \A s \in session : /\ catalog[s].method = "LOG_BASED"
                           /\ state.bookmarks[s].last_replication_method = "LOG_BASED"
                           /\ state.bookmarks[s].version
                           /\ ~state.bookmarks[s].xmin
                           /\ state.bookmarks[s].lsn # None

\* What a running copy may rely on: what its start has written.
Started(b, e) ==
    /\ b.version
    /\ e.method = "INCREMENTAL" => b.replication_key = e.key
    /\ e.method = "LOG_BASED" => b.lsn # None

CopyOK ==
    phase = "copying" => todo # {} /\ Started(state.bookmarks[NextStream], catalog[NextStream])

IInv == DataOK /\ PositionOK /\ TodoOK /\ SessionOK /\ CopyOK

-----------------------------------------------------------------------------
(***************************************************************************)
(* Facts about numbers and sets of them.                                   *)
(***************************************************************************)

LEMMA MinOf ==
    ASSUME NEW T \in SUBSET Nat, T # {}
    PROVE  Min(T) \in T /\ \A x \in T : Min(T) <= x
<1> DEFINE R == OpToRel(<, Nat)
<1>1. \A x, y \in Nat : y < x => <<y, x>> \in R
  BY DEF OpToRel
<1>2. PICK x \in T : \A y \in T : x <= y
  <2>1. IsWellFoundedOn(R, Nat)
    BY NatLessThanWellFounded
  <2> HIDE DEF R
  <2>2. PICK x \in T : \A y \in T : ~ (<<y, x>> \in R)
    BY <2>1, WFMin
  <2>3. \A y \in T : x \in Nat /\ y \in Nat /\ ~ (y < x)
    BY <1>1, <2>2
  <2> QED BY <2>3
<1> QED BY <1>2 DEF Min

LEMMA MaxOfTwo ==
    ASSUME NEW x \in Nat, NEW y \in Nat
    PROVE  Max({x, y}) \in {x, y} /\ x <= Max({x, y}) /\ y <= Max({x, y})
<1>1. \E z \in {x, y} : \A w \in {x, y} : w <= z
  OBVIOUS
<1> QED BY <1>1 DEF Max

LEMMA NextIsTodo ==
    ASSUME DataOK, todo # {}
    PROVE  NextStream \in todo /\ NextStream \in Streams
<1>1. todo \in SUBSET Nat
  BY StreamsAssumption DEF DataOK, Streams
<1>2. Min(todo) \in todo
  BY <1>1, MinOf
<1> QED BY <1>2 DEF NextStream, DataOK

LEMMA LogType ==
    ASSUME DataOK
    PROVE  /\ Len(log) \in Nat /\ WalEnd \in Nat /\ WalEnd # None /\ WalEnd <= MaxLsn + 1
           /\ DOMAIN log = 1 .. Len(log)
           /\ \A i \in 1 .. Len(log) : log[i] \in Streams
<1>1. log \in Seq(Streams) /\ Len(log) <= MaxLsn
  BY DEF DataOK
<1>2. Len(log) \in Nat /\ DOMAIN log = 1 .. Len(log) /\ \A i \in 1 .. Len(log) : log[i] \in Streams
  BY <1>1
<1>3. MaxLsn \in Nat
  BY BoundsAssumption
<1> QED BY <1>1, <1>2, <1>3 DEF WalEnd, None

-----------------------------------------------------------------------------
(***************************************************************************)
(* Facts about bookmarks.                                                  *)
(***************************************************************************)

LEMMA NoBookmarkSound == ASSUME NEW e \in Nat PROVE NoBookmark \in SoundBookmark(e)
BY BoundsAssumption DEF NoBookmark, SoundBookmark, Bookmark, Sound, ValidForIncremental, None

LEMMA SoundMonotone ==
    ASSUME NEW d \in Nat, NEW e \in Nat, d <= e
    PROVE  SoundBookmark(d) \subseteq SoundBookmark(e)
BY DEF SoundBookmark, Bookmark

\* The plan of a run wipes what the selected strategy could not use.
LEMMA ResetSound ==
    ASSUME NEW e \in Nat, NEW b \in SoundBookmark(e), NEW entry \in Entries, entry # NotSelected
    PROVE  /\ Reset(b, entry) \in SoundBookmark(e)
           /\ Reset(b, entry).last_replication_method = entry.method
           /\ entry.method = "INCREMENTAL" =>
                  Reset(b, entry).replication_key \in {None, entry.key}
           /\ Usable(Reset(b, entry), entry)
<1>1. entry.method \in Methods /\ entry.method # "none"
  BY MethodsAssumption DEF Entries, NotSelected
<1>2. b \in Bookmark /\ Sound(b) /\ b.lsn <= e
  BY DEF SoundBookmark
<1> DEFINE kept  == [b EXCEPT !.last_replication_method = entry.method]
           wiped == [NoBookmark EXCEPT !.last_replication_method = entry.method]
<1>3. wiped \in SoundBookmark(e) /\ Usable(wiped, entry)
  <2>1. wiped \in Bookmark
    BY <1>1, NoBookmarkSound DEF SoundBookmark, Bookmark
  <2>2. /\ wiped.lsn = None /\ ~wiped.xmin /\ wiped.replication_key_value = None
        /\ wiped.replication_key = None
    BY DEF NoBookmark, None
  <2>3. Sound(wiped) /\ Usable(wiped, entry)
    BY <2>2, <1>1, MethodsAssumption DEF Sound, Usable, Classify, ValidForIncremental
  <2> HIDE DEF wiped
  <2> QED BY <2>1, <2>2, <2>3 DEF SoundBookmark, None
<1>4. CASE Reset(b, entry) = wiped
  BY <1>3, <1>4 DEF NoBookmark
<1>5. CASE Reset(b, entry) = kept /\ Reset(b, entry) # wiped
  <2>1. /\ b.last_replication_method \in {"none", entry.method}
        /\ entry.method = "INCREMENTAL" => b.replication_key \in {None, entry.key}
    BY <1>5 DEF Reset
  <2>2. kept \in Bookmark
    BY <1>1, <1>2 DEF Bookmark
  <2>3. /\ kept.last_replication_method = entry.method /\ kept.lsn = b.lsn /\ kept.xmin = b.xmin
        /\ kept.version = b.version /\ kept.replication_key = b.replication_key
        /\ kept.replication_key_value = b.replication_key_value
    BY <1>2 DEF Bookmark
  <2>4. Sound(kept)
    BY <1>1, <1>2, <2>1, <2>3 DEF Sound, ValidForIncremental
  <2>5. Usable(kept, entry)
    BY <1>1, <1>2, <2>1, <2>3, MethodsAssumption DEF Sound, Usable, Classify, ValidForIncremental
  <2> QED BY <1>2, <1>5, <2>1, <2>2, <2>3, <2>4, <2>5 DEF SoundBookmark
<1> QED BY <1>4, <1>5 DEF Reset

-----------------------------------------------------------------------------
(***************************************************************************)
(* Facts about state objects and STATE messages.                           *)
(***************************************************************************)

LEMMA StatesMonotone ==
    ASSUME NEW d \in Nat, NEW e \in Nat, d <= e
    PROVE  States(d) \subseteq States(e) /\ Seq(Message(d)) \subseteq Seq(Message(e))
<1>1. SoundBookmark(d) \subseteq SoundBookmark(e)
  BY SoundMonotone
<1>2. States(d) \subseteq States(e)
  BY <1>1 DEF States
<1>3. SUBSET (1 .. d - 1) \subseteq SUBSET (1 .. e - 1)
  OBVIOUS
<1>4. Message(d) \subseteq Message(e)
  BY <1>2, <1>3 DEF Message
<1>5. ASSUME NEW q \in Seq(Message(d))
      PROVE  q \in Seq(Message(e))
  <2>1. \A k \in 1 .. Len(q) : q[k] \in Message(e)
    BY <1>4
  <2> QED BY <2>1
<1> QED BY <1>2, <1>5

LEMMA EmittedState ==
    ASSUME NEW e \in Nat, pipe \in Seq(Message(e)), NEW st \in States(e),
           NEW changes \in SUBSET (1 .. e - 1), EmitState(st, changes)
    PROVE  pipe' \in Seq(Message(e))
<1>1. [state |-> st, rows |-> changes] \in Message(e)
  BY DEF Message
<1> QED BY <1>1 DEF EmitState

\* A STATE message that sets the session's bookmarks.
LEMMA WrittenBookmarks ==
    ASSUME IInv, phase = "logical", NEW l \in 1 .. WalEnd
    PROVE  /\ WriteAllBookmarks(l) \in States(WalEnd)
           /\ \A s \in session :
                 WriteAllBookmarks(l).bookmarks[s] = [state.bookmarks[s] EXCEPT !.lsn = l]
<1>1. state \in States(WalEnd) /\ WalEnd \in Nat /\ WalEnd <= MaxLsn + 1
  BY LogType DEF IInv, DataOK
<1>2. ASSUME NEW s \in session
      PROVE  [state.bookmarks[s] EXCEPT !.lsn = l] \in SoundBookmark(WalEnd)
  <2> DEFINE b == state.bookmarks[s]
             c == [b EXCEPT !.lsn = l]
  <2>1. b \in Bookmark /\ b.last_replication_method = "LOG_BASED" /\ b.version /\ ~b.xmin
    BY <1>1 DEF IInv, SessionOK, DataOK, States, SoundBookmark
  <2>2. c \in Bookmark /\ c.lsn = l
    BY <1>1, <2>1, BoundsAssumption DEF Bookmark
  <2>3. Sound(c)
    BY <2>1 DEF Sound, Bookmark
  <2> HIDE DEF c
  <2>4. c \in SoundBookmark(WalEnd)
    BY <1>1, <2>2, <2>3 DEF SoundBookmark
  <2> QED BY <2>4 DEF c
<1>3. session \subseteq Streams
  BY DEF IInv, DataOK
<1> QED BY <1>1, <1>2, <1>3 DEF WriteAllBookmarks, States

LEMMA CommittedType ==
    ASSUME NEW e \in Nat, NEW bs \in [Streams -> SoundBookmark(e)], session \subseteq Streams
    PROVE  CommittedMinLsn(bs) \in 0 .. e
<1> DEFINE lsns == {bs[s].lsn : s \in session} \ {None}
<1>1. lsns \in SUBSET Nat /\ \A l \in lsns : l <= e
  BY DEF SoundBookmark, Bookmark
<1>2. CASE lsns = {}
  BY <1>2 DEF CommittedMinLsn, None
<1>3. CASE lsns # {}
  <2> HIDE DEF lsns
  <2>1. Min(lsns) \in lsns
    BY <1>1, <1>3, MinOf
  <2>2. CommittedMinLsn(bs) = Min(lsns)
    BY <1>3 DEF lsns, CommittedMinLsn
  <2>3. \A l \in lsns : l \in 0 .. e
    BY <1>1
  <2> QED BY <2>1, <2>2, <2>3
<1> QED BY <1>2, <1>3

\* A process that is gone leaves the initial state of one behind.
LEMMA IdleInv ==
    ASSUME DataOK, NoProcess, UNCHANGED <<server, catalog>>,
           file' \in States(WalEnd), pipe' \in Seq(Message(WalEnd)),
           durable' \subseteq 1 .. Len(log),
           edits' \in 0 .. MaxEdits, failures' \in 0 .. MaxFailures, exposed' \subseteq Streams
    PROVE  IInv'
<1>1. WalEnd' = WalEnd /\ Len(log)' = Len(log) /\ log' = log /\ confirmed' = confirmed
  BY DEF server, WalEnd
<1>2. Len(log) \in Nat /\ WalEnd \in Nat
  BY LogType
<1>3. state' \in States(WalEnd)
  BY <1>2, NoBookmarkSound DEF NoProcess, States
<1>4. States(WalEnd)' = States(WalEnd) /\ Message(WalEnd)' = Message(WalEnd)
  BY <1>1 DEF States, Message, SoundBookmark, Sound, Bookmark, ValidForIncremental
<1>5. DataOK'
  BY <1>1, <1>2, <1>3, <1>4 DEF DataOK, NoProcess, None
<1>6. PositionOK'
  BY <1>1, <1>2 DEF PositionOK, NoProcess, None
<1>7. phase' = "idle"
  BY DEF NoProcess
<1> QED BY <1>5, <1>6, <1>7 DEF IInv, TodoOK, SessionOK, CopyOK

-----------------------------------------------------------------------------
(***************************************************************************)
(* The initial states and the steps.                                       *)
(***************************************************************************)

LEMMA InitInv == Init => IInv
<1> SUFFICES ASSUME Init PROVE IInv
  OBVIOUS
<1>1. log = << >> /\ Len(log) = 0 /\ WalEnd = 1
  BY DEF Init, WalEnd
<1>2. state \in States(1) /\ file = state
  BY NoBookmarkSound DEF Init, States
<1>3. DataOK
  BY <1>1, <1>2, BoundsAssumption DEF Init, DataOK, None
<1>4. PositionOK
  BY <1>1 DEF Init, PositionOK, None
<1> QED BY <1>3, <1>4 DEF Init, IInv, TodoOK, SessionOK, CopyOK

\* The parts of the invariant that a step has left alone.
LEMMA SameLog ==
    ASSUME DataOK, UNCHANGED log
    PROVE  /\ WalEnd' = WalEnd /\ Len(log)' = Len(log) /\ log' = log
           /\ States(WalEnd)' = States(WalEnd) /\ Message(WalEnd)' = Message(WalEnd)
           /\ Len(log) \in Nat /\ WalEnd \in Nat
<1>1. WalEnd' = WalEnd
  BY DEF WalEnd
<1> QED BY <1>1, LogType DEF States, Message, SoundBookmark, Sound, Bookmark, ValidForIncremental

LEMMA CommitInv == ASSUME IInv, Commit PROVE IInv'
<1>1. PICK s \in Streams : log' = Append(log, s)
  BY DEF Commit
<1>2. log \in Seq(Streams) /\ Len(log) \in Nat /\ Len(log) < MaxLsn
  BY LogType DEF IInv, DataOK, Commit
<1>3. /\ log' \in Seq(Streams) /\ Len(log)' = Len(log) + 1
      /\ WalEnd' = WalEnd + 1 /\ WalEnd \in Nat /\ WalEnd + 1 \in Nat
  BY <1>1, <1>2 DEF WalEnd
<1>4. /\ UNCHANGED <<confirmed, catalog, phase, state, end_lsn, front, todo, session, query,
                     position, last_processed_lsn, last_fully_processed_lsn, rows, pipe, file,
                     durable, edits, failures, exposed>>
  BY DEF Commit, process, plan, progress, downstream, mishaps
<1>5. States(WalEnd)' = States(WalEnd + 1) /\ Message(WalEnd)' = Message(WalEnd + 1)
  BY <1>3 DEF States, Message, SoundBookmark, Sound, Bookmark, ValidForIncremental
<1>6. /\ state' \in States(WalEnd)' /\ file' \in States(WalEnd)'
      /\ pipe' \in Seq(Message(WalEnd)')
  BY <1>3, <1>4, <1>5, StatesMonotone DEF IInv, DataOK
<1>7. DataOK'
  <2>1. /\ confirmed' \in 1 .. WalEnd' /\ end_lsn' \in 0 .. WalEnd'
        /\ query' \in 0 .. Len(log)' /\ rows' \subseteq 1 .. Len(log)'
        /\ durable' \subseteq 1 .. Len(log)'
    BY <1>2, <1>3, <1>4 DEF IInv, DataOK
  <2>2. Len(log)' <= MaxLsn
    BY <1>2, <1>3, BoundsAssumption
  <2> QED BY <1>3, <1>4, <1>6, <2>1, <2>2 DEF IInv, DataOK
<1>8. PositionOK'
  BY <1>2, <1>3, <1>4 DEF IInv, PositionOK
<1>9. TodoOK' /\ SessionOK' /\ CopyOK'
  BY <1>4 DEF IInv, TodoOK, SessionOK, CopyOK, PlannedFor, Started, NextStream
<1> QED BY <1>7, <1>8, <1>9 DEF IInv

LEMMA ChangeCatalogInv == ASSUME IInv, ChangeCatalog PROVE IInv'
<1>1. /\ UNCHANGED <<log, confirmed, phase, state, end_lsn, front, todo, session, query,
                     position, last_processed_lsn, last_fully_processed_lsn, rows, pipe, file,
                     durable, failures, exposed>>
      /\ phase = "idle" /\ edits' = edits + 1 /\ edits < MaxEdits
  BY DEF ChangeCatalog, server, process, plan, progress, downstream
<1>2. catalog' \in [Streams -> Entries]
  BY DEF ChangeCatalog, IInv, DataOK
<1>3. DataOK'
  <2>1. /\ state' \in States(WalEnd)' /\ file' \in States(WalEnd)' /\ pipe' \in Seq(Message(WalEnd)')
        /\ WalEnd' = WalEnd /\ Len(log)' = Len(log)
    BY <1>1, SameLog DEF IInv, DataOK
  <2>2. edits' \in 0 .. MaxEdits
    BY <1>1, BoundsAssumption DEF IInv, DataOK
  <2> QED BY <1>1, <1>2, <2>1, <2>2 DEF IInv, DataOK
<1>4. PositionOK'
  BY <1>1, SameLog DEF IInv, PositionOK
<1> QED BY <1>1, <1>3, <1>4 DEF IInv, TodoOK, SessionOK, CopyOK

LEMMA StartRunInv == ASSUME IInv, StartRun PROVE IInv'
<1> DEFINE bookmarks == ResetAll(file.bookmarks)
<1>1. /\ UNCHANGED <<log, confirmed, catalog, query, position, last_processed_lsn,
                     last_fully_processed_lsn, rows, pipe, file, durable, edits, failures, exposed>>
      /\ phase' = "traditional" /\ phase = "idle"
      /\ state' = [file EXCEPT !.bookmarks = bookmarks]
      /\ end_lsn' = IF Selected(catalog, "LOG_BASED") # {} THEN WalEnd ELSE None
      /\ front' = file.currently_syncing
      /\ session' = LogicalStreams(bookmarks) /\ todo' = TraditionalStreams(bookmarks)
  BY DEF StartRun, server, progress, downstream, mishaps
<1>2. file \in States(WalEnd) /\ WalEnd \in Nat /\ WalEnd # None /\ catalog \in [Streams -> Entries]
  BY LogType DEF IInv, DataOK
<1>3. ASSUME NEW s \in Streams
      PROVE  /\ bookmarks[s] \in SoundBookmark(WalEnd)
             /\ catalog[s] # NotSelected =>
                    /\ bookmarks[s].last_replication_method = catalog[s].method
                    /\ catalog[s].method = "INCREMENTAL" =>
                           bookmarks[s].replication_key \in {None, catalog[s].key}
  <2>1. file.bookmarks[s] \in SoundBookmark(WalEnd) /\ catalog[s] \in Entries
    BY <1>2 DEF States
  <2> QED BY <1>2, <2>1, ResetSound DEF ResetAll
<1>4. state'.bookmarks = bookmarks /\ state' \in States(WalEnd)
  <2>1. bookmarks \in [Streams -> SoundBookmark(WalEnd)]
    BY <1>3 DEF ResetAll
  <2> HIDE DEF bookmarks
  <2> QED BY <1>1, <1>2, <2>1 DEF States
<1> HIDE DEF bookmarks
<1>5. todo' \subseteq Streams /\ session' \subseteq Streams /\ todo' \cap session' = {}
  BY <1>1 DEF LogicalStreams, TraditionalStreams, Selected
<1>6. front' \in Streams \cup {None} /\ end_lsn' \in 0 .. WalEnd
  BY <1>1, <1>2 DEF States, None
<1>7. DataOK'
  BY <1>1, <1>4, <1>5, <1>6, SameLog DEF IInv, DataOK
<1>8. PositionOK'
  BY <1>1, SameLog DEF IInv, PositionOK
<1>9. TodoOK'
  <2> SUFFICES ASSUME NEW s \in todo'
               PROVE  /\ catalog[s] # NotSelected
                      /\ bookmarks[s].last_replication_method = catalog[s].method
                      /\ catalog[s].method = "INCREMENTAL" =>
                             bookmarks[s].replication_key \in {None, catalog[s].key}
                      /\ catalog[s].method = "LOG_BASED" => end_lsn' # None
    BY <1>1, <1>4 DEF TodoOK, PlannedFor
  <2>1. s \in Streams /\ catalog[s] # NotSelected /\ catalog' = catalog
    BY <1>1 DEF TraditionalStreams
  <2>2. catalog[s].method = "LOG_BASED" => end_lsn' # None
    BY <1>1, <1>2, <2>1 DEF Selected
  <2> QED BY <1>3, <2>1, <2>2
<1>10. SessionOK'
  <2> SUFFICES ASSUME NEW s \in session'
               PROVE  /\ catalog[s].method = "LOG_BASED"
                      /\ bookmarks[s].last_replication_method = "LOG_BASED"
                      /\ bookmarks[s].version /\ ~bookmarks[s].xmin /\ bookmarks[s].lsn # None
    BY <1>1, <1>4 DEF SessionOK
  <2>1. /\ s \in Streams /\ catalog[s].method = "LOG_BASED" /\ catalog[s] # NotSelected
        /\ Classify(bookmarks[s]) = "logical"
    BY <1>1 DEF LogicalStreams, Selected, NotSelected
  <2>2. bookmarks[s].lsn # None /\ ~bookmarks[s].xmin
    BY <2>1 DEF Classify
  <2>3. bookmarks[s].last_replication_method = "LOG_BASED" /\ Sound(bookmarks[s])
    BY <1>3, <2>1 DEF SoundBookmark
  <2> QED BY <2>1, <2>2, <2>3 DEF Sound
<1> QED BY <1>1, <1>7, <1>8, <1>9, <1>10 DEF IInv, CopyOK

\* A strategy that writes the bookmark of the stream in turn disturbs neither
\* the plan of the others nor what the session will find.
LEMMA OthersUndisturbed ==
    ASSUME IInv, NEW s \in todo, NEW b, phase # "idle",
           state'.bookmarks = [state.bookmarks EXCEPT ![s] = b],
           UNCHANGED <<catalog, end_lsn, session>>,
           todo' \subseteq todo
    PROVE  /\ (s \in todo' => PlannedFor(b, catalog[s])) => TodoOK'
           /\ SessionOK'
<1>1. \A t \in Streams \ {s} : state'.bookmarks[t] = state.bookmarks[t]
  BY DEF IInv, DataOK, States
<1>2. state'.bookmarks[s] = b /\ s \in Streams
  BY DEF IInv, DataOK, States
<1>3. ASSUME s \in todo' => PlannedFor(b, catalog[s])
      PROVE  TodoOK'
  <2> SUFFICES ASSUME NEW t \in todo'
               PROVE  PlannedFor(state.bookmarks[t], catalog[t])'
    BY DEF TodoOK
  <2>1. t \in todo /\ t \in Streams
    BY DEF IInv, DataOK
  <2>2. CASE t = s
    BY <1>2, <1>3, <2>2 DEF PlannedFor
  <2>3. CASE t # s
    BY <1>1, <2>1, <2>3 DEF PlannedFor, IInv, TodoOK
  <2> QED BY <2>2, <2>3
<1>4. SessionOK'
  <2>1. \A t \in session : t \in Streams \ {s}
    BY DEF IInv, DataOK
  <2> QED BY <1>1, <2>1 DEF IInv, SessionOK
<1> QED BY <1>3, <1>4

\* What the strategies do to the bookmark of their stream.
LEMMA PreparedSound ==
    ASSUME IInv, phase # "idle", NEW s \in todo,
           catalog[s].method = "INCREMENTAL" => ValidForIncremental(state.bookmarks[s])
    PROVE  LET b == Prepared(state.bookmarks[s], catalog[s])
           IN  b \in SoundBookmark(WalEnd) /\ PlannedFor(b, catalog[s]) /\ Started(b, catalog[s])
<1> DEFINE b == state.bookmarks[s]
           c == Prepared(b, catalog[s])
<1>1. /\ b \in Bookmark /\ Sound(b) /\ b.lsn <= WalEnd /\ PlannedFor(b, catalog[s])
      /\ end_lsn \in 0 .. WalEnd /\ WalEnd \in Nat /\ WalEnd <= MaxLsn + 1
  BY LogType DEF IInv, DataOK, States, SoundBookmark, TodoOK
<1>2. /\ catalog[s] \in Entries
      /\ catalog[s].method \in {"FULL_TABLE", "INCREMENTAL", "LOG_BASED"}
  BY <1>1, MethodsAssumption DEF IInv, DataOK, Entries, PlannedFor, NotSelected
<1> HIDE DEF b
<1>3. CASE catalog[s].method = "FULL_TABLE"
  <2>1. c = [b EXCEPT !.version = TRUE]
    BY <1>3 DEF Prepared
  <2>2. c \in Bookmark /\ c.lsn = b.lsn /\ c.version /\ c.last_replication_method = "FULL_TABLE"
    BY <1>1, <1>3, <2>1 DEF Bookmark, PlannedFor
  <2> HIDE DEF c
  <2>3. Sound(c)
    BY <2>2 DEF Sound
  <2> QED BY <1>1, <1>3, <2>2, <2>3 DEF SoundBookmark, PlannedFor, Started, c, b
<1>4. CASE catalog[s].method = "INCREMENTAL"
  <2>1. c = [b EXCEPT !.version = TRUE, !.replication_key = catalog[s].key]
    BY <1>4 DEF Prepared
  <2>2. catalog[s].key \in Keys
    BY <1>1, <1>2, <1>4 DEF Entries, NotSelected
  <2>3. /\ c \in Bookmark /\ c.lsn = b.lsn /\ c.xmin = b.xmin /\ c.version
        /\ c.last_replication_method = "INCREMENTAL"
        /\ c.replication_key = catalog[s].key
        /\ c.replication_key_value = b.replication_key_value
    BY <1>1, <1>4, <2>1, <2>2 DEF Bookmark, PlannedFor
  <2>4. b.replication_key_value \in {None, catalog[s].key}
    BY <1>1, <1>4 DEF Sound, PlannedFor
  <2> HIDE DEF c
  <2>5. Sound(c)
    BY <1>1, <1>4, <2>3, <2>4 DEF Sound, ValidForIncremental, PlannedFor
  <2> QED BY <1>1, <1>4, <2>3, <2>5 DEF SoundBookmark, PlannedFor, Started, c, b
<1>5. CASE catalog[s].method = "LOG_BASED"
  <2> DEFINE l == IF b.lsn = None THEN end_lsn ELSE b.lsn
  <2>1. c = [b EXCEPT !.version = TRUE, !.lsn = l]
    BY <1>5 DEF Prepared
  <2>2. l \in 0 .. WalEnd /\ l # None /\ l \in 0 .. MaxLsn + 1
    BY <1>1, <1>5, BoundsAssumption DEF PlannedFor, Bookmark
  <2> HIDE DEF l
  <2>3. /\ c \in Bookmark /\ c.lsn = l /\ c.version
        /\ c.last_replication_method = "LOG_BASED"
    BY <1>1, <1>5, <2>1, <2>2 DEF Bookmark, PlannedFor
  <2> HIDE DEF c
  <2>4. Sound(c)
    BY <2>2, <2>3 DEF Sound
  <2> QED BY <1>1, <1>5, <2>2, <2>3, <2>4 DEF SoundBookmark, PlannedFor, Started, c, b
<1> QED BY <1>2, <1>3, <1>4, <1>5 DEF b

LEMMA StartStreamInv == ASSUME IInv, StartStream PROVE IInv'
<1> DEFINE s == NextStream
           b == Prepared(state.bookmarks[s], catalog[s])
<1>1. /\ UNCHANGED <<log, confirmed, catalog, end_lsn, front, todo, session, position,
                     last_processed_lsn, last_fully_processed_lsn, rows, file, durable, edits,
                     failures, exposed>>
      /\ phase = "traditional" /\ phase' = "copying" /\ todo # {}
      /\ state' = [state EXCEPT !.currently_syncing = s,
                                !.bookmarks[s] = Prepared(state.bookmarks[s], catalog[s])]
      /\ catalog[s].method = "INCREMENTAL" => ValidForIncremental(state.bookmarks[s])
      /\ query' \in Snapshots /\ EmitState(state', {})
  BY DEF StartStream, server, plan, progress, mishaps
<1>2. s \in todo /\ s \in Streams /\ NextStream' = NextStream
  BY <1>1, NextIsTodo DEF IInv, NextStream
<1> HIDE DEF s
<1>3. b \in SoundBookmark(WalEnd) /\ PlannedFor(b, catalog[s]) /\ Started(b, catalog[s])
  BY <1>1, <1>2, PreparedSound
<1>4. state \in States(WalEnd) /\ WalEnd \in Nat
  BY LogType DEF IInv, DataOK
<1>5. state' \in States(WalEnd) /\ state'.bookmarks = [state.bookmarks EXCEPT ![s] = b]
  <2>1. state' = [state EXCEPT !.currently_syncing = s, !.bookmarks[s] = b]
    BY <1>1
  <2> HIDE DEF b
  <2> QED BY <1>2, <1>3, <1>4, <2>1 DEF States
<1> HIDE DEF b
<1>6. pipe' \in Seq(Message(WalEnd))
  BY <1>1, <1>4, <1>5, EmittedState DEF IInv, DataOK
<1>7. query' \in 0 .. Len(log)
  BY <1>1, LogType DEF Snapshots, IInv
<1>8. DataOK'
  BY <1>1, <1>5, <1>6, <1>7, SameLog DEF IInv, DataOK
<1>9. PositionOK'
  BY <1>1, SameLog DEF IInv, PositionOK
<1>10. TodoOK' /\ SessionOK'
  BY <1>1, <1>2, <1>3, <1>5, OthersUndisturbed
<1>11. CopyOK'
  <2>1. state'.bookmarks[s] = b
    BY <1>2, <1>4, <1>5 DEF States
  <2> QED BY <1>1, <1>2, <1>3, <2>1 DEF CopyOK, Started, s
<1> QED BY <1>8, <1>9, <1>10, <1>11 DEF IInv

LEMMA CopySomeInv == ASSUME IInv, CopySome PROVE IInv'
<1> DEFINE s == NextStream
           b == state.bookmarks[s]
           c == IF catalog[s].method = "INCREMENTAL"
                THEN [b EXCEPT !.replication_key_value = catalog[s].key]
                ELSE [b EXCEPT !.xmin = TRUE]
<1>1. /\ UNCHANGED <<log, confirmed, catalog, end_lsn, front, todo, session, query, position,
                     last_processed_lsn, last_fully_processed_lsn, rows, file, durable, edits,
                     failures, exposed>>
      /\ phase = "copying" /\ phase' = phase
      /\ EmitState(state', {}) \/ pipe' = pipe
  BY DEF CopySome, server, plan, progress, mishaps
<1>2. todo # {} /\ s \in todo /\ s \in Streams /\ NextStream' = NextStream
  BY <1>1, NextIsTodo DEF IInv, CopyOK, NextStream
<1>3. state \in States(WalEnd) /\ WalEnd \in Nat
  BY LogType DEF IInv, DataOK
<1>4. state' = [state EXCEPT !.bookmarks[s] = c]
  BY DEF CopySome
<1>5. /\ b \in Bookmark /\ Sound(b) /\ b.lsn <= WalEnd
      /\ PlannedFor(b, catalog[s]) /\ Started(b, catalog[s])
  <2>1. b \in SoundBookmark(WalEnd)
    BY <1>2, <1>3 DEF States
  <2> QED BY <1>1, <1>2, <2>1 DEF IInv, TodoOK, CopyOK, SoundBookmark
<1>6. /\ catalog[s] \in Entries
      /\ catalog[s].method \in {"FULL_TABLE", "INCREMENTAL", "LOG_BASED"}
  BY <1>2, <1>5, MethodsAssumption DEF IInv, DataOK, Entries, PlannedFor, NotSelected
<1> HIDE DEF b, s
<1>7. c \in SoundBookmark(WalEnd) /\ PlannedFor(c, catalog[s]) /\ Started(c, catalog[s])
  <2>1. CASE catalog[s].method = "INCREMENTAL"
    <3>1. catalog[s].key \in Keys
      BY <1>5, <1>6, <2>1 DEF Entries, PlannedFor, NotSelected
    <3>2. /\ c \in Bookmark /\ c.lsn = b.lsn /\ c.xmin = b.xmin /\ c.version = b.version
          /\ c.last_replication_method = b.last_replication_method
          /\ c.replication_key = b.replication_key
          /\ c.replication_key_value = catalog[s].key
      BY <1>5, <2>1, <3>1 DEF Bookmark
    <3> HIDE DEF c
    <3>3. Sound(c)
      BY <1>5, <2>1, <3>2 DEF Sound, ValidForIncremental, PlannedFor, Started
    <3> QED BY <1>5, <2>1, <3>2, <3>3 DEF SoundBookmark, PlannedFor, Started
  <2>2. CASE catalog[s].method # "INCREMENTAL"
    <3>1. /\ c \in Bookmark /\ c.lsn = b.lsn /\ c.version = b.version /\ c.xmin
          /\ c.last_replication_method = b.last_replication_method
      BY <1>5, <2>2 DEF Bookmark
    <3> HIDE DEF c
    <3>2. Sound(c)
      BY <1>5, <1>6, <2>2, <3>1 DEF Sound, PlannedFor, Started
    <3> QED BY <1>5, <2>2, <3>1, <3>2 DEF SoundBookmark, PlannedFor, Started
  <2> QED BY <2>1, <2>2
<1> HIDE DEF c
<1>8. state' \in States(WalEnd) /\ state'.bookmarks = [state.bookmarks EXCEPT ![s] = c]
  BY <1>2, <1>3, <1>4, <1>7 DEF States
<1>9. pipe' \in Seq(Message(WalEnd))
  BY <1>1, <1>3, <1>8, EmittedState DEF IInv, DataOK
<1>10. DataOK'
  BY <1>1, <1>8, <1>9, SameLog DEF IInv, DataOK
<1>11. PositionOK'
  BY <1>1, SameLog DEF IInv, PositionOK
<1>12. TodoOK' /\ SessionOK'
  BY <1>1, <1>2, <1>7, <1>8, OthersUndisturbed
<1>13. CopyOK'
  <2>1. state'.bookmarks[s] = c
    BY <1>2, <1>3, <1>8 DEF States
  <2> QED BY <1>1, <1>2, <1>7, <2>1 DEF CopyOK, Started, s
<1> QED BY <1>10, <1>11, <1>12, <1>13 DEF IInv

LEMMA FinishStreamInv == ASSUME IInv, FinishStream PROVE IInv'
<1> DEFINE s == NextStream
           b == state.bookmarks[s]
           c == [b EXCEPT !.xmin = FALSE, !.copied = @ \/ catalog[s].method = "LOG_BASED"]
           changes == IF catalog[s].method = "LOG_BASED" THEN CopiedChanges(s) ELSE {}
<1>1. /\ UNCHANGED <<log, confirmed, catalog, end_lsn, front, session, position,
                     last_processed_lsn, last_fully_processed_lsn, rows, file, durable, edits,
                     failures, exposed>>
      /\ phase = "copying" /\ phase' = "traditional"
      /\ todo' = todo \ {s} /\ query' = None
      /\ EmitState(state', changes)
  BY DEF FinishStream, server, progress, mishaps
<1>2. todo # {} /\ s \in todo /\ s \in Streams
  BY <1>1, NextIsTodo DEF IInv, CopyOK
<1>3. state \in States(WalEnd) /\ WalEnd \in Nat
  BY LogType DEF IInv, DataOK
<1>4. state' = [state EXCEPT !.currently_syncing = None, !.bookmarks[s] = c]
  BY <1>2, <1>3 DEF FinishStream, States
<1>5. b \in Bookmark /\ Sound(b) /\ b.lsn <= WalEnd
  BY <1>2, <1>3 DEF States, SoundBookmark
<1> HIDE DEF s, b
<1>6. c \in SoundBookmark(WalEnd)
  <2>1. /\ c \in Bookmark /\ c.lsn = b.lsn /\ c.version = b.version /\ ~c.xmin
        /\ c.last_replication_method = b.last_replication_method
        /\ c.replication_key = b.replication_key
        /\ c.replication_key_value = b.replication_key_value
    BY <1>5 DEF Bookmark
  <2> HIDE DEF c
  <2>2. Sound(c)
    BY <1>5, <2>1 DEF Sound, ValidForIncremental
  <2> QED BY <1>5, <2>1, <2>2 DEF SoundBookmark
<1> HIDE DEF c
<1>7. state' \in States(WalEnd) /\ state'.bookmarks = [state.bookmarks EXCEPT ![s] = c]
  BY <1>2, <1>3, <1>4, <1>6 DEF States, None
<1>8. changes \subseteq 1 .. WalEnd - 1
  BY LogType DEF CopiedChanges, IInv, DataOK, WalEnd
<1> HIDE DEF changes
<1>9. pipe' \in Seq(Message(WalEnd))
  BY <1>1, <1>3, <1>7, <1>8, EmittedState DEF IInv, DataOK
<1>10. DataOK'
  <2>1. /\ state' \in States(WalEnd)' /\ file' \in States(WalEnd)' /\ pipe' \in Seq(Message(WalEnd)')
        /\ WalEnd' = WalEnd /\ Len(log)' = Len(log)
    BY <1>1, <1>7, <1>9, SameLog DEF IInv, DataOK
  <2> QED BY <1>1, <2>1 DEF IInv, DataOK, None
<1>11. PositionOK'
  BY <1>1, SameLog DEF IInv, PositionOK
<1>12. TodoOK' /\ SessionOK'
  BY <1>1, <1>2, <1>7, OthersUndisturbed
<1> QED BY <1>1, <1>10, <1>11, <1>12 DEF IInv, CopyOK

LEMMA FinishRunInv == ASSUME IInv, FinishRun PROVE IInv'
<1>1. /\ NoProcess /\ EmitState(state, {})
      /\ UNCHANGED <<log, confirmed, catalog, file, durable, edits, failures, exposed>>
  BY DEF FinishRun, server, mishaps
<1>2. pipe' \in Seq(Message(WalEnd))
  BY <1>1, LogType, EmittedState DEF IInv, DataOK
<1> QED BY <1>1, <1>2, IdleInv DEF IInv, DataOK, server

LEMMA StartSessionInv == ASSUME IInv, StartSession PROVE IInv'
<1> DEFINE bs == DropDeselected(state.bookmarks)
<1>1. /\ UNCHANGED <<log, confirmed, catalog, end_lsn, front, todo, session, query,
                     last_processed_lsn, last_fully_processed_lsn, rows, pipe, file, durable,
                     edits, failures, exposed>>
      /\ phase = "traditional" /\ phase' = "logical" /\ todo = {}
      /\ state' = [state EXCEPT !.bookmarks = bs]
      /\ position' = Max({CommittedMinLsn(state'.bookmarks), confirmed}) - 1
  BY DEF StartSession, server, plan, downstream, mishaps
<1>2. state \in States(WalEnd) /\ WalEnd \in Nat /\ session \subseteq Streams
  BY LogType DEF IInv, DataOK
<1>3. bs \in [Streams -> SoundBookmark(WalEnd)]
  BY <1>2, NoBookmarkSound DEF DropDeselected, States
<1>4. \A s \in session : bs[s] = state.bookmarks[s]
  BY <1>1, <1>2 DEF DropDeselected, NotSelected, IInv, SessionOK
<1> HIDE DEF bs
<1>5. state' \in States(WalEnd) /\ state'.bookmarks = bs
  BY <1>1, <1>2, <1>3 DEF States
<1>6. position' \in 0 .. WalEnd
  <2>1. CommittedMinLsn(bs) \in 0 .. WalEnd /\ confirmed \in 1 .. WalEnd
    BY <1>2, <1>3, CommittedType DEF IInv, DataOK
  <2>2. position' = Max({CommittedMinLsn(bs), confirmed}) - 1
    BY <1>1, <1>5
  <2>3. /\ Max({CommittedMinLsn(bs), confirmed}) \in {CommittedMinLsn(bs), confirmed}
        /\ confirmed <= Max({CommittedMinLsn(bs), confirmed})
    BY <1>2, <2>1, MaxOfTwo
  <2> QED BY <1>2, <2>1, <2>2, <2>3
<1>7. DataOK'
  BY <1>1, <1>5, SameLog DEF IInv, DataOK
<1>8. PositionOK'
  BY <1>1, <1>6, SameLog DEF IInv, PositionOK, None
<1>9. TodoOK' /\ CopyOK'
  BY <1>1 DEF TodoOK, CopyOK
<1>10. SessionOK'
  BY <1>1, <1>4, <1>5 DEF IInv, SessionOK
<1> QED BY <1>7, <1>8, <1>9, <1>10 DEF IInv

LEMMA SessionReadsInv == ASSUME IInv, SessionReads PROVE IInv'
<1> DEFINE i == Min(Upcoming)
<1>1. /\ UNCHANGED <<log, confirmed, catalog, phase, end_lsn, front, todo, session, query, file,
                     durable, edits, failures, exposed>>
      /\ phase = "logical" /\ Upcoming # {}
      /\ position' = i /\ last_processed_lsn' = i
      /\ last_fully_processed_lsn' = last_processed_lsn
  BY DEF SessionReads, server, plan, mishaps
<1>2. /\ state \in States(WalEnd) /\ WalEnd = Len(log) + 1 /\ Len(log) \in Nat
      /\ WalEnd \in Nat /\ WalEnd <= MaxLsn + 1 /\ session \subseteq Streams
      /\ position \in Nat /\ last_processed_lsn \in 0 .. Len(log)
      /\ last_processed_lsn <= position /\ rows \subseteq 1 .. Len(log)
  BY LogType DEF IInv, DataOK, PositionOK, WalEnd
<1>3. i \in 1 .. Len(log) /\ position < i /\ log[i] \in session
  <2>1. Upcoming \in SUBSET Nat
    BY <1>2 DEF Upcoming
  <2>2. i \in Upcoming
    BY <1>1, <2>1, MinOf
  <2> HIDE DEF i
  <2> QED BY <1>2, <2>2 DEF Upcoming
<1>4. \/ /\ state' = [state EXCEPT !.bookmarks[log[i]].lsn = i]
         /\ rows' = rows \cup {i}
         /\ pipe' = pipe
      \/ /\ last_processed_lsn # None
         /\ state' = WriteAllBookmarks(last_processed_lsn)
         /\ EmitState(state', rows \cup {i})
         /\ rows' = {}
  BY DEF SessionReads
<1> HIDE DEF i
<1>5. /\ state' \in States(WalEnd) /\ pipe' \in Seq(Message(WalEnd)) /\ rows' \subseteq 1 .. Len(log)
      /\ \A s \in session : \E l \in 1 .. WalEnd :
             \/ state'.bookmarks[s] = state.bookmarks[s]
             \/ state'.bookmarks[s] = [state.bookmarks[s] EXCEPT !.lsn = l]
  <2>1. CASE /\ state' = [state EXCEPT !.bookmarks[log[i]].lsn = i]
             /\ rows' = rows \cup {i}
             /\ pipe' = pipe
    <3> DEFINE t == log[i]
               c == [state.bookmarks[t] EXCEPT !.lsn = i]
    <3>1. /\ state.bookmarks[t] \in Bookmark /\ t \in Streams
          /\ state.bookmarks[t].last_replication_method = "LOG_BASED"
          /\ state.bookmarks[t].version /\ ~state.bookmarks[t].xmin
      BY <1>1, <1>2, <1>3 DEF IInv, SessionOK, States, SoundBookmark
    <3>2. c \in Bookmark /\ c.lsn = i
      <4>1. i \in 0 .. MaxLsn + 1
        BY <1>2, <1>3, BoundsAssumption
      <4> HIDE DEF t
      <4> QED BY <3>1, <4>1 DEF Bookmark
    <3>3. Sound(c)
      BY <3>1 DEF Sound, Bookmark
    <3>4. state' = [state EXCEPT !.bookmarks[t] = c]
      BY <2>1, <1>2, <3>1 DEF States
    <3>5. c \in SoundBookmark(WalEnd)
      <4> HIDE DEF c
      <4> QED BY <1>2, <1>3, <3>2, <3>3 DEF SoundBookmark
    <3>6. /\ state' \in States(WalEnd)
          /\ \A s \in Streams : state'.bookmarks[s] = IF s = t THEN c ELSE state.bookmarks[s]
      <4> HIDE DEF c, t
      <4> QED BY <1>2, <3>1, <3>4, <3>5 DEF States
    <3>7. i \in 1 .. WalEnd
      BY <1>2, <1>3
    <3>8. pipe' \in Seq(Message(WalEnd)) /\ rows' \subseteq 1 .. Len(log)
      BY <1>2, <1>3, <2>1 DEF IInv, DataOK
    <3> HIDE DEF t
    <3> QED BY <1>2, <3>6, <3>7, <3>8
  <2>2. CASE /\ last_processed_lsn # None
             /\ state' = WriteAllBookmarks(last_processed_lsn)
             /\ EmitState(state', rows \cup {i})
             /\ rows' = {}
    <3>1. last_processed_lsn \in 1 .. WalEnd
      BY <1>2, <2>2 DEF None
    <3>2. /\ state' \in States(WalEnd)
          /\ \A s \in session :
                state'.bookmarks[s] = [state.bookmarks[s] EXCEPT !.lsn = last_processed_lsn]
      BY <1>1, <2>2, <3>1, WrittenBookmarks
    <3>3. rows \cup {i} \in SUBSET (1 .. WalEnd - 1)
      BY <1>2, <1>3
    <3>4. pipe' \in Seq(Message(WalEnd))
      BY <1>2, <2>2, <3>2, <3>3, EmittedState DEF IInv, DataOK
    <3> QED BY <2>2, <3>1, <3>2, <3>4
  <2> QED BY <1>4, <2>1, <2>2
<1>6. DataOK'
  BY <1>1, <1>5, SameLog DEF IInv, DataOK
<1>7. PositionOK'
  <2>1. WalEnd' = WalEnd /\ Len(log)' = Len(log)
    BY <1>1, SameLog DEF IInv
  <2>2. position' \in 0 .. WalEnd /\ last_processed_lsn' \in 0 .. Len(log)
    BY <1>1, <1>2, <1>3
  <2>3. last_processed_lsn' <= position' /\ last_fully_processed_lsn' \in 0 .. last_processed_lsn'
    BY <1>1, <1>2, <1>3
  <2> QED BY <1>1, <2>1, <2>2, <2>3 DEF PositionOK
<1>8. SessionOK'
  <2> SUFFICES ASSUME NEW s \in session
               PROVE  /\ catalog[s].method = "LOG_BASED"
                      /\ state'.bookmarks[s].last_replication_method = "LOG_BASED"
                      /\ state'.bookmarks[s].version
                      /\ ~state'.bookmarks[s].xmin
                      /\ state'.bookmarks[s].lsn # None
    BY <1>1 DEF SessionOK
  <2>1. /\ state.bookmarks[s] \in Bookmark /\ catalog[s].method = "LOG_BASED"
        /\ state.bookmarks[s].last_replication_method = "LOG_BASED"
        /\ state.bookmarks[s].version /\ ~state.bookmarks[s].xmin
        /\ state.bookmarks[s].lsn # None
    BY <1>1, <1>2 DEF IInv, SessionOK, States, SoundBookmark
  <2>2. PICK l \in 1 .. WalEnd :
             \/ state'.bookmarks[s] = state.bookmarks[s]
             \/ state'.bookmarks[s] = [state.bookmarks[s] EXCEPT !.lsn = l]
    BY <1>5
  <2> QED BY <1>2, <2>1, <2>2 DEF Bookmark, None
<1>9. TodoOK'
  <2>1. \A s \in todo : s \in Streams \ session
    BY DEF IInv, DataOK
  <2>2. \A s \in todo : state'.bookmarks[s] = state.bookmarks[s]
    BY <1>2, <1>3, <1>4, <2>1 DEF WriteAllBookmarks, States
  <2> QED BY <1>1, <2>2 DEF IInv, TodoOK, PlannedFor
<1> QED BY <1>1, <1>6, <1>7, <1>8, <1>9 DEF IInv, CopyOK

LEMMA FeedbackInv == ASSUME IInv, Feedback PROVE IInv'
<1>1. /\ UNCHANGED <<log, catalog, phase, state, end_lsn, front, todo, session, query, position,
                     last_processed_lsn, last_fully_processed_lsn, rows, pipe, file, durable,
                     edits, failures, exposed>>
      /\ confirmed' = CommittedMinLsn(file.bookmarks) /\ confirmed' > confirmed
  BY DEF Feedback, process, plan, progress, downstream, mishaps
<1>2. confirmed' \in 1 .. WalEnd
  <2>1. /\ file.bookmarks \in [Streams -> SoundBookmark(WalEnd)] /\ WalEnd \in Nat
        /\ session \subseteq Streams /\ confirmed \in 1 .. WalEnd
    BY LogType DEF IInv, DataOK, States
  <2>2. CommittedMinLsn(file.bookmarks) \in 0 .. WalEnd
    BY <2>1, CommittedType
  <2> QED BY <1>1, <2>1, <2>2
<1>3. DataOK'
  BY <1>1, <1>2, SameLog DEF IInv, DataOK
<1>4. PositionOK'
  BY <1>1, SameLog DEF IInv, PositionOK
<1>5. TodoOK' /\ SessionOK'
  BY <1>1 DEF IInv, TodoOK, PlannedFor, SessionOK
<1>6. CopyOK'
  BY <1>1 DEF IInv, CopyOK, Started, NextStream
<1> QED BY <1>3, <1>4, <1>5, <1>6 DEF IInv

LEMMA FinishSessionInv == ASSUME IInv, FinishSession PROVE IInv'
<1> DEFINE l  == Max({last_fully_processed_lsn, CommittedMinLsn(file.bookmarks)})
           st == IF last_fully_processed_lsn = None THEN state ELSE WriteAllBookmarks(l)
<1>1. /\ NoProcess /\ EmitState(st, rows) /\ phase = "logical"
      /\ UNCHANGED <<log, confirmed, catalog, file, durable, edits, failures, exposed>>
  BY DEF FinishSession, server, mishaps
<1>2. /\ WalEnd \in Nat /\ WalEnd = Len(log) + 1 /\ Len(log) \in Nat /\ session \subseteq Streams
      /\ file.bookmarks \in [Streams -> SoundBookmark(WalEnd)]
      /\ last_fully_processed_lsn \in 0 .. Len(log) /\ rows \in SUBSET (1 .. WalEnd - 1)
  BY LogType DEF IInv, DataOK, States, PositionOK, WalEnd
<1>3. st \in States(WalEnd)
  <2>1. CASE last_fully_processed_lsn = None
    BY <2>1 DEF IInv, DataOK
  <2>2. CASE last_fully_processed_lsn # None
    <3>1. CommittedMinLsn(file.bookmarks) \in 0 .. WalEnd
      BY <1>2, CommittedType
    <3>2. /\ l \in {last_fully_processed_lsn, CommittedMinLsn(file.bookmarks)}
          /\ last_fully_processed_lsn <= l
      BY <1>2, <3>1, MaxOfTwo
    <3> HIDE DEF l
    <3>3. l \in 1 .. WalEnd
      BY <1>2, <2>2, <3>1, <3>2 DEF None
    <3> QED BY <1>1, <2>2, <3>3, WrittenBookmarks
  <2> QED BY <2>1, <2>2
<1> HIDE DEF st
<1>4. pipe' \in Seq(Message(WalEnd))
  BY <1>1, <1>2, <1>3, EmittedState DEF IInv, DataOK
<1> QED BY <1>1, <1>4, IdleInv DEF IInv, DataOK, server

LEMMA FailTypes ==
    ASSUME DataOK, Fail
    PROVE  edits' \in 0 .. MaxEdits /\ failures' \in 0 .. MaxFailures /\ exposed' \subseteq Streams
BY BoundsAssumption DEF Fail, DataOK

LEMMA RunFailsInv == ASSUME IInv, RunFails PROVE IInv'
<1>1. Fail /\ NoProcess /\ UNCHANGED <<log, confirmed, catalog, pipe, file, durable>>
  BY DEF RunFails, server, downstream
<1> QED BY <1>1, FailTypes, IdleInv DEF IInv, DataOK, server

LEMMA PipelineCrashInv == ASSUME IInv, PipelineCrash PROVE IInv'
<1>1. Fail /\ NoProcess /\ pipe' = << >> /\ UNCHANGED <<log, confirmed, catalog, file, durable>>
  BY DEF PipelineCrash, server
<1>2. pipe' \in Seq(Message(WalEnd))
  BY <1>1
<1> QED BY <1>1, <1>2, FailTypes, IdleInv DEF IInv, DataOK, server

LEMMA TargetCommitInv == ASSUME IInv, TargetCommit PROVE IInv'
<1>1. /\ UNCHANGED <<log, confirmed, catalog, phase, state, end_lsn, front, todo, session, query,
                     position, last_processed_lsn, last_fully_processed_lsn, rows, edits,
                     failures, exposed>>
      /\ pipe # << >> /\ durable' = durable \cup Head(pipe).rows
      /\ file' = Head(pipe).state /\ pipe' = Tail(pipe)
  BY DEF TargetCommit, server, process, plan, progress, mishaps
<1>2. pipe \in Seq(Message(WalEnd)) /\ WalEnd = Len(log) + 1 /\ Len(log) \in Nat
  BY LogType DEF IInv, DataOK, WalEnd
<1>3. Head(pipe) \in Message(WalEnd) /\ Tail(pipe) \in Seq(Message(WalEnd))
  BY <1>1, <1>2
<1>4. Head(pipe).state \in States(WalEnd) /\ Head(pipe).rows \subseteq 1 .. Len(log)
  BY <1>2, <1>3 DEF Message
<1>5. DataOK'
  BY <1>1, <1>3, <1>4, SameLog DEF IInv, DataOK
<1>6. PositionOK'
  BY <1>1, SameLog DEF IInv, PositionOK
<1>7. TodoOK' /\ SessionOK'
  BY <1>1 DEF IInv, TodoOK, PlannedFor, SessionOK
<1>8. CopyOK'
  BY <1>1 DEF IInv, CopyOK, Started, NextStream
<1> QED BY <1>5, <1>6, <1>7, <1>8 DEF IInv

LEMMA StutterInv == ASSUME IInv, UNCHANGED vars PROVE IInv'
<1>1. UNCHANGED <<log, confirmed, catalog, phase, state, end_lsn, front, todo, session, query,
                  position, last_processed_lsn, last_fully_processed_lsn, rows, pipe, file,
                  durable, edits, failures, exposed>>
  BY DEF vars, server, process, plan, progress, downstream, mishaps
<1>2. DataOK'
  BY <1>1, SameLog DEF IInv, DataOK
<1>3. PositionOK'
  BY <1>1, SameLog DEF IInv, PositionOK
<1>4. TodoOK' /\ SessionOK'
  BY <1>1 DEF IInv, TodoOK, PlannedFor, SessionOK
<1>5. CopyOK'
  BY <1>1 DEF IInv, CopyOK, Started, NextStream
<1> QED BY <1>2, <1>3, <1>4, <1>5 DEF IInv

-----------------------------------------------------------------------------
(***************************************************************************)
(* The theorems.                                                           *)
(***************************************************************************)

\* Every bookmark that is in memory, on its way or in the state file is sound
\* for the method that wrote it last, and a strategy that runs finds what it
\* relies on (do_sync, sync_traditional_stream, sync_logical_streams).
THEOREM InductiveInvariant == Spec => []IInv
<1>1. IInv /\ [Next]_vars => IInv'
  BY CommitInv, ChangeCatalogInv, StartRunInv, StartStreamInv, CopySomeInv, FinishStreamInv,
     FinishRunInv, StartSessionInv, SessionReadsInv, FeedbackInv, FinishSessionInv, RunFailsInv,
     PipelineCrashInv, TargetCommitInv, StutterInv DEF Next
<1> QED BY InitInv, <1>1, PTL DEF Spec

\* Bookmarks, positions and the STATE messages in flight stay within the log,
\* and no stream is both copied and streamed in one run.
THEOREM TypeCorrect == Spec => []TypeOK
<1>1. IInv => TypeOK
  <2> SUFFICES ASSUME IInv PROVE TypeOK
    OBVIOUS
  <2>1. States(WalEnd) \subseteq StateObject
    BY DEF States, StateObject, SoundBookmark
  <2>2. DOMAIN log = 1 .. Len(log) /\ WalEnd = Len(log) + 1 /\ Len(log) \in Nat
    BY LogType DEF IInv, WalEnd
  <2>3. \A k \in DOMAIN pipe : pipe[k].state \in StateObject /\ pipe[k].rows \subseteq DOMAIN log
    <3>1. \A k \in DOMAIN pipe : pipe[k] \in Message(WalEnd)
      BY DEF IInv, DataOK
    <3> QED BY <2>1, <2>2, <3>1 DEF Message
  <2> QED BY <2>1, <2>2, <2>3 DEF TypeOK, IInv, DataOK, PositionOK
<1> QED BY InductiveInvariant, <1>1, PTL

\* Whatever catalogs, failures and crashes have gone before, the bookmarks of
\* the state file, as reset_state_on_method_change leaves them for the catalog
\* that comes next, are ones its strategies accept.
THEOREM StateAlwaysUsable == Spec => []StateUsable
<1>1. IInv => StateUsable
  <2> SUFFICES ASSUME IInv, NEW s \in Streams, NEW e \in Entries \ {NotSelected}
               PROVE  Usable(Reset(file.bookmarks[s], e), e)
    BY DEF StateUsable
  <2>1. file.bookmarks[s] \in SoundBookmark(WalEnd) /\ WalEnd \in Nat
    BY LogType DEF IInv, DataOK, States
  <2> QED BY <2>1, ResetSound
<1> QED BY InductiveInvariant, <1>1, PTL
=============================================================================
