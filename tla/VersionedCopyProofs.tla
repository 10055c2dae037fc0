------------------------ MODULE VersionedCopyProofs ------------------------
(***************************************************************************)
(* FullTableCopy implements VersionedCopy, for any table, sizes,           *)
(* transactions and crashes, if the text of ids orders as their numbers    *)
(* do; and an activation discards only what is stale.                      *)
(***************************************************************************)
EXTENDS FullTableCopyProofs

(***************************************************************************)
(* What the refinement needs beyond the invariant of FullTableCopyProofs.  *)
(***************************************************************************)

\* The version in use is the last one handed out.
ClockOK ==
    /\ InUse(clock)
    /\ copying \/ pipe # << >> \/ file.xmin # None => clock # None

\* Until a first STATE is handled, nothing else is, so that the activation at
\* the head of a first copy finds no other version.
OpeningOK ==
    /\ file.version = None => /\ \A r \in Rows : target[r].version = None
                              /\ pipe # << >> => pipe[1].type = "STATE"
                              /\ copying => pipe # << >>
    /\ \A i \in 1 .. Len(pipe) : pipe[i].type = "ACTIVATE_VERSION" /\ pipe[i].covers # base =>
           \A r \in Rows : target[r].version \in {None, clock}

\* The first n messages, once handled, complete the version.
Done(n) == \A c \in base : Reached(c, clock, n)

\* Watermarks never go back, from the state file through the pipe to the run,
\* except when the version is complete.
MarksOK ==
    /\ copying => /\ file.xmin <= xmin
                  /\ \A i \in 1 .. Len(pipe) : pipe[i].type = "STATE" => pipe[i].xmin <= xmin
    /\ \A i \in 1 .. Len(pipe) : pipe[i].type = "STATE" =>
           \/ Done(i - 1)
           \/ /\ file.xmin <= pipe[i].xmin
              /\ \A j \in 1 .. i - 1 : pipe[j].type = "STATE" => pipe[j].xmin <= pipe[i].xmin

-----------------------------------------------------------------------------
(***************************************************************************)
(* The kinds of steps.                                                     *)
(***************************************************************************)

Quiet == UNCHANGED <<copying, version, xmin, pipe, file, target, base, clock>>

Interrupted ==
    /\ UNCHANGED <<table, file, target, base, clock>>
    /\ copying' = FALSE
    /\ pipe' = pipe \/ pipe' = << >>

LEMMA Kinds ==
    ASSUME TypeInv, [Next]_vars
    PROVE  \/ Quiet \/ StartCopy \/ (\E hand, more : AtWork(hand, more))
           \/ Interrupted \/ TargetHandles
<1>1. CASE BeginTransaction \/ CommitTransaction \/ UNCHANGED vars
  BY <1>1 DEF BeginTransaction, CommitTransaction, vars, process, downstream, Quiet
<1>2. CASE CopyFails \/ PipelineCrash
  BY <1>2 DEF CopyFails, PipelineCrash, Crash, NoProcess, database, Interrupted
<1> QED BY <1>1, <1>2, CopyRecordWorks, CopyRecordBatchWorks, FinishCopyWorks DEF Next

\* The versions and messages of a start.
LEMMA StartVersion ==
    ASSUME TypeInv, ClockOK, StartCopy
    PROVE  /\ version' = clock' /\ clock' # None /\ clock \in Nat
           /\ IF file.xmin # None THEN clock' = clock ELSE clock' = clock + 1
           /\ pipe'[1] = State(version', file.xmin)
           /\ file.version # None => Len(pipe') = 1
<1>1. /\ version' = PickVersion(file) /\ clock' = IF version' > clock THEN version' ELSE clock
      /\ pipe' = << State(version', file.xmin) >>
                     \o IF file.version = None THEN << Activate(version', {}) >> ELSE << >>
  BY DEF StartCopy
<1>2. clock \in Nat /\ (file.xmin # None => file.version = clock /\ clock # None)
  <2>1. clock \in 0 .. MaxVersions /\ MaxVersions \in Nat
    BY CopyBoundsAssumption DEF TypeInv, TableOK
  <2> QED BY <2>1 DEF ClockOK, InUse
<1>3. /\ version' = clock' /\ clock' # None
      /\ IF file.xmin # None THEN clock' = clock ELSE clock' = clock + 1
  BY <1>1, <1>2 DEF PickVersion, None
<1>4. PICK st, a : st = State(version', file.xmin) /\ a = Activate(version', {})
  OBVIOUS
<1>5. CASE file.version = None
  <2>1. pipe' = << st >> \o << a >>
    BY <1>1, <1>4, <1>5
  <2>2. << st >> \in Seq({st, a}) /\ << a >> \in Seq({st, a}) /\ Len(<< st >>) = 1 /\ << st >>[1] = st
    OBVIOUS
  <2>3. pipe'[1] = st
    BY <2>1, <2>2, Appended
  <2> QED BY <1>2, <1>3, <1>4, <1>5, <2>3
<1>6. CASE file.version # None
  <2>1. << st >> \in Seq({st})
    OBVIOUS
  <2>2. pipe' = << st >>
    BY <1>1, <1>4, <1>6, <2>1, ConcatEmptySeq
  <2>3. pipe'[1] = st /\ Len(pipe') = 1
    BY <2>2
  <2> QED BY <1>2, <1>3, <1>4, <2>3
<1> QED BY <1>5, <1>6

\* What a step of the copy leaves, and the pipe after it.
LEMMA WorkOf ==
    ASSUME TypeInv, NEW hand, NEW more, AtWork(hand, more)
    PROVE  /\ UNCHANGED <<table, file, target, base, clock>> /\ copying
           /\ copying' => version' = version
           /\ \A i \in 1 .. Len(more) : Sent(more[i], hand)
           /\ Len(pipe') = Len(pipe) + Len(more) /\ Len(pipe) \in Nat /\ Len(more) \in Nat
           /\ \A i \in 1 .. Len(pipe) : pipe'[i] = pipe[i]
           /\ \A i \in 1 .. Len(pipe') : i \in 1 .. Len(pipe)
                  \/ (i - Len(pipe) \in 1 .. Len(more) /\ pipe'[i] = more[i - Len(pipe)])
           /\ \A i \in 1 .. Len(more) : pipe'[Len(pipe) + i] = more[i]
           /\ pipe # << >> => pipe' # << >> /\ pipe'[1] = pipe[1]
<1>1. pipe \in Seq(MessageType) /\ more \in Seq(MessageType) /\ pipe' = pipe \o more
  BY DEF TypeInv, DownstreamOK, AtWork, Delivers
<1>2. /\ Len(pipe') = Len(pipe) + Len(more) /\ Len(pipe) \in Nat /\ Len(more) \in Nat
      /\ \A i \in 1 .. Len(pipe) : pipe'[i] = pipe[i]
      /\ \A i \in 1 .. Len(pipe') : i \in 1 .. Len(pipe)
             \/ (i - Len(pipe) \in 1 .. Len(more) /\ pipe'[i] = more[i - Len(pipe)])
      /\ \A i \in 1 .. Len(more) : pipe'[Len(pipe) + i] = more[i]
  BY <1>1, Appended
<1>3. pipe # << >> => pipe' # << >> /\ pipe'[1] = pipe[1]
  <2>1. pipe # << >> => Len(pipe) # 0
    BY <1>1, EmptySeq
  <2>2. pipe' = << >> => Len(pipe') = 0
    OBVIOUS
  <2> QED BY <1>2, <2>1, <2>2
<1> QED BY <1>2, <1>3 DEF AtWork, StaysOK, Delivers
-----------------------------------------------------------------------------
(***************************************************************************)
(* Each part of the invariant, over each kind of step.                     *)
(***************************************************************************)

LEMMA ClockStep ==
    ASSUME TypeInv, ClockOK, [Next]_vars
    PROVE  ClockOK'
<1>1. CASE Quiet
  BY <1>1 DEF Quiet, ClockOK, InUse
<1>2. CASE StartCopy
  <2>1. /\ version' = clock' /\ clock' # None /\ file' = file
        /\ file.xmin # None => clock' = clock
    BY <1>2, StartOf, StartVersion
  <2>2. \A i \in 1 .. Len(pipe') : pipe'[i].version = clock'
    BY <1>2, <2>1, StartOf DEF State, Activate
  <2> QED BY <2>1, <2>2 DEF ClockOK, InUse
<1>3. ASSUME NEW hand, NEW more, AtWork(hand, more) PROVE ClockOK'
  <2>1. UNCHANGED <<file, clock>> /\ copying /\ version = clock /\ (copying' => version' = clock)
    BY <1>3, WorkOf DEF ClockOK, InUse
  <2>2. ASSUME NEW i \in 1 .. Len(pipe'), pipe'[i].type # "BATCH" PROVE pipe'[i].version = clock
    <3>1. CASE i \in 1 .. Len(pipe)
      BY <1>3, <2>2, <3>1, WorkOf DEF ClockOK, InUse
    <3>2. CASE i - Len(pipe) \in 1 .. Len(more) /\ pipe'[i] = more[i - Len(pipe)]
      <4>1. Sent(more[i - Len(pipe)], hand)
        BY <1>3, <3>2, WorkOf
      <4> QED BY <2>1, <2>2, <3>2, <4>1 DEF Sent
    <3> QED BY <1>3, <3>1, <3>2, WorkOf
  <2> QED BY <2>1, <2>2 DEF ClockOK, InUse
<1>4. CASE Interrupted
  <2>1. CASE pipe' = pipe
    BY <1>4, <2>1 DEF Interrupted, ClockOK, InUse
  <2>2. CASE pipe' = << >>
    BY <1>4, <2>2 DEF Interrupted, ClockOK, InUse
  <2> QED BY <1>4, <2>1, <2>2 DEF Interrupted
<1>5. CASE TargetHandles
  <2> PICK m : m = pipe[1]
    OBVIOUS
  <2>1. /\ UNCHANGED <<copying, version, clock>> /\ pipe # << >> /\ 1 \in 1 .. Len(pipe)
        /\ \A i \in 1 .. Len(pipe') : i + 1 \in 1 .. Len(pipe) /\ pipe'[i] = pipe[i + 1]
        /\ IF m.type = "STATE" THEN file' = [version |-> m.version, xmin |-> m.xmin] ELSE file' = file
    BY <1>5, HandleOf
  <2>2. m.type = "STATE" => m.version = clock
    BY <2>1 DEF ClockOK, InUse
  <2>3. InUse(clock)'
    BY <2>1, <2>2 DEF ClockOK, InUse
  <2> QED BY <2>1, <2>3 DEF ClockOK
<1> QED BY <1>1, <1>2, <1>3, <1>4, <1>5, Kinds

LEMMA OpeningStep ==
    ASSUME TypeInv, ClockOK, OpeningOK, [Next]_vars
    PROVE  OpeningOK'
<1>1. CASE Quiet
  BY <1>1 DEF Quiet, OpeningOK
<1>2. CASE StartCopy
  <2>1. /\ UNCHANGED <<file, target>> /\ copying' = TRUE /\ pipe' \in Seq(MessageType)
        /\ Len(pipe') \in Nat \ {0} /\ pipe'[1] = State(version', file.xmin)
        /\ file.version # None => Len(pipe') = 1
    BY <1>2, StartOf, StartVersion
  <2>2. pipe' # << >> /\ pipe'[1].type = "STATE"
    BY <2>1 DEF State
  <2>3. CASE file.version = None
    BY <2>1, <2>2, <2>3 DEF OpeningOK
  <2>4. CASE file.version # None
    <3>1. \A i \in 1 .. Len(pipe') : pipe'[i].type = "STATE"
      <4>1. \A i \in 1 .. 1 : i = 1
        OBVIOUS
      <4> QED BY <2>1, <2>2, <2>4, <4>1
    <3> QED BY <2>1, <2>4, <3>1 DEF OpeningOK
  <2> QED BY <2>3, <2>4
<1>3. ASSUME NEW hand, NEW more, AtWork(hand, more) PROVE OpeningOK'
  <2>1. /\ UNCHANGED <<file, target, base, clock>> /\ copying
        /\ pipe # << >> => pipe' # << >> /\ pipe'[1] = pipe[1]
    BY <1>3, WorkOf
  <2>2. ASSUME NEW i \in 1 .. Len(pipe'), pipe'[i].type = "ACTIVATE_VERSION", pipe'[i].covers # base
        PROVE  i \in 1 .. Len(pipe) /\ pipe'[i] = pipe[i]
    <3>1. CASE i - Len(pipe) \in 1 .. Len(more) /\ pipe'[i] = more[i - Len(pipe)]
      <4>1. Sent(more[i - Len(pipe)], hand)
        BY <1>3, <3>1, WorkOf
      <4> QED BY <2>2, <3>1, <4>1 DEF Sent
    <3> QED BY <1>3, <3>1, WorkOf
  <2>3. file.version = None => pipe # << >>
    BY <2>1 DEF OpeningOK
  <2> QED BY <2>1, <2>2, <2>3 DEF OpeningOK
<1>4. CASE Interrupted
  <2>1. CASE pipe' = pipe
    BY <1>4, <2>1 DEF Interrupted, OpeningOK
  <2>2. CASE pipe' = << >>
    BY <1>4, <2>2 DEF Interrupted, OpeningOK
  <2> QED BY <1>4, <2>1, <2>2 DEF Interrupted
<1>5. CASE TargetHandles
  <2> PICK m : m = pipe[1]
    OBVIOUS
  <2>1. /\ UNCHANGED <<copying, base, clock>> /\ pipe # << >> /\ 1 \in 1 .. Len(pipe) /\ MessageOK(m)
        /\ \A i \in 1 .. Len(pipe') : i + 1 \in 1 .. Len(pipe) /\ pipe'[i] = pipe[i + 1]
        /\ IF m.type = "STATE" THEN file' = [version |-> m.version, xmin |-> m.xmin] ELSE file' = file
    BY <1>5, HandleOf
  <2>2. clock # None /\ (m.type # "BATCH" => m.version = clock) /\ (m.type = "BATCH" => m.version = None)
    BY <2>1 DEF ClockOK, InUse, MessageOK
  <2>3. file'.version # None
    <3>1. CASE m.type = "STATE"
      BY <2>1, <2>2, <3>1
    <3>2. CASE m.type # "STATE"
      BY <2>1, <3>2 DEF OpeningOK
    <3> QED BY <3>1, <3>2
  <2>4. ASSUME NEW i \in 1 .. Len(pipe'), pipe'[i].type = "ACTIVATE_VERSION", pipe'[i].covers # base,
               NEW r \in Rows
        PROVE  target'[r].version \in {None, clock}
    <3>1. target[r].version \in {None, clock}
      BY <2>1, <2>4 DEF OpeningOK
    <3>2. CASE target'[r] = target[r]
      BY <3>1, <3>2
    <3>3. CASE \E c \in m.rows : target'[r] = [xid |-> c.xid, version |-> m.version]
      BY <2>2, <3>3
    <3>4. CASE target'[r] = [xid |-> None, version |-> None]
      BY <3>4
    <3>5. \/ target'[r] = target[r]
          \/ \E c \in m.rows : target'[r] = [xid |-> c.xid, version |-> m.version]
          \/ target'[r] = [xid |-> None, version |-> None]
      BY <1>5, HandledRow
    <3> QED BY <3>2, <3>3, <3>4, <3>5
  <2> QED BY <2>1, <2>3, <2>4 DEF OpeningOK
<1> QED BY <1>1, <1>2, <1>3, <1>4, <1>5, Kinds
\* A row that is there, or on its way, still is when messages are added, and
\* is one message nearer when one is handled.
LEMMA ReachedLater ==
    ASSUME TypeInv, NEW hand, NEW more, AtWork(hand, more),
           NEW c, NEW n \in 0 .. Len(pipe), NEW k \in 0 .. Len(pipe'), n <= k,
           Reached(c, clock, n)
    PROVE  Reached(c, clock, k)'
<1>1. /\ UNCHANGED <<target, clock>> /\ Len(pipe) \in Nat /\ Len(pipe') \in Nat
      /\ \A i \in 1 .. Len(pipe) : pipe'[i] = pipe[i]
  BY WorkOf
<1>2. ASSUME NEW j \in 1 .. n PROVE j \in 1 .. k /\ pipe'[j] = pipe[j]
  BY <1>1
<1> QED BY <1>1, <1>2 DEF Reached, InTarget, Carries, IsData

LEMMA ReachedSooner ==
    ASSUME TypeInv, ClockOK, TargetHandles, NEW c \in base, NEW n \in 0 .. Len(pipe),
           Reached(c, clock, n)
    PROVE  Reached(c, clock, n - 1)'
<1> PICK v : v = clock
  OBVIOUS
<1>1. /\ clock' = v /\ InUse(v) /\ Len(pipe) \in Nat /\ Len(pipe') = Len(pipe) - 1
      /\ \A i \in 1 .. Len(pipe') : i + 1 \in 1 .. Len(pipe) /\ pipe'[i] = pipe[i + 1]
  BY HandleOf DEF ClockOK
<1>2. CASE InTarget(c, v) \/ Carries(pipe[1], c, v)
  <2>1. target'[c.row].xid = c.xid /\ target'[c.row].version \in {v, None}
    BY <1>1, <1>2, RowArrives
  <2> QED BY <1>1, <2>1 DEF Reached, InTarget
<1>3. ASSUME NEW j \in 1 .. n, j # 1, Carries(pipe[j], c, v) PROVE Reached(c, clock, n - 1)'
  <2>1. j - 1 \in 1 .. Len(pipe') /\ j - 1 \in 1 .. n - 1 /\ (j - 1) + 1 = j
    BY <1>1, <1>3
  <2>2. Carries(pipe'[j - 1], c, v)
    BY <1>1, <1>3, <2>1
  <2> QED BY <1>1, <2>1, <2>2 DEF Reached, Carries, IsData
<1> QED BY <1>2, <1>3 DEF Reached

\* Watermarks are numbers.
LEMMA MarkTypes ==
    ASSUME TypeInv
    PROVE  /\ xmin \in Nat /\ file.xmin \in Nat /\ Len(pipe) \in Nat
           /\ \A i \in 1 .. Len(pipe) : pipe[i].type = "STATE" => pipe[i].xmin \in Nat
           /\ \A c \in cursor \cup base : c.xid \in Nat
<1>1. xmin \in Watermark /\ file.xmin \in Watermark /\ pipe \in Seq(MessageType)
  BY DEF TypeInv, ProcessOK, DownstreamOK
<1>2. \A i \in 1 .. Len(pipe) : pipe[i].type = "STATE" => pipe[i].xmin \in Watermark
  BY DEF TypeInv, DownstreamOK, MessageOK
<1>3. \A c \in cursor \cup base : c.xid \in Xids
  BY DEF TypeInv, ProcessOK, TableOK, RowVersion
<1>4. Len(pipe) \in Nat
  BY <1>1
<1>5. Watermark \subseteq Nat /\ Xids \subseteq Nat
  BY XidType
<1> HIDE DEF Watermark, Xids
<1> QED BY <1>1, <1>2, <1>3, <1>4, <1>5

LEMMA MarksAtWork ==
    ASSUME Ordered, TypeInv, BackedInv, ClockOK, MarksOK,
           NEW hand, NEW more, AtWork(hand, more)
    PROVE  MarksOK'
<1>1. /\ UNCHANGED <<table, file, target, base, clock>> /\ copying /\ version = clock
      /\ Len(pipe') = Len(pipe) + Len(more) /\ Len(pipe) \in Nat /\ Len(more) \in Nat
      /\ \A i \in 1 .. Len(pipe) : pipe'[i] = pipe[i]
      /\ \A i \in 1 .. Len(pipe') : i \in 1 .. Len(pipe)
             \/ (i - Len(pipe) \in 1 .. Len(more) /\ pipe'[i] = more[i - Len(pipe)])
      /\ \A i \in 1 .. Len(more) : pipe'[Len(pipe) + i] = more[i]
  BY WorkOf DEF ClockOK, InUse
<1>2. copying' => xmin <= xmin' /\ xmin' \in Nat /\ xmin \in Nat /\ file.xmin \in Nat
  <2>1. \A c \in cursor : xmin <= c.xid
    BY DEF BackedInv, OrderOK
  <2> QED BY <2>1, MarkTypes DEF AtWork
<1>3. ASSUME copying', NEW i \in 1 .. Len(pipe'), pipe'[i].type = "STATE"
      PROVE  pipe'[i].xmin <= xmin' /\ file.xmin <= xmin' /\ (i \notin 1 .. Len(pipe) => pipe'[i].xmin = xmin')
  <2>1. file.xmin <= xmin'
    BY <1>1, <1>2, <1>3 DEF MarksOK
  <2>2. CASE i \in 1 .. Len(pipe)
    <3>1. pipe[i].xmin <= xmin /\ pipe[i].xmin \in Nat /\ pipe'[i] = pipe[i]
      BY <1>1, <1>3, <2>2, MarkTypes DEF MarksOK
    <3> QED BY <1>2, <1>3, <2>1, <2>2, <3>1
  <2>3. CASE i \notin 1 .. Len(pipe)
    <3>1. pipe'[i].xmin = xmin'
      BY <1>1, <1>3, <2>3 DEF AtWork
    <3> QED BY <1>2, <1>3, <2>1, <3>1
  <2> QED BY <2>2, <2>3
<1>4. ASSUME ~copying', NEW i \in 1 .. Len(more), more[i].type = "STATE", NEW c \in base,
             NEW n, n = Len(pipe) + i - 1
      PROVE  Reached(c, clock, n)'
  <2>1. CASE c \in hand
    <3>1. ~IsData(more[i])
      BY <1>4 DEF IsData
    <3>2. PICK j \in 1 .. i - 1 : IsData(more[j]) /\ c \in more[j].rows
      BY <1>4, <2>1, <3>1 DEF AtWork, Delivers, AfterRows
    <3>3. j \in 1 .. Len(more) /\ Len(pipe) + j \in 1 .. n
      BY <1>1, <1>4
    <3>4. more[j].version \in {clock, None}
      BY <1>1, <3>3 DEF AtWork, Delivers, Sent
    <3> PICK k : k = Len(pipe) + j
      OBVIOUS
    <3>5. Carries(pipe'[k], c, clock) /\ k \in 1 .. n
      BY <1>1, <3>2, <3>3, <3>4 DEF Carries
    <3> QED BY <1>1, <3>5 DEF Reached, Carries, IsData
  <2>2. CASE Reached(c, clock, Len(pipe))
    <3>1. Len(pipe) \in 0 .. Len(pipe) /\ n \in 0 .. Len(pipe') /\ Len(pipe) <= n
      BY <1>1, <1>4
    <3> PICK k : k = Len(pipe)
      OBVIOUS
    <3>2. Reached(c, clock, k) /\ k \in 0 .. Len(pipe) /\ k <= n
      BY <2>2, <3>1
    <3> QED BY <3>1, <3>2, ReachedLater
  <2>3. c \in cursor \cup buffer => c \in hand
    BY <1>4 DEF AtWork, StaysOK
  <2> QED BY <1>1, <2>1, <2>2, <2>3 DEF BackedInv, CoverOK
<1>5. ASSUME NEW i \in 1 .. Len(pipe), pipe[i].type = "STATE"
      PROVE  \/ Done(i - 1)'
             \/ /\ file.xmin <= pipe[i].xmin
                /\ \A j \in 1 .. i - 1 : pipe'[j].type = "STATE" => pipe'[j].xmin <= pipe[i].xmin
  <2>1. CASE Done(i - 1)
    <3>1. i - 1 \in 0 .. Len(pipe) /\ i - 1 \in 0 .. Len(pipe') /\ i - 1 <= i - 1
      BY <1>1
    <3>2. \A c \in base : Reached(c, clock, i - 1)'
      BY <2>1, <3>1, ReachedLater DEF Done
    <3> QED BY <1>1, <3>2 DEF Done
  <2>2. CASE ~Done(i - 1)
    <3>1. \A j \in 1 .. i - 1 : pipe'[j] = pipe[j]
      BY <1>1
    <3> QED BY <1>5, <2>2, <3>1 DEF MarksOK
  <2> QED BY <2>1, <2>2
<1>6. ASSUME NEW i \in 1 .. Len(pipe'), i \notin 1 .. Len(pipe), pipe'[i].type = "STATE"
      PROVE  \/ Done(i - 1)'
             \/ /\ file.xmin <= pipe'[i].xmin
                /\ \A j \in 1 .. i - 1 : pipe'[j].type = "STATE" => pipe'[j].xmin <= pipe'[i].xmin
  <2>1. CASE copying'
    <3>1. pipe'[i].xmin = xmin' /\ file.xmin <= xmin'
      BY <1>3, <1>6, <2>1
    <3>2. \A j \in 1 .. i - 1 : j \in 1 .. Len(pipe')
      BY <1>1
    <3> QED BY <1>3, <2>1, <3>1, <3>2
  <2>2. CASE ~copying'
    <3>1. i - Len(pipe) \in 1 .. Len(more) /\ pipe'[i] = more[i - Len(pipe)]
          /\ i - 1 = Len(pipe) + (i - Len(pipe)) - 1
      BY <1>1, <1>6
    <3>2. \A c \in base : Reached(c, clock, i - 1)'
      BY <1>4, <1>6, <2>2, <3>1
    <3> QED BY <1>1, <3>2 DEF Done
  <2> QED BY <2>1, <2>2
<1>7. copying' => file.xmin <= xmin'
  BY <1>1, <1>2 DEF MarksOK
<1>8. ASSUME NEW i \in 1 .. Len(pipe'), pipe'[i].type = "STATE"
      PROVE  \/ Done(i - 1)'
             \/ /\ file.xmin <= pipe'[i].xmin
                /\ \A j \in 1 .. i - 1 : pipe'[j].type = "STATE" => pipe'[j].xmin <= pipe'[i].xmin
  BY <1>1, <1>5, <1>6, <1>8
<1> QED BY <1>1, <1>3, <1>7, <1>8 DEF MarksOK
LEMMA MarksAtTarget ==
    ASSUME TypeInv, ClockOK, MarksOK, TargetHandles
    PROVE  MarksOK'
<1> PICK m : m = pipe[1]
  OBVIOUS
<1>1. /\ UNCHANGED <<copying, xmin, base, clock>> /\ 1 \in 1 .. Len(pipe)
      /\ Len(pipe) \in Nat /\ Len(pipe') = Len(pipe) - 1
      /\ \A i \in 1 .. Len(pipe') : i + 1 \in 1 .. Len(pipe) /\ pipe'[i] = pipe[i + 1]
      /\ IF m.type = "STATE" THEN file' = [version |-> m.version, xmin |-> m.xmin] ELSE file' = file
  BY HandleOf
<1>2. file'.xmin = IF m.type = "STATE" THEN m.xmin ELSE file.xmin
  BY <1>1
<1>3. copying => file'.xmin <= xmin
  BY <1>1, <1>2 DEF MarksOK
<1>4. ASSUME copying, NEW i \in 1 .. Len(pipe'), pipe'[i].type = "STATE" PROVE pipe'[i].xmin <= xmin
  BY <1>1, <1>4 DEF MarksOK
<1>5. ASSUME NEW i \in 1 .. Len(pipe'), pipe'[i].type = "STATE"
      PROVE  \/ Done(i - 1)'
             \/ /\ file'.xmin <= pipe'[i].xmin
                /\ \A j \in 1 .. i - 1 : pipe'[j].type = "STATE" => pipe'[j].xmin <= pipe'[i].xmin
  <2>1. i + 1 \in 1 .. Len(pipe) /\ pipe'[i] = pipe[i + 1] /\ (i + 1) - 1 = i /\ i \in 0 .. Len(pipe)
    BY <1>1
  <2>2. CASE Done(i)
    <3>1. \A c \in base : Reached(c, clock, i - 1)'
      BY <2>1, <2>2, ReachedSooner DEF Done
    <3> QED BY <1>1, <3>1 DEF Done
  <2>3. CASE ~Done(i)
    <3>1. /\ file.xmin <= pipe[i + 1].xmin
          /\ \A j \in 1 .. i : pipe[j].type = "STATE" => pipe[j].xmin <= pipe[i + 1].xmin
      BY <1>5, <2>1, <2>3 DEF MarksOK
    <3>2. 1 \in 1 .. i
      OBVIOUS
    <3>3. file'.xmin <= pipe'[i].xmin
      BY <1>2, <2>1, <3>1, <3>2
    <3>4. \A j \in 1 .. i - 1 : j + 1 \in 1 .. i /\ j \in 1 .. Len(pipe')
      BY <1>1
    <3> QED BY <1>1, <2>1, <3>1, <3>3, <3>4
  <2> QED BY <2>2, <2>3
<1> QED BY <1>1, <1>3, <1>4, <1>5 DEF MarksOK

LEMMA MarksStep ==
    ASSUME Ordered, TypeInv, BackedInv, ClockOK, MarksOK, [Next]_vars
    PROVE  MarksOK'
<1>1. CASE Quiet
  BY <1>1 DEF Quiet, MarksOK, Done, Reached, InTarget, Carries, IsData
<1>2. CASE StartCopy
  <2>1. /\ file' = file /\ xmin' = file.xmin /\ xmin' \in Nat
        /\ \A i \in 1 .. Len(pipe') : pipe'[i].type = "STATE" => pipe'[i].xmin = file.xmin
    <3>1. file' = file /\ xmin' = file.xmin /\ file.xmin \in Nat
      BY <1>2, StartOf, MarkTypes
    <3>2. \A i \in 1 .. Len(pipe') :
              pipe'[i] = State(version', file.xmin) \/ pipe'[i] = Activate(version', {})
      BY <1>2, StartOf
    <3> QED BY <3>1, <3>2 DEF State, Activate
  <2>2. \A i \in 1 .. Len(pipe') : \A j \in 1 .. i - 1 : j \in 1 .. Len(pipe')
    <3>1. Len(pipe') \in Nat
      BY <1>2, StartOf
    <3> QED BY <3>1
  <2> QED BY <2>1, <2>2 DEF MarksOK
<1>3. ASSUME NEW hand, NEW more, AtWork(hand, more) PROVE MarksOK'
  BY <1>3, MarksAtWork
<1>4. CASE Interrupted
  <2>1. CASE pipe' = pipe
    BY <1>4, <2>1 DEF Interrupted, MarksOK, Done, Reached, InTarget, Carries, IsData
  <2>2. CASE pipe' = << >>
    BY <1>4, <2>2 DEF Interrupted, MarksOK
  <2> QED BY <1>4, <2>1, <2>2 DEF Interrupted
<1>5. CASE TargetHandles
  BY <1>5, MarksAtTarget
<1> QED BY <1>1, <1>2, <1>3, <1>4, <1>5, Kinds

-----------------------------------------------------------------------------
(***************************************************************************)
(* The invariants.                                                         *)
(***************************************************************************)

OpeningInv == TypeInv /\ ClockOK /\ OpeningOK
CopyInv    == OpeningInv /\ BackedInv /\ MarksOK

LEMMA InitCopyInv == Init => CopyInv
<1> SUFFICES ASSUME Init PROVE CopyInv
  OBVIOUS
<1>1. pipe = << >> /\ Len(pipe) = 0
  BY DEF Init
<1>2. ClockOK /\ OpeningOK /\ MarksOK
  BY <1>1 DEF Init, ClockOK, InUse, OpeningOK, MarksOK
<1> QED BY <1>2, InitInv DEF CopyInv, OpeningInv

\* The version in use is the last one handed out, and nothing is handled
\* before a first STATE, whatever the order of ids (prepare, sync_table).
THEOREM OpeningInvariant == Spec => []OpeningInv
<1>1. Init => OpeningInv
  BY InitCopyInv DEF CopyInv
<1>2. OpeningInv /\ [Next]_vars => OpeningInv'
  BY NextStep, ClockStep, OpeningStep DEF OpeningInv
<1> QED BY <1>1, <1>2, PTL DEF Spec

\* Watermarks go back only when the version is complete.
THEOREM CopyInvariant == ASSUME Ordered PROVE Spec => []CopyInv
<1>1. Init => CopyInv
  BY InitCopyInv
<1>2. CopyInv /\ [Next]_vars => CopyInv'
  BY NextStep, ClockStep, OpeningStep, MarksStep DEF CopyInv, OpeningInv
<1> QED BY <1>1, <1>2, PTL DEF Spec
-----------------------------------------------------------------------------
(***************************************************************************)
(* The refinement, step by step.                                           *)
(***************************************************************************)

LEMMA HasIs == \A c : Copy!Has(c) <=> InTarget(c, clock)
BY DEF Copy!Has, InTarget, Copy!None, None

LEMMA InitRefines == Init => Copy!Init
BY DEF Init, Copy!Init, BelowWatermark, None, Copy!None

\* A commit changes rows to an id that the target cannot have yet.
LEMMA DatabaseRefines ==
    ASSUME TypeInv, BeginTransaction \/ CommitTransaction
    PROVE  Copy!Change \/ UNCHANGED Copy!vars
<1>1. UNCHANGED <<file, target, base, clock>> /\ BelowWatermark' = BelowWatermark
  BY DEF BeginTransaction, CommitTransaction, downstream, BelowWatermark
<1>2. CASE BeginTransaction
  BY <1>1, <1>2 DEF BeginTransaction, Copy!vars
<1>3. CASE CommitTransaction
  <2>1. PICK x \in open, changed \in SUBSET Rows :
            table' = [r \in Rows |-> IF r \in changed THEN x ELSE table[r]]
    BY <1>3 DEF CommitTransaction
  <2>2. DOMAIN table = Rows /\ DOMAIN table' = Rows
    BY <2>1 DEF TypeInv, TableOK
  <2>3. ASSUME NEW r \in Rows, table'[r] # table[r] PROVE table'[r] # target[r].xid
    <3>1. table'[r] \in open
      BY <2>1, <2>3
    <3>2. table'[r] # None
      <4>1. open \subseteq FirstXid .. nextXid - 1 /\ FirstXid \in Nat \ {0} /\ nextXid \in FirstXid .. MaxXid + 1
        BY SizesAssumption DEF TypeInv, TableOK
      <4> QED BY <3>1, <4>1, XidType DEF None
    <3> QED BY <3>1, <3>2 DEF TypeInv, DownstreamOK, Committed
  <2> QED BY <1>1, <2>2, <2>3 DEF Copy!Change
<1> QED BY <1>2, <1>3

LEMMA PresentIs ==
    ASSUME TypeInv
    PROVE  Copy!Present = {c \in RowVersion : table[c.row] = c.xid}
<1>1. table \in [Rows -> Xids \cup {None}] /\ None \notin Xids
  BY XidType DEF TypeInv, TableOK, Watermark, None
<1> HIDE DEF Xids
<1> QED BY <1>1 DEF Copy!Present, Copy!None, None, RowVersion

LEMMA StartRefines ==
    ASSUME OpeningInv, StartCopy
    PROVE  Copy!Begin \/ Copy!Resume
<1>1. /\ UNCHANGED <<table, file, target>> /\ clock \in Nat
      /\ base' = IF file.xmin # None THEN Unchanged(base) ELSE QueryRows(None)
      /\ IF file.xmin # None THEN clock' = clock ELSE clock' = clock + 1
  BY StartOf, StartVersion DEF OpeningInv
<1>2. base \subseteq RowVersion
  BY DEF OpeningInv, TypeInv, TableOK
<1>3. CASE file.xmin # None
  <2>1. base' = base \cap Copy!Present
    BY <1>1, <1>2, <1>3, PresentIs DEF OpeningInv, Unchanged
  <2>2. BelowWatermark' = BelowWatermark \cap base'
    BY <1>1, <1>2, <2>1 DEF BelowWatermark
  <2> QED BY <1>1, <1>3, <2>1, <2>2 DEF Copy!Resume
<1>4. CASE file.xmin = None
  <2>1. QueryRows(None) = Copy!Present
    <3>1. /\ QueryRows(None) \subseteq RowVersion
          /\ \A c \in QueryRows(None) : c.xid = table[c.row]
          /\ \A c \in RowVersion : c.xid = table[c.row] /\ None <= c.xid => c \in QueryRows(None)
      BY QueryOf, XidType DEF OpeningInv, TypeInv
    <3>2. \A c \in RowVersion : None <= c.xid
      <4>1. \A c \in RowVersion : c.xid \in Nat
        BY XidType DEF RowVersion
      <4> QED BY <4>1 DEF None
    <3> QED BY <3>1, <3>2, PresentIs DEF OpeningInv
  <2>2. BelowWatermark = {} /\ BelowWatermark' = {}
    BY <1>1, <1>4 DEF BelowWatermark
  <2> QED BY <1>1, <1>4, <2>1, <2>2 DEF Copy!Begin
<1> QED BY <1>3, <1>4

\* An activation, at the head of a first copy or at the end of any, keeps
\* every row that the table still has.
LEMMA ActivationKeeps ==
    ASSUME OpeningInv, BackedInv, TargetHandles, NEW m, m = pipe[1], m.type = "ACTIVATE_VERSION",
           NEW r \in Rows, table[r] # None, table[r] = target[r].xid
    PROVE  target'[r] = target[r]
<1> SUFFICES ASSUME target'[r] # target[r] PROVE FALSE
  OBVIOUS
<1>1. pipe # << >> /\ 1 \in 1 .. Len(pipe) /\ MessageOK(m) /\ Head(pipe) = m /\ pipe' = Tail(pipe)
  BY HandleOf DEF OpeningInv, TargetHandles
<1>2. m.version = clock
  BY <1>1 DEF OpeningInv, ClockOK, InUse
<1>3. target[r].version \notin {None, m.version}
  BY HandledRow DEF OpeningInv, IsData
<1>4. m.covers = base
  BY <1>1, <1>2, <1>3 DEF OpeningInv, OpeningOK
<1>5. PICK v : InUse(v) /\ Accounted(v)
  BY <1>1 DEF OpeningInv, TypeInv, VersionOK
<1>6. m.version = v
  BY <1>1, <1>5 DEF InUse
<1>7. [row |-> r, xid |-> table[r]] \in base
  BY <1>3, <1>5, <1>6 DEF Accounted
<1>8. InTarget([row |-> r, xid |-> table[r]], m.version)
  BY <1>1, <1>4, <1>7, CoveredRows DEF OpeningInv, HandlesActivation
<1> QED BY <1>3, <1>8 DEF InTarget

LEMMA TargetRefines ==
    ASSUME CopyInv, TargetHandles
    PROVE  Copy!Store \/ Copy!Settle \/ Copy!Seal \/ UNCHANGED Copy!vars
<1> PICK m : m = pipe[1]
  OBVIOUS
<1>1. /\ UNCHANGED <<table, base, clock>> /\ pipe # << >> /\ 1 \in 1 .. Len(pipe)
      /\ m \in MessageType /\ MessageOK(m) /\ Head(pipe) = m /\ pipe' = Tail(pipe)
      /\ IF m.type = "STATE" THEN file' = [version |-> m.version, xmin |-> m.xmin] ELSE file' = file
      /\ m.type = "STATE" \/ IsData(m) \/ m.type = "ACTIVATE_VERSION"
      /\ m.type = "STATE" => target' = target
  BY HandleOf DEF CopyInv, OpeningInv, TargetHandles
<1>2. InUse(clock) /\ clock # None /\ DOMAIN table = Rows /\ DOMAIN target = Rows
  BY <1>1 DEF CopyInv, OpeningInv, ClockOK, TypeInv, TableOK, DownstreamOK
<1>3. CASE m.type = "STATE"
  <2>1. target' = target /\ file'.xmin = m.xmin
    BY <1>1, <1>3
  <2>2. m.version = clock
    BY <1>1, <1>2, <1>3 DEF InUse
  <2>3. \A c : Reached(c, clock, 0) <=> InTarget(c, clock)
    <3>1. 1 .. 0 = {}
      OBVIOUS
    <3> QED BY <3>1 DEF Reached
  <2>4. ASSUME NEW c \in BelowWatermark' PROVE c \in base /\ Copy!Has(c)
    <3>1. c \in Claims(m) /\ c \in base
      BY <1>1, <1>3, <2>1, <2>4 DEF BelowWatermark, Claims
    <3>2. Reached(c, clock, 1 - 1)
      BY <1>1, <2>2, <3>1 DEF CopyInv, BackedInv, ClaimsOK
    <3> QED BY <2>3, <3>1, <3>2, HasIs
  <2>5. BelowWatermark \subseteq BelowWatermark' \/ Copy!Complete
    <3>1. CASE Done(1 - 1)
      BY <2>3, <3>1, HasIs DEF Done, Copy!Complete
    <3>2. CASE ~Done(1 - 1)
      <4>1. file.xmin <= m.xmin /\ file.xmin \in Nat /\ m.xmin \in Nat /\ \A c \in base : c.xid \in Nat
        BY <1>1, <1>3, <3>2, MarkTypes DEF CopyInv, OpeningInv, MarksOK
      <4> QED BY <1>1, <2>1, <4>1 DEF BelowWatermark, None
    <3> QED BY <3>1, <3>2
  <2> QED BY <1>1, <2>1, <2>4, <2>5 DEF Copy!Settle
<1>4. CASE IsData(m)
  <2>1. file' = file /\ BelowWatermark' = BelowWatermark
    BY <1>1, <1>4 DEF IsData, BelowWatermark
  <2>2. m.version \in {clock, None} /\ m.rows \subseteq RowVersion
    BY <1>1, <1>2, <1>4 DEF InUse, MessageOK, IsData, MessageType
  <2>3. target' = [r \in Rows |->
            IF \E c \in m.rows : c.row = r
            THEN [xid |-> Chosen(m, r).xid, version |-> m.version] ELSE target[r]]
    BY <1>4, HandleOf DEF CopyInv, OpeningInv
  <2>4. ASSUME NEW r \in Rows, target'[r] # target[r]
        PROVE  target'[r].xid # None /\ target'[r].version \in {clock, None}
    <3>1. PICK c \in m.rows : target'[r] = [xid |-> c.xid, version |-> m.version]
      BY <1>4, <2>4, HandledRow DEF CopyInv, OpeningInv, IsData
    <3>2. c.xid # None
      BY <2>2, XidType DEF RowVersion, None
    <3> QED BY <2>2, <3>1, <3>2
  <2>5. ASSUME NEW c \in base, Copy!Has(c) PROVE Copy!Has(c)'
    <3>1. InTarget(c, clock)
      BY <2>5, HasIs
    <3> PICK v : v = clock
      OBVIOUS
    <3>2. target'[c.row].xid = c.xid /\ target'[c.row].version \in {v, None}
      BY <1>2, <3>1, RowArrives DEF CopyInv, OpeningInv
    <3> QED BY <1>1, <3>2 DEF Copy!Has, Copy!None, None
  <2> QED BY <1>1, <1>2, <2>1, <2>3, <2>4, <2>5 DEF Copy!Store, Copy!None, None
<1>5. CASE m.type = "ACTIVATE_VERSION"
  <2>1. /\ file' = file /\ BelowWatermark' = BelowWatermark
        /\ target' = [r \in Rows |->
               IF target[r].version \in {None, m.version} THEN target[r]
               ELSE [xid |-> None, version |-> None]]
    <3>1. m.type # "STATE"
      BY <1>5
    <3> QED BY <1>1, <1>5, <3>1, HandleOf DEF CopyInv, OpeningInv, BelowWatermark
  <2>2. m.version = clock
    BY <1>1, <1>2, <1>5 DEF InUse
  <2>3. CASE m.covers = base
    <3>1. Copy!Complete
      <4>1. \A c \in base : InTarget(c, clock)
        BY <1>1, <1>5, <2>2, <2>3, CoveredRows DEF CopyInv, OpeningInv, HandlesActivation
      <4> QED BY <4>1, HasIs DEF Copy!Complete
    <3>2. \A r \in Rows : table[r] # None /\ table[r] = target[r].xid => target'[r] = target[r]
      BY <1>5, ActivationKeeps DEF CopyInv
    <3> QED BY <1>1, <1>2, <2>1, <2>2, <3>1, <3>2 DEF Copy!Seal, Copy!None, None
  <2>4. CASE m.covers # base
    <3>1. \A r \in Rows : target[r].version \in {None, m.version}
      BY <1>1, <1>5, <2>2, <2>4 DEF CopyInv, OpeningInv, OpeningOK
    <3>2. target' = target
      <4>1. target = [r \in Rows |-> target[r]]
        BY DEF CopyInv, OpeningInv, TypeInv, DownstreamOK
      <4> QED BY <2>1, <3>1, <4>1
    <3> QED BY <1>1, <2>1, <3>2 DEF Copy!vars
  <2> QED BY <2>3, <2>4
<1> QED BY <1>1, <1>3, <1>4, <1>5

LEMMA StepRefines ==
    ASSUME CopyInv, [Next]_vars
    PROVE  [Copy!Next]_(Copy!vars)
<1>1. CASE BeginTransaction \/ CommitTransaction
  BY <1>1, DatabaseRefines DEF CopyInv, OpeningInv, Copy!Next
<1>2. CASE StartCopy
  BY <1>2, StartRefines DEF CopyInv, Copy!Next
<1>3. ASSUME UNCHANGED <<table, file, target, base, clock>> PROVE UNCHANGED Copy!vars
  BY <1>3 DEF Copy!vars, BelowWatermark
<1>4. CASE CopyRecord \/ CopyRecordBatch \/ FinishCopy
  <2>1. PICK hand, more : AtWork(hand, more)
    BY <1>4, CopyRecordWorks, CopyRecordBatchWorks, FinishCopyWorks DEF CopyInv, OpeningInv
  <2> QED BY <1>3, <2>1, WorkOf DEF CopyInv, OpeningInv
<1>5. CASE CopyFails \/ PipelineCrash
  BY <1>3, <1>5 DEF CopyFails, PipelineCrash, Crash, database
<1>6. CASE TargetHandles
  BY <1>6, TargetRefines DEF Copy!Next
<1>7. CASE UNCHANGED vars
  BY <1>3, <1>7 DEF vars, database, downstream
<1> QED BY <1>1, <1>2, <1>4, <1>5, <1>6, <1>7 DEF Next

-----------------------------------------------------------------------------
(***************************************************************************)
(* The theorems.                                                           *)
(***************************************************************************)

\* An activation discards no row that the table still has as the target knew
\* it (sync_table; the target's ACTIVATE_VERSION).
THEOREM DiscardsOnlyStale == ASSUME Ordered PROVE Spec => ActivationDiscardsOnlyStale
<1>1. ASSUME CopyInv, [Next]_vars, HandlesActivation, NEW r \in Rows,
             target'[r].xid = None, target[r].xid # None
      PROVE  table[r] # target[r].xid
  <2>1. TargetHandles
    BY <1>1, TargetAlone
  <2>2. Head(pipe) = pipe[1] /\ Head(pipe).type = "ACTIVATE_VERSION"
    BY <1>1, CoveredRows DEF CopyInv, OpeningInv
  <2> QED BY <1>1, <2>1, <2>2, ActivationKeeps DEF CopyInv
<1>2. CopyInv /\ [Next]_vars =>
          [HandlesActivation =>
              \A r \in Rows : target'[r].xid = None /\ target[r].xid # None
                              => table[r] # target[r].xid]_vars
  BY <1>1
<1> QED BY CopyInvariant, <1>2, PTL DEF Spec, ActivationDiscardsOnlyStale

\* The full-table copy is a versioned copy: begun afresh only with nothing
\* settled, never losing ground, sealed only when complete (full_table.py).
THEOREM CopyIsVersioned == ASSUME Ordered PROVE Spec => ImplementsVersionedCopy
<1>1. Init => Copy!Init
  BY InitRefines
<1>2. CopyInv /\ [Next]_vars => [Copy!Next]_(Copy!vars)
  BY StepRefines
<1> QED BY CopyInvariant, <1>1, <1>2, PTL DEF Spec, ImplementsVersionedCopy, Copy!Spec
=============================================================================
